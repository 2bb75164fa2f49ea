--------------------------- MODULE ConnectionMap ---------------------------
(***************************************************************************)
(* The hash map from client descriptors to connections (src/models.c), in  *)
(* the memory it lives in: buckets, nodes, and the chunks malloc() takes   *)
(* nodes from and free() gives them back to.                               *)
(*                                                                         *)
(* connection_map_remove() frees a node without unlinking it: both of its  *)
(* branches (prev = cur->next; m->table[idx]->next = cur->next) leave the  *)
(* list as it was.  The chunk may become a node of another bucket, or be   *)
(* given to something that is not the map's, and the old bucket still      *)
(* leads to it: from then on a call in that bucket may miss what is there, *)
(* or never return.                                                        *)
(*                                                                         *)
(* A call is one pass over a bucket, one node per step.  entry_count stays *)
(* 0, so the resize at the end of connection_map_insert() never happens.   *)
(***************************************************************************)
EXTENDS Integers

CONSTANTS
  Keys,       \* client descriptors; the server inserts each at most once
  Conns,      \* connections
  Buckets,
  Bucket,     \* hash_key(key) % capacity
  Chunks,     \* memory of the size of a node
  NULL, Wild, \* the null pointer; a pointer that is none
  Scribbles,  \* what others may leave in the second half of a chunk
  NoKey, NoConn

ASSUME ConnectionMapAssumption ==
  /\ Bucket \in [Keys -> Buckets]
  /\ NULL \notin Chunks /\ Wild \notin Chunks /\ NULL # Wild
  /\ Scribbles \subseteq {NULL, Wild}
  /\ NoKey \notin Keys /\ NoConn \notin Conns

Pointers == Chunks \cup {NULL, Wild}
Nodes == [key : Keys \cup {NoKey}, conn : Conns \cup {NoConn}, next : Pointers]

VARIABLES
  table,   \* struct map_node **table
  node,    \* what is in each chunk
  owner,   \* chunk -> "free", "map" or "other"
  used,    \* keys that have been inserted, or are being
  live,    \* keys inserted and not removed, PollLoop's Live
  call,    \* the call under way: [op, key, conn]
  pc,      \* "idle" or "scan"
  cur,     \* its cursor
  last     \* the last call that returned

heap == <<table, node, owner>>
vars == <<heap, used, live, call, pc, cur, last>>

NoCall == [op |-> "none", key |-> NoKey, conn |-> NoConn]
Owned == {n \in Chunks : owner[n] = "map"}

\* The buckets somebody has left; a key that is being inserted has not.
Gone == (used \ live) \ {call.key}
Left == {Bucket[k] : k \in Gone}

Init ==
  /\ table = [b \in Buckets |-> NULL]
  /\ node = [n \in Chunks |-> [key |-> NoKey, conn |-> NoConn, next |-> NULL]]
  /\ owner = [n \in Chunks |-> "free"]
  /\ used = {} /\ live = {}
  /\ call = NoCall
  /\ pc = "idle" /\ cur = NULL
  /\ last = [op |-> "none"]

-----------------------------------------------------------------------------
(* The calls of server.c. *)

Begin(op, k, c) ==
  /\ pc = "idle"
  /\ pc' = "scan"
  /\ call' = [op |-> op, key |-> k, conn |-> c]
  /\ cur' = table[Bucket[k]]

\* accept_new_client(), with a descriptor accept() has not returned before.
connection_map_insert(k, c) ==
  /\ k \notin used
  /\ Begin("insert", k, c)
  /\ used' = used \cup {k}
  /\ UNCHANGED <<heap, live, last>>

\* connection_map_contains(), and connection_map_get() after it: the server
\* looks for descriptors of its pollfd array (PollLoop's Registered).
connection_map_get(k) ==
  /\ k \in live
  /\ Begin("find", k, NoConn)
  /\ UNCHANGED <<heap, used, live, last>>

\* handle_client_disconnect().
connection_map_remove(k) ==
  /\ k \in live
  /\ Begin("remove", k, NoConn)
  /\ UNCHANGED <<heap, used, live, last>>

-----------------------------------------------------------------------------
(* The loop while (cur), and what follows it.                              *)

Matches == cur \in Chunks /\ node[cur].key = call.key
Stops == pc = "scan" /\ (cur = NULL \/ Matches)

\* Nothing is modelled of a process that has followed a wild pointer.
Follow ==
  /\ pc = "scan"
  /\ cur \in Chunks /\ ~Matches
  /\ cur' = node[cur].next
  /\ UNCHANGED <<heap, used, live, call, pc, last>>

Return(c) ==
  /\ pc' = "idle" /\ call' = NoCall /\ cur' = NULL
  /\ last' = [op |-> call.op, key |-> call.key, conn |-> c]
  /\ UNCHANGED used

Found ==
  /\ Stops
  /\ call.op = "find"
  /\ Return(IF Matches THEN node[cur].conn ELSE NoConn)
  /\ UNCHANGED <<heap, live>>

\* The new node n, pushed before the bucket's others.
Unlinked(n) == [key |-> call.key, conn |-> call.conn, next |-> NULL]
ToItself(n) == [key |-> call.key, conn |-> call.conn, next |-> n]
Nameless(n) == [key |-> call.key, conn |-> NoConn, next |-> table[Bucket[call.key]]]
Pushed(n) == [key |-> call.key, conn |-> call.conn, next |-> table[Bucket[call.key]]]

\* A key that is there keeps its node and gets the new connection.
Inserted ==
  /\ Stops
  /\ call.op = "insert"
  /\ IF Matches
     THEN /\ node' = [node EXCEPT ![cur].conn = call.conn]
          /\ UNCHANGED <<table, owner>>
     ELSE \E n \in Chunks :
            /\ owner[n] = "free"
            /\ owner' = [owner EXCEPT ![n] = "map"]
            /\ node' = [node EXCEPT ![n] = Pushed(n)]
            /\ table' = [table EXCEPT ![Bucket[call.key]] = n]
  /\ live' = live \cup {call.key}
  /\ Return(call.conn)

\* free() overwrites the first half of the chunk, where key and conn are.
Freed(n) == [key |-> NoKey, conn |-> NoConn, next |-> node[n].next]

Removed ==
  /\ Stops
  /\ call.op = "remove"
  /\ IF Matches
     THEN /\ owner' = [owner EXCEPT ![cur] = "free"]
          /\ node' = [node EXCEPT ![cur] = Freed(cur)]
     ELSE UNCHANGED <<owner, node>>
  /\ live' = live \ {call.key}
  /\ Return(IF Matches THEN node[cur].conn ELSE NoConn)
  /\ UNCHANGED table

-----------------------------------------------------------------------------
(* The rest of the server: a chunk serves as a header, which lies where    *)
(* the key was, or as a name, which may reach into next.  One at a time is *)
(* enough to spoil any chunk.  What is written where the key was is taken  *)
(* for no descriptor: a header begins with a message type, 0 to 4, a name  *)
(* with its letters.                                                       *)

TakenByOthers(n) ==
  /\ pc = "idle"
  /\ owner[n] = "free"
  /\ \A o \in Chunks : owner[o] # "other"
  /\ owner' = [owner EXCEPT ![n] = "other"]
  /\ \E p \in {node[n].next} \cup Scribbles : node' = [node EXCEPT ![n].next = p]
  /\ UNCHANGED <<table, used, live, call, pc, cur, last>>

GivenBack(n) ==
  /\ pc = "idle"
  /\ owner[n] = "other"
  /\ owner' = [owner EXCEPT ![n] = "free"]
  /\ UNCHANGED <<table, node, used, live, call, pc, cur, last>>

Step == Follow \/ Found \/ Inserted \/ Removed

Next ==
  \/ \E k \in Keys :
       \/ connection_map_get(k) \/ connection_map_remove(k)
       \/ \E c \in Conns : connection_map_insert(k, c)
  \/ Step
  \/ \E n \in Chunks : TakenByOthers(n) \/ GivenBack(n)

Spec == Init /\ [][Next]_vars

\* One thread: nothing holds up a call that has begun.
FairSpec == Spec /\ WF_vars(Step)

-----------------------------------------------------------------------------
(* What is checked. *)

\* Every variable has its type, and a node of the map has its key and its
\* connection set: the rest of malloc()'s memory is not relied upon.
TypeOK ==
  /\ table \in [Buckets -> Pointers]
  /\ node \in [Chunks -> Nodes]
  /\ owner \in [Chunks -> {"free", "map", "other"}]
  /\ \A n \in Owned : node[n].key \in Keys /\ node[n].conn \in Conns
  /\ used \subseteq Keys /\ live \subseteq used
  /\ call \in [op : {"none", "find", "insert", "remove"}, key : Keys \cup {NoKey},
               conn : Conns \cup {NoConn}]
  /\ pc \in {"idle", "scan"}
  /\ pc = "scan" => call.op # "none" /\ call.key \in Keys
  /\ cur \in Pointers

\* The nodes in memory are the abstract map: in a bucket nobody has left every
\* call finds what was inserted, with its own connection, until it is removed,
\* whatever is pushed before it and whatever memory its node is given; in the
\* others a call may miss a client that is there, but takes none for another
\* and loses none of theirs (models.c, all four calls).
Entries == {[key |-> node[n].key, conn |-> node[n].conn] : n \in Owned}
A == INSTANCE AbstractMap WITH map <- Entries, left <- Left
Implements == A!Spec

\* Every call in a bucket nobody has left returns: its list ends.  "check if
\* there already exists a value for key" (models.c:87) gets an answer.
InUnleft == pc = "scan" /\ Bucket[call.key] \notin Left
CallsEnd == InUnleft ~> pc = "idle"

\* So does every other, as the loop's comment has it: it does not, once a list
\* closes on itself.
EveryCallEnds == pc = "scan" ~> pc = "idle"
=============================================================================
