------------------------ MODULE ConnectionMapProofs ------------------------
(***************************************************************************)
(* ConnectionMap implements AbstractMap for every number of descriptors,   *)
(* every hash and every way malloc() and free() reuse memory.              *)
(***************************************************************************)
EXTENDS ConnectionMap, TLAPS

\* p is the list of bucket b, m nodes and the null pointer, and every node
\* whose key falls into b is in it.
IsList(b, m, p) ==
  /\ p \in [0 .. m -> Pointers]
  /\ p[0] = table[b] /\ p[m] = NULL
  /\ \A i \in 0 .. m - 1 :
       /\ p[i] \in Owned
       /\ p[i + 1] = node[p[i]].next
       /\ Bucket[node[p[i]].key] = b
  /\ \A n \in Owned : Bucket[node[n].key] = b => \E i \in 0 .. m - 1 : p[i] = n

Sound(b) == b \notin Left

\* The keys in memory were inserted, each in one node; in a sound bucket all
\* that are registered are there.
KeysMatch ==
  /\ \A n \in Chunks : node[n].key # NoKey => n \in Owned
  /\ \A n \in Owned : node[n].key \in live \cup Gone
  /\ \A n, o \in Owned : node[n].key = node[o].key => n = o
  /\ \A k \in live : Sound(Bucket[k]) => \E n \in Owned : node[n].key = k

\* A call is about a key that suits it.
CallFits ==
  /\ pc = "idle" => call = NoCall
  /\ pc = "scan" =>
       /\ call.op = "insert" => call.key \in used \ live /\ call.conn \in Conns
       /\ call.op \in {"find", "remove"} => call.key \in live

\* A bucket nobody has left is a list of all its nodes.
ListsWhole ==
  \A b \in Buckets : Sound(b) => \E m \in Nat : \E p : IsList(b, m, p)

\* A search in a sound bucket has its node before it.
Searches == pc = "scan" /\ call.op \in {"find", "remove"} /\ Sound(Bucket[call.key])
SearchAhead ==
  Searches =>
    \E m \in Nat : \E p :
      /\ IsList(Bucket[call.key], m, p)
      /\ \E i \in 0 .. m - 1 : p[i] = cur
           /\ \E j \in i .. m - 1 : node[p[j]].key = call.key

IInv == TypeOK /\ KeysMatch /\ CallFits /\ ListsWhole /\ SearchAhead

-----------------------------------------------------------------------------
\* Nothing is linked at first.
LEMMA InitIInv ==
  ASSUME ConnectionMapAssumption
  PROVE  Init => IInv
<1> SUFFICES ASSUME Init PROVE IInv
  OBVIOUS
<1> USE DEF Init
<1>1. Owned = {}
  BY DEF Owned
<1>2. TypeOK
  BY <1>1 DEF TypeOK, Nodes, Pointers, NoCall, ConnectionMapAssumption
<1>3. KeysMatch /\ CallFits /\ SearchAhead
  BY <1>1 DEF KeysMatch, CallFits, SearchAhead, Searches, NoCall
<1>4. ListsWhole
  <2> SUFFICES ASSUME NEW b \in Buckets
               PROVE  \E m \in Nat : \E p : IsList(b, m, p)
    BY DEF ListsWhole
  <2> DEFINE p == [i \in 0 .. 0 |-> NULL]
  <2>1. IsList(b, 0, p)
    BY <1>1 DEF IsList, Pointers
  <2> QED
    BY <2>1
<1> QED
  BY <1>2, <1>3, <1>4 DEF IInv

\* Nobody leaves a bucket but by a removal that returns.
LEMMA LeftStays ==
  ASSUME ConnectionMapAssumption, IInv, [Next]_vars, ~Removed
  PROVE  Gone' = Gone /\ Left' = Left
<1> USE DEF IInv, CallFits, TypeOK, NoCall, ConnectionMapAssumption
<1>1. Gone' = Gone
  <2>1. ASSUME NEW k \in Keys,
               \/ connection_map_get(k) \/ connection_map_remove(k)
               \/ \E c \in Conns : connection_map_insert(k, c)
        PROVE  Gone' = Gone
    BY <2>1 DEF Gone, Begin, connection_map_get, connection_map_remove,
                connection_map_insert
  <2>2. CASE Follow \/ (\E n \in Chunks : TakenByOthers(n) \/ GivenBack(n))
             \/ UNCHANGED vars
    BY <2>2 DEF Gone, Follow, TakenByOthers, GivenBack, vars
  <2>3. CASE Found
    BY <2>3 DEF Gone, Found, Stops, Return
  <2>4. CASE Inserted
    BY <2>4 DEF Gone, Inserted, Stops, Return
  <2> QED
    BY <2>1, <2>2, <2>3, <2>4 DEF Next, Step
<1> QED
  BY <1>1 DEF Left

\* A removal that returns leaves its bucket.
LEMMA LeftGrows ==
  ASSUME ConnectionMapAssumption, IInv, Removed
  PROVE  Gone' = Gone \cup {call.key} /\ Left' = Left \cup {Bucket[call.key]}
<1>1. Gone' = Gone \cup {call.key}
  BY DEF Gone, Removed, Return, Stops, IInv, CallFits, TypeOK, NoCall, ConnectionMapAssumption
<1> QED
  BY <1>1 DEF Left

\* A call starts at the head of its bucket, which is whole if it is sound.
LEMMA CallsBegin ==
  ASSUME ConnectionMapAssumption, IInv, NEW k \in Keys,
         \/ connection_map_get(k) \/ connection_map_remove(k)
         \/ \E c \in Conns : connection_map_insert(k, c)
  PROVE  IInv'
<1> USE DEF IInv, heap, Begin
<1> USE DEF connection_map_get, connection_map_remove, connection_map_insert
<1>1. TypeOK'
  BY DEF TypeOK, Owned, ConnectionMapAssumption
<1>2. Gone' = Gone /\ Left' = Left
  <2>1. Next /\ ~Removed
    BY DEF Next, Removed, Return
  <2> QED
    BY <2>1, LeftStays
<1>3. Owned' = Owned
  BY DEF Owned
<1>4. KeysMatch' /\ CallFits'
  BY <1>2, <1>3 DEF KeysMatch, CallFits, TypeOK, Sound
<1>5. \A b, m, p : IsList(b, m, p)' <=> IsList(b, m, p)
  BY <1>3 DEF IsList
<1>6. ListsWhole'
  BY <1>2, <1>5 DEF ListsWhole, Sound
<1>7. SearchAhead'
  <2> SUFFICES ASSUME call'.op \in {"find", "remove"}, Sound(Bucket[k])
               PROVE  \E m \in Nat : \E p :
                        /\ IsList(Bucket[k], m, p)
                        /\ \E i \in 0 .. m - 1 : p[i] = cur'
                             /\ \E j \in i .. m - 1 : node[p[j]].key = k
    BY <1>2, <1>5 DEF SearchAhead, Searches, Sound
  <2>1. k \in live
    OBVIOUS
  <2>2a. PICK m \in Nat : \E p : IsList(Bucket[k], m, p)
    BY DEF ListsWhole, ConnectionMapAssumption
  <2>3. PICK p : IsList(Bucket[k], m, p)
    BY <2>2a
  <2>4. PICK n \in Owned : node[n].key = k
    BY <2>1 DEF KeysMatch
  <2>5. PICK j \in 0 .. m - 1 : p[j] = n
    BY <2>3, <2>4 DEF IsList
  <2>6. 0 \in 0 .. m - 1 /\ p[0] = cur' /\ j \in 0 .. m - 1
    BY <2>3, <2>5 DEF IsList
  <2> QED
    BY <2>3, <2>4, <2>5, <2>6
<1> QED
  BY <1>1, <1>4, <1>6, <1>7

\* A step along a list passes no node with the key that is searched.
LEMMA FollowIInv ==
  ASSUME ConnectionMapAssumption, IInv, Follow
  PROVE  IInv'
<1> USE DEF IInv, heap, Follow
<1>1. TypeOK'
  BY DEF TypeOK, Owned, Nodes
<1>2. Owned' = Owned /\ Gone' = Gone /\ Left' = Left
  <2>1. Next /\ ~Removed
    BY DEF Next, Step, Removed, Return, Stops
  <2> QED
    BY <2>1, LeftStays DEF Owned
<1>3. KeysMatch' /\ CallFits'
  BY <1>2 DEF KeysMatch, CallFits, Sound
<1>4. \A b, m, p : IsList(b, m, p)' <=> IsList(b, m, p)
  BY <1>2 DEF IsList
<1>5. ListsWhole'
  BY <1>2, <1>4 DEF ListsWhole, Sound
<1>6. SearchAhead'
  <2> SUFFICES ASSUME Searches
               PROVE  \E m \in Nat : \E p :
                        /\ IsList(Bucket[call.key], m, p)
                        /\ \E i \in 0 .. m - 1 : p[i] = cur'
                             /\ \E j \in i .. m - 1 : node[p[j]].key = call.key
    BY <1>2, <1>4 DEF SearchAhead, Searches, Sound
  <2>0. PICK m \in Nat :
          \E p : /\ IsList(Bucket[call.key], m, p)
                 /\ \E i \in 0 .. m - 1 : p[i] = cur
                      /\ \E j \in i .. m - 1 : node[p[j]].key = call.key
    BY DEF SearchAhead
  <2>1. PICK p :
          /\ IsList(Bucket[call.key], m, p)
          /\ \E i \in 0 .. m - 1 : p[i] = cur
               /\ \E j \in i .. m - 1 : node[p[j]].key = call.key
    BY <2>0
  <2>2. PICK i \in 0 .. m - 1 :
          p[i] = cur /\ \E j \in i .. m - 1 : node[p[j]].key = call.key
    BY <2>1
  <2>3. PICK j \in i .. m - 1 : node[p[j]].key = call.key
    BY <2>2
  <2>4. i # j
    BY <2>2, <2>3 DEF Matches
  <2>5. i + 1 \in 0 .. m - 1 /\ j \in i + 1 .. m - 1
    BY <2>4
  <2>6. p[i + 1] = cur'
    BY <2>1, <2>2 DEF IsList
  <2> QED
    BY <2>1, <2>3, <2>5, <2>6
<1> QED
  BY <1>1, <1>3, <1>5, <1>6

\* What matches is a node of the map.
LEMMA MatchIsNode ==
  ASSUME ConnectionMapAssumption, IInv, Stops, Matches
  PROVE  cur \in Owned /\ node[cur].key = call.key
  BY DEF IInv, KeysMatch, TypeOK, Stops, Matches, ConnectionMapAssumption

\* A search in a sound bucket does not end before it has found its node.
LEMMA SearchFinds ==
  ASSUME ConnectionMapAssumption, IInv, Stops, Searches
  PROVE  Matches
<1>0. PICK m \in Nat : \E p :
        IsList(Bucket[call.key], m, p) /\ \E i \in 0 .. m - 1 : p[i] = cur
  BY DEF IInv, SearchAhead, Stops
<1>1. PICK p : IsList(Bucket[call.key], m, p) /\ \E i \in 0 .. m - 1 : p[i] = cur
  BY <1>0
<1>2. cur \in Owned
  BY <1>1 DEF IsList
<1>3. cur # NULL
  BY <1>2 DEF Owned, ConnectionMapAssumption
<1> QED
  BY <1>2, <1>3 DEF Stops, Matches

\* The key of an insertion is in no node yet.
LEMMA InsertIsNew ==
  ASSUME ConnectionMapAssumption, IInv, Stops, call.op = "insert"
  PROVE  /\ ~Matches
         /\ call.key \in Keys \ live /\ call.conn \in Conns
  BY DEF IInv, KeysMatch, CallFits, TypeOK, Stops, Matches, Gone, ConnectionMapAssumption

\* A search that returns has changed nothing.
LEMMA FoundIInv ==
  ASSUME ConnectionMapAssumption, IInv, Found
  PROVE  IInv'
<1> USE DEF IInv, heap, Found, Return, Stops
<1>1. TypeOK'
  BY DEF TypeOK, Owned, NoCall, Pointers
<1>2. Owned' = Owned /\ Gone' = Gone /\ Left' = Left
  BY LeftStays DEF Owned, Next, Step, Removed
<1>3. KeysMatch' /\ CallFits' /\ SearchAhead'
  BY <1>2 DEF KeysMatch, CallFits, SearchAhead, Searches, Sound
<1>4. \A b, m, p : IsList(b, m, p)' <=> IsList(b, m, p)
  BY <1>2 DEF IsList
<1>5. ListsWhole'
  BY <1>2, <1>4 DEF ListsWhole, Sound
<1> QED
  BY <1>1, <1>3, <1>5

\* Pushing a free chunk keeps the other lists and extends its own.
LEMMA InsertedIInv ==
  ASSUME ConnectionMapAssumption, IInv, Inserted
  PROVE  IInv'
<1> DEFINE k == call.key
           b == Bucket[k]
<1>1. /\ Stops /\ call.op = "insert" /\ ~Matches
      /\ k \in Keys \ live /\ call.conn \in Conns
  BY InsertIsNew DEF Inserted
<1>2. PICK n \in Chunks :
        /\ owner[n] = "free"
        /\ owner' = [owner EXCEPT ![n] = "map"]
        /\ node' = [node EXCEPT ![n] = Pushed(n)]
        /\ table' = [table EXCEPT ![b] = n]
  BY <1>1 DEF Inserted
<1>3. /\ live' = live \cup {k} /\ used' = used
      /\ pc' = "idle" /\ call' = NoCall /\ cur' = NULL
  BY DEF Inserted, Return
<1>4. b \in Buckets /\ k \in used
  BY <1>1 DEF ConnectionMapAssumption, IInv, CallFits, Stops
<1>5. Owned' = Owned \cup {n} /\ n \notin Owned
  BY <1>2 DEF Owned, IInv, TypeOK
<1>6. /\ node'[n] = Pushed(n) /\ table'[b] = n
      /\ \A o \in Chunks \ {n} : node'[o] = node[o]
      /\ \A c \in Buckets \ {b} : table'[c] = table[c]
  BY <1>2, <1>4 DEF IInv, TypeOK
<1>7. TypeOK'
  <2>1. Pushed(n) \in Nodes
    BY <1>1, <1>4 DEF Pushed, Nodes, IInv, TypeOK
  <2>2. \A o \in Owned' : node'[o].key \in Keys /\ node'[o].conn \in Conns
    BY <1>1, <1>5, <1>6 DEF Pushed, IInv, TypeOK, Owned
  <2>3. table' \in [Buckets -> Pointers] /\ node' \in [Chunks -> Nodes]
    BY <1>2, <2>1 DEF IInv, TypeOK, Pointers
  <2> QED
    BY <1>2, <1>3, <1>4, <2>2, <2>3 DEF IInv, TypeOK, NoCall, Pointers
<1>8. Gone' = Gone /\ Left' = Left
  BY <1>1, LeftStays DEF Next, Step, Removed
<1>8a. k \notin Gone
  BY DEF Gone
<1>9. KeysMatch'
  BY <1>1, <1>3, <1>5, <1>6, <1>8, <1>8a
     DEF IInv, KeysMatch, Pushed, Owned, Sound, ConnectionMapAssumption
<1>10. CallFits' /\ SearchAhead'
  BY <1>3 DEF CallFits, SearchAhead, Searches
<1>11. ListsWhole'
  <2> SUFFICES ASSUME NEW c \in Buckets, Sound(c)
               PROVE  \E m \in Nat : \E p : IsList(c, m, p)'
    BY <1>8 DEF ListsWhole, Sound
  <2>0. PICK m \in Nat : \E p : IsList(c, m, p)
    BY DEF IInv, ListsWhole
  <2>1. PICK p : IsList(c, m, p)
    BY <2>0
  <2>2. CASE c # b
    <3>1. IsList(c, m, p)'
      <4>1. /\ \A i \in 0 .. m - 1 : p[i] \in Owned /\ p[i] \in Chunks \ {n}
            /\ c \in Buckets \ {b}
        BY <1>5, <2>1, <2>2 DEF IsList, Owned
      <4>2. \A o \in Owned' : Bucket[node'[o].key] = c => o \in Owned /\ node'[o] = node[o]
        BY <1>5, <1>6, <2>2 DEF Pushed, Owned
      <4> QED
        BY <1>5, <1>6, <2>1, <4>1, <4>2 DEF IsList
    <3> QED
      BY <3>1
  <2>3. CASE c = b
    <3>0. PICK q : q = [i \in 0 .. m + 1 |-> IF i = 0 THEN n ELSE p[i - 1]]
      OBVIOUS
    <3>1. q \in [0 .. m + 1 -> Pointers] /\ q[0] = n /\ q[m + 1] = NULL
      BY <3>0, <2>1 DEF IsList, Pointers
    <3>2. ASSUME NEW i \in 0 .. m
          PROVE  /\ q[i] \in Owned' /\ q[i + 1] = node'[q[i]].next
                 /\ Bucket[node'[q[i]].key] = b
      <4>1. CASE i = 0
        BY <3>0, <4>1, <1>5, <1>6, <2>1, <2>3 DEF IsList, Pushed
      <4>2. CASE i # 0
        <5>1. i - 1 \in 0 .. m - 1 /\ q[i] = p[i - 1] /\ q[i + 1] = p[i]
          BY <3>0, <4>2
        <5>2. p[i - 1] \in Owned /\ p[i] = node[p[i - 1]].next
              /\ Bucket[node[p[i - 1]].key] = b
          BY <5>1, <2>1, <2>3 DEF IsList
        <5> QED
          BY <5>1, <5>2, <1>5, <1>6 DEF Owned
      <4> QED
        BY <4>1, <4>2
    <3>3. ASSUME NEW o \in Owned', Bucket[node'[o].key] = b
          PROVE  \E i \in 0 .. m : q[i] = o
      <4>1. CASE o = n
        BY <4>1, <3>1
      <4>2. CASE o # n
        <5>1. PICK i \in 0 .. m - 1 : p[i] = o
          BY <4>2, <3>3, <1>5, <1>6, <2>1, <2>3 DEF IsList, Owned
        <5>2. i + 1 \in 0 .. m /\ q[i + 1] = o
          BY <3>0, <5>1
        <5> QED
          BY <5>2
      <4> QED
        BY <4>1, <4>2
    <3>4. IsList(c, m + 1, q)'
      BY <3>1, <3>2, <3>3, <1>6, <2>3 DEF IsList
    <3>5. m + 1 \in Nat
      OBVIOUS
    <3> QED
      BY <3>4, <3>5
  <2> QED
    BY <2>2, <2>3
<1> QED
  BY <1>7, <1>9, <1>10, <1>11 DEF IInv

\* The freed node is in no list but that of the bucket its client has left;
\* a removal that finds nothing leaves all lists alone.
LEMMA RemovedIInv ==
  ASSUME ConnectionMapAssumption, IInv, Removed
  PROVE  IInv'
<1> DEFINE k == call.key
<1>2. /\ table' = table /\ live' = live \ {k} /\ used' = used
      /\ pc' = "idle" /\ call' = NoCall /\ cur' = NULL
  BY DEF Removed, Return
<1>3. k \in live /\ k \in used /\ k \in Keys
  BY DEF Removed, Stops, IInv, CallFits, TypeOK
<1>4. /\ Owned' = Owned \ (IF Matches THEN {cur} ELSE {})
      /\ Matches => cur \in Owned /\ node[cur].key = k /\ node'[cur].key = NoKey
      /\ \A o \in Owned' : node'[o] = node[o]
      /\ \A o \in Chunks \ Owned : node'[o] = node[o]
      /\ owner' \in [Chunks -> {"free", "map", "other"}] /\ node' \in [Chunks -> Nodes]
  <2>1. CASE Matches
    <3>1. cur \in Owned /\ node[cur].key = k
      BY <2>1, MatchIsNode DEF Removed
    <3>2. /\ owner' = [owner EXCEPT ![cur] = "free"]
          /\ node' = [node EXCEPT ![cur] = Freed(cur)]
      BY <2>1 DEF Removed
    <3>3. Owned' = Owned \ {cur}
      BY <3>1, <3>2 DEF Owned, IInv, TypeOK
    <3>4. Freed(cur) \in Nodes /\ Freed(cur).key = NoKey
      BY <3>1 DEF Freed, Nodes, IInv, TypeOK, Owned
    <3>5. /\ node'[cur].key = NoKey /\ \A o \in Chunks \ {cur} : node'[o] = node[o]
          /\ owner' \in [Chunks -> {"free", "map", "other"}] /\ node' \in [Chunks -> Nodes]
      BY <3>1, <3>2, <3>4 DEF IInv, TypeOK, Owned
    <3> QED
      BY <2>1, <3>1, <3>3, <3>5 DEF Owned
  <2>2. CASE ~Matches
    BY <2>2 DEF Removed, Owned, IInv, TypeOK
  <2> QED
    BY <2>1, <2>2
<1>6. TypeOK'
  <2>2. \A o \in Owned' : node'[o].key \in Keys /\ node'[o].conn \in Conns
    BY <1>4 DEF IInv, TypeOK
  <2> QED
    BY <1>2, <1>4, <2>2 DEF IInv, TypeOK, NoCall, Pointers
<1>7. Gone' = Gone \cup {k} /\ Left' = Left \cup {Bucket[k]}
  BY LeftGrows
<1>8. KeysMatch'
  <2>1. \A n \in Chunks : node'[n].key # NoKey => n \in Owned'
    BY <1>4 DEF IInv, KeysMatch, Owned
  <2>2. \A n \in Owned' : node'[n].key \in live' \cup Gone'
    BY <1>2, <1>4, <1>7 DEF IInv, KeysMatch
  <2>3. \A n, o \in Owned' : node'[n].key = node'[o].key => n = o
    BY <1>4 DEF IInv, KeysMatch
  <2>4. \A j \in live' : Sound(Bucket[j])' => \E n \in Owned' : node'[n].key = j
    <3> SUFFICES ASSUME NEW j \in live, j # k, Sound(Bucket[j])
                 PROVE  \E n \in Owned' : node'[n].key = j
      BY <1>2, <1>7 DEF Sound
    <3>1. PICK n \in Owned : node[n].key = j
      BY DEF IInv, KeysMatch
    <3> QED
      BY <3>1, <1>4
  <2> QED
    BY <2>1, <2>2, <2>3, <2>4 DEF KeysMatch
<1>9. CallFits' /\ SearchAhead'
  BY <1>2 DEF CallFits, SearchAhead, Searches
<1>10. ListsWhole'
  <2> SUFFICES ASSUME NEW c \in Buckets, Sound(c), Bucket[k] # c
               PROVE  \E m \in Nat : \E p : IsList(c, m, p)'
    BY <1>7 DEF ListsWhole, Sound
  <2>0. PICK m \in Nat : \E p : IsList(c, m, p)
    BY DEF IInv, ListsWhole
  <2>1. PICK p : IsList(c, m, p)
    BY <2>0
  <2>2. \A i \in 0 .. m - 1 : Matches => p[i] # cur
    BY <1>4, <2>1 DEF IsList
  <2>3. IsList(c, m, p)'
    BY <1>2, <1>4, <2>1, <2>2 DEF IsList
  <2> QED
    BY <2>3
<1> QED
  BY <1>6, <1>8, <1>9, <1>10 DEF IInv

\* What others do to a chunk concerns no list.
LEMMA OthersIInv ==
  ASSUME ConnectionMapAssumption, IInv, NEW n \in Chunks,
         TakenByOthers(n) \/ GivenBack(n)
  PROVE  IInv'
<1>1. /\ pc = "idle"
      /\ owner' \in [Chunks -> {"free", "map", "other"}] /\ Owned' = Owned /\ n \notin Owned
      /\ table' = table /\ live' = live /\ used' = used /\ pc' = pc /\ call' = call
      /\ cur' = cur
  BY DEF TakenByOthers, GivenBack, IInv, TypeOK, Owned
<1>2. /\ node' \in [Chunks -> Nodes]
      /\ \A o \in Chunks \ {n} : node'[o] = node[o]
      /\ node'[n].key = node[n].key /\ node'[n].conn = node[n].conn
  BY DEF TakenByOthers, GivenBack, IInv, TypeOK, Nodes, Pointers, ConnectionMapAssumption
<1>3. TypeOK'
  BY <1>1, <1>2 DEF IInv, TypeOK, Owned
<1>4. Gone' = Gone /\ Left' = Left
  BY <1>1 DEF Gone, Left
<1>5. KeysMatch' /\ CallFits' /\ SearchAhead'
  BY <1>1, <1>2, <1>4 DEF IInv, KeysMatch, CallFits, SearchAhead, Searches, Owned, Sound
<1>6. \A b, m, p : IsList(b, m, p)' <=> IsList(b, m, p)
  BY <1>1, <1>2 DEF IsList, Owned
<1>7. ListsWhole'
  BY <1>1, <1>4, <1>6 DEF IInv, ListsWhole, Sound
<1> QED
  BY <1>3, <1>5, <1>7 DEF IInv

\* Every step, and none, keeps the invariant.
LEMMA NextIInv ==
  ASSUME ConnectionMapAssumption, IInv, [Next]_vars
  PROVE  IInv'
<1>1. ASSUME NEW k \in Keys,
             \/ connection_map_get(k) \/ connection_map_remove(k)
             \/ \E c \in Conns : connection_map_insert(k, c)
      PROVE  IInv'
  BY <1>1, CallsBegin
<1>2. CASE Step
  BY <1>2, FollowIInv, FoundIInv, InsertedIInv, RemovedIInv DEF Step
<1>3. ASSUME NEW n \in Chunks, TakenByOthers(n) \/ GivenBack(n)
      PROVE  IInv'
  BY <1>3, OthersIInv
<1>4. CASE UNCHANGED vars
  <2> USE <1>4 DEF vars, heap, IInv
  <2>1. Owned' = Owned /\ Gone' = Gone /\ Left' = Left
    BY DEF Owned, Gone, Left
  <2>2. TypeOK' /\ KeysMatch' /\ CallFits'
    BY <2>1 DEF TypeOK, KeysMatch, CallFits, Sound
  <2>3. \A b, m, p : IsList(b, m, p)' <=> IsList(b, m, p)
    BY <2>1 DEF IsList
  <2>4. ListsWhole' /\ SearchAhead'
    BY <2>1, <2>3 DEF ListsWhole, Sound, SearchAhead, Searches
  <2> QED
    BY <2>2, <2>4
<1> QED
  BY <1>1, <1>2, <1>3, <1>4 DEF Next

-----------------------------------------------------------------------------
\* The inductive invariant holds: a bucket nobody has left is a list that ends
\* and has all its nodes, whatever becomes of the others, and a search in it has
\* its node before it.
THEOREM Invariance ==
  ASSUME ConnectionMapAssumption
  PROVE  Spec => []IInv
<1>1. Init => IInv
  BY InitIInv
<1>2. IInv /\ [Next]_vars => IInv'
  BY NextIInv
<1> QED
  BY <1>1, <1>2, PTL DEF Spec

\* Every variable keeps its type, and every node of the map has its key and
\* its connection.
THEOREM TypeCorrect ==
  ASSUME ConnectionMapAssumption
  PROVE  Spec => []TypeOK
<1>1. IInv => TypeOK
  BY DEF IInv
<1> QED
  BY <1>1, Invariance, PTL

\* The abstract map is in the nodes the map owns and nowhere else.
LEMMA EntriesFollowOwned ==
  ASSUME Owned' = Owned, \A n \in Owned : node'[n] = node[n]
  PROVE  Entries' = Entries
  BY DEF Entries

\* An empty table is the empty map.
LEMMA InitRefines ==
  ASSUME Init
  PROVE  A!Init
  BY DEF Init, A!Init, Entries, Owned, Left, Gone

\* A step of the memory is a step of the abstract map, or none.
LEMMA StepRefines ==
  ASSUME ConnectionMapAssumption, IInv, [Next]_vars
  PROVE  [A!Next]_A!vars
<1> DEFINE k == call.key
           c == node[cur].conn
<1>1. ASSUME Left' = Left, Entries' = Entries, last' = last
      PROVE  UNCHANGED A!vars
  BY <1>1 DEF A!vars
<1>2. ASSUME Stops, Matches
      PROVE  /\ [key |-> k, conn |-> c] \in Entries
             /\ k \in Keys /\ c \in Conns /\ cur \in Owned /\ node[cur].key = k
  BY <1>2, MatchIsNode DEF Entries, IInv, TypeOK, Stops
<1>3. ASSUME Stops, call.op \in {"find", "remove"}, ~Matches
      PROVE  k \in Keys /\ Bucket[k] \in Left
  BY <1>3, SearchFinds DEF Searches, Sound, Stops, IInv, TypeOK
<1>4. CASE \/ UNCHANGED vars \/ Follow
           \/ \E j \in Keys : \/ connection_map_get(j) \/ connection_map_remove(j)
                             \/ \E d \in Conns : connection_map_insert(j, d)
  <2>1. UNCHANGED <<heap, last>> /\ ~Removed
    BY <1>4 DEF vars, Follow, connection_map_get, connection_map_remove, connection_map_insert,
                Begin, Removed, Return, Stops, IInv, CallFits, NoCall
  <2> QED
    BY <2>1, <1>1, LeftStays DEF Entries, Owned, heap
<1>5. CASE \E n \in Chunks : TakenByOthers(n) \/ GivenBack(n)
  <2>1. PICK n \in Chunks : TakenByOthers(n) \/ GivenBack(n)
    BY <1>5
  <2>2. Owned' = Owned /\ n \notin Owned /\ last' = last /\ ~Removed
    BY <2>1 DEF TakenByOthers, GivenBack, Owned, IInv, TypeOK, Removed, Stops
  <2>3. \A o \in Owned : node'[o] = node[o]
    BY <2>1, <2>2 DEF TakenByOthers, GivenBack, Owned, IInv, TypeOK
  <2> QED
    BY <2>2, <2>3, <1>1, EntriesFollowOwned, LeftStays
<1>6. CASE Found
  <2>1. Entries' = Entries /\ Left' = Left
    BY <1>6, LeftStays DEF Found, Removed, heap, Entries, Owned, Next, Step
  <2>2. CASE Matches
    <3>1. last' = [op |-> "find", key |-> k, conn |-> c]
      BY <1>6, <2>2 DEF Found, Return
    <3> QED
      BY <1>2, <1>6, <2>1, <2>2, <3>1 DEF Found, A!Next, A!Find, A!Returns
  <2>3. CASE ~Matches
    <3>1. last' = [op |-> "find", key |-> k, conn |-> NoConn]
      BY <1>6, <2>3 DEF Found, Return
    <3> QED
      BY <1>3, <1>6, <2>1, <2>3, <3>1 DEF Found, A!Next, A!Miss, A!Returns
  <2> QED
    BY <2>2, <2>3
<1>7. CASE Inserted
  <2> DEFINE d == [key |-> k, conn |-> call.conn]
  <2>1. ~Matches /\ k \in Keys \ live /\ call.conn \in Conns
    BY <1>7, InsertIsNew DEF Inserted
  <2>2. PICK n \in Chunks : /\ owner[n] = "free"
                           /\ owner' = [owner EXCEPT ![n] = "map"]
                           /\ node' = [node EXCEPT ![n] = Pushed(n)]
    BY <1>7, <2>1 DEF Inserted
  <2>3. Owned' = Owned \cup {n} /\ n \notin Owned
    BY <2>2 DEF Owned, IInv, TypeOK
  <2>4. /\ node'[n].key = k /\ node'[n].conn = call.conn
        /\ \A o \in Owned : node'[o] = node[o]
    BY <2>2, <2>3 DEF Pushed, IInv, TypeOK, Owned
  <2>5. Entries' = Entries \cup {d}
    BY <2>3, <2>4 DEF Entries
  <2>6. \A x \in Entries : x.key # k
    BY <2>1 DEF Entries, IInv, KeysMatch, Gone
  <2>7. last' = [op |-> "insert", key |-> k, conn |-> call.conn]
    BY <1>7 DEF Inserted, Return
  <2>8. Left' = Left
    BY <1>7, LeftStays DEF Inserted, Removed, Next, Step
  <2> QED
    BY <2>1, <2>5, <2>6, <2>7, <2>8 DEF A!Next, A!Insert, A!Returns
<1>8. CASE Removed
  <2>1. Left' = Left \cup {Bucket[k]}
    BY <1>8, LeftGrows
  <2>2. CASE Matches
    <3>1. /\ owner' = [owner EXCEPT ![cur] = "free"]
          /\ node' = [node EXCEPT ![cur] = Freed(cur)]
          /\ last' = [op |-> "remove", key |-> k, conn |-> c]
      BY <1>8, <2>2 DEF Removed, Return
    <3>2. Stops /\ cur \in Owned
      BY <1>2, <1>8, <2>2 DEF Removed
    <3>3. Owned' = Owned \ {cur}
      BY <3>1, <3>2 DEF Owned, IInv, TypeOK
    <3>4. \A o \in Owned' : node'[o] = node[o]
      BY <3>1, <3>3 DEF IInv, TypeOK, Owned
    <3>5. \A o \in Owned' : node[o].key # k
      BY <1>2, <2>2, <3>2, <3>3 DEF IInv, KeysMatch
    <3>6. Entries' = Entries \ {[key |-> k, conn |-> c]}
      BY <1>2, <2>2, <3>2, <3>3, <3>4, <3>5 DEF Entries
    <3> QED
      BY <1>2, <2>1, <2>2, <3>1, <3>2, <3>6 DEF A!Next, A!Remove, A!Returns
  <2>3. CASE ~Matches
    <3>1. last' = [op |-> "remove", key |-> k, conn |-> NoConn] /\ Entries' = Entries
      BY <1>8, <2>3 DEF Removed, Return, Entries, Owned
    <3>2. Stops /\ call.op \in {"find", "remove"}
      BY <1>8 DEF Removed
    <3>3. k \in Keys /\ Bucket[k] \in Left
      BY <1>3, <2>3, <3>2
    <3>4. Left' = Left
      BY <2>1, <3>3
    <3> QED
      BY <3>1, <3>3, <3>4 DEF A!Next, A!Miss, A!Returns
  <2> QED
    BY <2>2, <2>3
<1> QED
  BY <1>4, <1>5, <1>6, <1>7, <1>8 DEF Next, Step
\* The map in memory is an abstract map: whatever memory the nodes are given, a
\* call in a bucket nobody has left answers as the map would, and one in another
\* bucket does so or finds nothing.
THEOREM MapImplements ==
  ASSUME ConnectionMapAssumption
  PROVE  Spec => Implements
<1>1. Init => A!Init
  BY InitRefines
<1>2. IInv /\ [Next]_vars => [A!Next]_A!vars
  BY StepRefines
<1> QED
  BY <1>1, <1>2, Invariance, PTL DEF Spec, Implements, A!Spec
=============================================================================
