--------------------------- MODULE SessionProofs ---------------------------
(***************************************************************************)
(* Framing, authorisation and answers of Session, for every set of         *)
(* programs and other peers, every version, length of a body and number of *)
(* messages, however the messages are cut and whoever dies.                *)
(***************************************************************************)
EXTENDS Session, SequenceTheorems, TLAPS

USE DEF sentVars

Begins(s, t) ==
  Len(s) <= Len(t) /\ \A k \in 1 .. Len(s) : s[k] = t[k]

Executing(c) == pc = "execute" /\ cur = c
Serves(c) == Up /\ state[c] # "dropped"
Greeted(c) == state[c] \in {"INITIALIZED", "REQUEST"}

\* What the server has of a connection fits its state: nothing more of a
\* message is on its way once it is executed or answered.
Reading(c) ==
  /\ state[c] \in {"none", "lost"} => header[c] = <<>>
  /\ state[c] = "REQUEST" =>
       header[c] = <<DB_ACCESS_REQUEST, buf_size[c]>> /\ buf_size[c] > 0
  /\ pc = "body" /\ cur = c => state[c] = "REQUEST"
  /\ Executing(c) => state[c] = "REQUEST" /\ buf_read[c] = buf_size[c]
  /\ Executing(c) \/ Responding(c) => chan[c] = <<>> /\ out[c] = <<>>
  /\ Responding(c) =>
       /\ reply # <<>>
       /\ \/ state[c] = "UNINITIALIZED" /\ Len(header[c]) \in {0, 2}
          \/ state[c] = "INITIALIZED" /\ header[c] = <<>>
          \/ state[c] = "REQUEST" /\ buf_read[c] = buf_size[c]

\* What is in flight is the last message, whole as long as the connection is
\* open and cut short by the client's end.
Framed(c) ==
  /\ Serves(c) => Begins(InFlight(c), msg[c])
  /\ Serves(c) /\ closed[c] = "no" => Whole(c)
  /\ closed[c] # "no" => out[c] = <<>>

\* It is a message the server's state expects.
Expected(c) ==
  IF Greeted(c)
  THEN /\ msg[c] \in {Request(n) : n \in 0 .. MaxBody} \cup {<<HANDSHAKE_REQUEST, 0>>}
       /\ c \in Programs => msg[c] = Request(body[c])
  ELSE /\ Len(msg[c]) = 2
       /\ c \in Programs => msg[c] = Handshake(version[c])
Formed(c) == Serves(c) /\ InFlight(c) # <<>> => Expected(c)

\* A client that has not begun has left no trace; one that is being answered
\* waits, and has not been answered yet.
ClientSide(c) ==
  /\ client[c] = "start" =>
       /\ {msg[c], out[c], chan[c], back[c]} = {<<>>}
       /\ asked[c] = 0 /\ executed[c] = 0 /\ state[c] = "none"
  /\ closed[c] # "no" \/ result[c] = "ok" => client[c] = "done"
  /\ client[c] = "handshake" => c \in Programs
  /\ client[c] = "idle" => c \in Others /\ back[c] = <<>>
  /\ Responding(c) /\ closed[c] = "no" =>
       client[c] \in {"handshake", "answer"} /\ back[c] = <<>>

\* A program is told that its version matches only when it is greeted, and
\* that its request was carried out only when it was.
Told(p) ==
  /\ client[p] = "handshake" =>
       /\ asked[p] = 0 /\ msg[p] = Handshake(version[p])
       /\ Answer(p) \in {<<>>, <<HANDSHAKE_RESPONSE, 0>>, <<HANDSHAKE_RESPONSE, 1>>}
       /\ Answer(p) = <<HANDSHAKE_RESPONSE, 0>> => state[p] = "INITIALIZED"
  /\ client[p] = "answer" =>
       /\ asked[p] <= 1 /\ (body[p] = 0 => asked[p] = 0)
       /\ Len(Answer(p)) >= 3 /\ Answer(p)[2] = 0 => Done(p)
  /\ Greeted(p) \/ executed[p] > 0 => version[p] = ServerVersion
  /\ Up /\ result[p] = "ok" => closed[p] # "no" /\ Done(p)
  /\ Serves(p) /\ result[p] = "ok" => InFlight(p) = <<>>

\* A request that was asked for is in flight for each execution to come.
Counted(c) ==
  /\ state[c] \in {"none", "lost", "UNINITIALIZED"} => executed[c] = 0
  /\ executed[c] <= asked[c]
  /\ Greeted(c) \/ msg[c] = Handshake(ServerVersion) => c \in offered
  /\ Greeted(c) /\ Up /\ InFlight(c) # <<>> /\ ~Responding(c) /\ Asks(msg[c]) =>
       executed[c] < asked[c]

Inv(c) ==
  /\ Reading(c) /\ Framed(c) /\ Formed(c) /\ ClientSide(c) /\ Counted(c)
  /\ c \in Programs => Told(c)

IInv == TypeOK /\ \A c \in Clients : Inv(c)

-----------------------------------------------------------------------------
(* Cutting sequences. *)

LEMMA CatAssociates ==
  \A a, b, c \in Seq(Nat) : (a \o b) \o c = a \o (b \o c)
  OBVIOUS

\* A piece that moves from the front of what follows to what precedes.
LEMMA Moved ==
  ASSUME NEW a \in Seq(Nat), NEW s \in Seq(Nat), NEW n \in 0 .. Len(s)
  PROVE  /\ SubSeq(s, 1, n) \in Seq(Nat) /\ SubSeq(s, n + 1, Len(s)) \in Seq(Nat)
         /\ Len(SubSeq(s, 1, n)) = n /\ Len(SubSeq(s, n + 1, Len(s))) = Len(s) - n
         /\ (a \o SubSeq(s, 1, n)) \o SubSeq(s, n + 1, Len(s)) = a \o s
<1> DEFINE f == SubSeq(s, 1, n)
           g == SubSeq(s, n + 1, Len(s))
<1>1. f \in Seq(Nat) /\ g \in Seq(Nat) /\ Len(f) = n /\ Len(g) = Len(s) - n
  BY SMT
<1>2. 1 \in 1 .. Len(s) + 1 /\ n \in 1 - 1 .. Len(s) /\ Len(s) \in n .. Len(s)
  BY SMT
<1>3. f \o g = SubSeq(s, 1, Len(s))
  BY ONLY <1>2, ConcatAdjacentSubSeq, s \in Seq(Nat), Zenon
<1>4. f \o g = s
  BY <1>3, SubSeqFull
<1> HIDE DEF f, g
<1>5. (a \o f) \o g = a \o (f \o g)
  BY <1>1, CatAssociates, Zenon
<1>6. (a \o f) \o g = a \o s
  BY <1>4, <1>5, Zenon
<1> USE DEF f, g
<1> QED
  BY <1>1, <1>6, Zenon

\* w is three sequences one behind the other.
Joined(a, b, c, w) ==
  /\ w \in Seq(Nat) /\ Len(w) = Len(a) + Len(b) + Len(c)
  /\ \A k \in 1 .. Len(a) : w[k] = a[k]
  /\ \A k \in 1 .. Len(b) : w[Len(a) + k] = b[k]
  /\ w = <<>> <=> a = <<>> /\ b = <<>> /\ c = <<>>
  /\ w = a \o (b \o c)

LEMMA Parts ==
  \A a, b, c \in Seq(Nat) : Joined(a, b, c, a \o b \o c)
<1> SUFFICES ASSUME NEW a \in Seq(Nat), NEW b \in Seq(Nat), NEW c \in Seq(Nat)
             PROVE  Joined(a, b, c, a \o b \o c)
  OBVIOUS
<1>1. a \o b \in Seq(Nat) /\ Len(a \o b) = Len(a) + Len(b)
  OBVIOUS
<1>2. a \o b \o c \in Seq(Nat) /\ Len(a \o b \o c) = Len(a) + Len(b) + Len(c)
  BY <1>1
<1>3. \A k \in 1 .. Len(a) + Len(b) : (a \o b \o c)[k] = (a \o b)[k]
  BY <1>1
<1>4. \A k \in 1 .. Len(a) : (a \o b)[k] = a[k]
  OBVIOUS
<1>5. \A k \in 1 .. Len(b) : (a \o b)[Len(a) + k] = b[k]
  OBVIOUS
<1>6. a \o b \o c = <<>> <=> a = <<>> /\ b = <<>> /\ c = <<>>
  BY <1>1, ConcatEqualIffEmpty
<1>7. a \o b \o c = a \o (b \o c)
  BY CatAssociates
<1>8. \A k \in 1 .. Len(a) : (a \o b \o c)[k] = a[k]
  BY <1>3, <1>4
<1>9. \A k \in 1 .. Len(b) : (a \o b \o c)[Len(a) + k] = b[k]
  BY <1>3, <1>5
<1> QED
  BY <1>2, <1>6, <1>7, <1>8, <1>9, Zenon DEF Joined

LEMMA EmptyCat ==
  \A a \in Seq(Nat) : a \o <<>> = a /\ <<>> \o a = a
  OBVIOUS

\* What a sequence loses at its end.
LEMMA Shortened ==
  ASSUME NEW a \in Seq(Nat), NEW b \in Seq(Nat)
  PROVE  /\ a \o b \in Seq(Nat)
         /\ a \o b = <<>> <=> a = <<>> /\ b = <<>>
         /\ \A t \in Seq(Nat) : Begins(a \o b, t) => Begins(a, t)
<1>1. a \o b \in Seq(Nat) /\ Len(a \o b) = Len(a) + Len(b)
  OBVIOUS
<1>2. \A k \in 1 .. Len(a) : (a \o b)[k] = a[k]
  OBVIOUS
<1> DEFINE w == a \o b
<1> HIDE DEF w
<1>3. ASSUME NEW t \in Seq(Nat), Begins(w, t) PROVE Begins(a, t)
  <2>1. Len(w) = Len(a) + Len(b) /\ \A k \in 1 .. Len(a) : w[k] = a[k]
    BY <1>1, <1>2, Zenon DEF w
  <2>2. Len(w) <= Len(t) /\ \A k \in 1 .. Len(w) : w[k] = t[k]
    BY <1>3, Zenon DEF Begins
  <2>3. \A l, m, n \in Nat : l + m <= n => l <= n /\ 1 .. l \subseteq 1 .. l + m
    OBVIOUS
  <2>4. Len(a) \in Nat /\ Len(b) \in Nat /\ Len(t) \in Nat
    OBVIOUS
  <2>5. Len(a) <= Len(t) /\ 1 .. Len(a) \subseteq 1 .. Len(w)
    <3>1. Len(a) + Len(b) <= Len(t)
      BY <2>1, <2>2, Zenon
    <3>2. Len(a) <= Len(t) /\ 1 .. Len(a) \subseteq 1 .. Len(a) + Len(b)
      BY <2>3, <2>4, <3>1, Zenon
    <3> QED
      BY <2>1, <3>2, Zenon
  <2>6. \A k \in 1 .. Len(a) : a[k] = t[k]
    BY <2>1, <2>2, <2>5, Zenon
  <2> QED
    BY <2>5, <2>6, Zenon DEF Begins
<1>4. w = <<>> <=> a = <<>> /\ b = <<>>
  BY ConcatEqualIffEmpty DEF w
<1> QED
  BY <1>1, <1>3, <1>4 DEF w

\* Bodies grow by pieces of bodies.
LEMMA BodyGrows ==
  ASSUME NEW r \in Nat, NEW s \in Seq(Nat), \A k \in 1 .. Len(s) : s[k] = 7
  PROVE  /\ Body(r) \in Seq(Nat) /\ Len(Body(r)) = r
         /\ Body(r) \o s = Body(r + Len(s))
<1>1. /\ Body(r) \in Seq(Nat) /\ Len(Body(r)) = r
      /\ Body(r + Len(s)) \in Seq(Nat) /\ Len(Body(r + Len(s))) = r + Len(s)
  BY DEF Body
<1>2. Body(r) \o s \in Seq(Nat) /\ Len(Body(r) \o s) = r + Len(s)
  BY <1>1
<1>3. ASSUME NEW k \in 1 .. r + Len(s) PROVE (Body(r) \o s)[k] = Body(r + Len(s))[k]
  BY <1>1 DEF Body
<1> QED
  BY <1>1, <1>2, <1>3, SeqEqual

LEMMA MessageParts ==
  /\ Body(0) = <<>>
  /\ \A n \in Nat : /\ Request(n) \in Seq(Nat) /\ Len(Request(n)) = n + 2
                    /\ Request(n)[1] = DB_ACCESS_REQUEST /\ Request(n)[2] = n
                    /\ \A k \in 1 .. n : Request(n)[2 + k] = 7
                    /\ Handshake(n) \in Seq(Nat) /\ Len(Handshake(n)) = 2
                    /\ Handshake(n)[1] = HANDSHAKE_REQUEST /\ Handshake(n)[2] = n
<1>1. Body(0) = <<>>
  BY DEF Body
<1>2. ASSUME NEW n \in Nat
      PROVE  /\ Request(n) \in Seq(Nat) /\ Len(Request(n)) = n + 2
             /\ Request(n)[1] = DB_ACCESS_REQUEST /\ Request(n)[2] = n
             /\ \A k \in 1 .. n : Request(n)[2 + k] = 7
  <2>1. Body(n) \in Seq(Nat) /\ Len(Body(n)) = n /\ \A k \in 1 .. n : Body(n)[k] = 7
    BY DEF Body
  <2>2. <<DB_ACCESS_REQUEST, n>> \in Seq(Nat) /\ Len(<<DB_ACCESS_REQUEST, n>>) = 2
    BY DEF DB_ACCESS_REQUEST
  <2> HIDE DEF Body
  <2> QED
    BY <2>1, <2>2 DEF Request
<1>3. ASSUME NEW n \in Nat
      PROVE  /\ Handshake(n) \in Seq(Nat) /\ Len(Handshake(n)) = 2
             /\ Handshake(n)[1] = HANDSHAKE_REQUEST /\ Handshake(n)[2] = n
  BY DEF Handshake, HANDSHAKE_REQUEST
<1> QED
  BY <1>1, <1>2, <1>3

-----------------------------------------------------------------------------
LEMMA Types ==
  ASSUME TypeOK, NEW c \in Clients
  PROVE  /\ msg[c] \in Seq(Nat) /\ out[c] \in Seq(Nat) /\ chan[c] \in Seq(Nat)
         /\ back[c] \in Seq(Nat) /\ header[c] \in Seq(Nat)
         /\ buf_read[c] \in Nat /\ buf_size[c] \in Nat /\ buf_read[c] <= buf_size[c]
         /\ Len(header[c]) <= 2
         /\ Body(buf_read[c]) \in Seq(Nat)
<1>1. /\ msg[c] \in Seq(Nat) /\ out[c] \in Seq(Nat) /\ chan[c] \in Seq(Nat)
      /\ back[c] \in Seq(Nat) /\ header[c] \in Seq(Nat)
  BY DEF TypeOK, Channels, Units
<1>2. buf_read[c] \in 0 .. MaxBody /\ buf_size[c] \in 0 .. MaxBody
  BY DEF TypeOK
<1>3. buf_read[c] \in Nat /\ buf_size[c] \in Nat
  BY <1>2, SessionAssumption DEF SessionAssumption
<1>4. Len(header[c]) <= 2 /\ buf_read[c] <= buf_size[c]
  BY DEF TypeOK
<1>5. Body(buf_read[c]) \in Seq(Nat)
  BY <1>3 DEF Body
<1> QED
  BY <1>1, <1>3, <1>4, <1>5

\* Nothing of client c changes.
Same(c) ==
  /\ client'[c] = client[c] /\ result'[c] = result[c] /\ closed'[c] = closed[c]
  /\ msgs'[c] = msgs[c] /\ msg'[c] = msg[c]
  /\ (c \in offered') = (c \in offered) /\ asked'[c] = asked[c]
  /\ out'[c] = out[c] /\ chan'[c] = chan[c] /\ back'[c] = back[c]
  /\ state'[c] = state[c] /\ header'[c] = header[c]
  /\ buf_size'[c] = buf_size[c] /\ buf_read'[c] = buf_read[c]
  /\ executed'[c] = executed[c]
  /\ version' = version /\ body' = body

Busy(c) == cur = c /\ pc \in {"body", "execute", "respond"}

\* A step that leaves a client alone, and the server's business with it,
\* leaves its invariant alone; so does the end of the server.
LEMMA Untouched ==
  ASSUME NEW c \in Clients, Inv(c), Same(c),
         \/ UNCHANGED <<pc, cur, reply>>
         \/ ~Busy(c) /\ ~Busy(c)' /\ Up /\ Up'
         \/ ~Up'
  PROVE  Inv(c)'
<1>1. CASE UNCHANGED <<pc, cur, reply>> \/ (~Busy(c) /\ ~Busy(c)' /\ Up /\ Up')
  <2>1. /\ Up' = Up /\ Serves(c)' = Serves(c) /\ Executing(c)' = Executing(c)
        /\ Responding(c)' = Responding(c) /\ Greeted(c)' = Greeted(c)
        /\ (pc' = "body" /\ cur' = c) = (pc = "body" /\ cur = c)
    BY <1>1 DEF Up, Serves, Executing, Responding, Greeted, Same, Busy
  <2>2. Responding(c) => reply' = reply
    BY <1>1 DEF Responding, Busy
  <2>3. InFlight(c)' = InFlight(c)
    BY <2>1 DEF InFlight, BeingRead, Refused, Same
  <2>4. Answer(c)' = Answer(c)
    BY <2>1, <2>2 DEF Answer, Same
  <2>5. Reading(c)'
    BY <2>1, <2>2 DEF Inv, Reading, Same
  <2>6. Whole(c)' = Whole(c)
    BY <2>1, <2>3, <2>4 DEF Whole, Same
  <2>7. Framed(c)'
    BY <2>1, <2>3, <2>6 DEF Inv, Framed, Same, Begins
  <2>8. Expected(c)' = Expected(c)
    BY <2>1 DEF Expected, Same
  <2>9. Formed(c)'
    BY <2>1, <2>3, <2>8 DEF Inv, Formed
  <2>10. ClientSide(c)'
    BY <2>1 DEF Inv, ClientSide, Same
  <2>11. Counted(c)'
    BY <2>1, <2>3 DEF Inv, Counted, Same
  <2>12. c \in Programs => Told(c)'
    BY <2>1, <2>3, <2>4 DEF Inv, Told, Done, Same
  <2> QED
    BY <2>5, <2>7, <2>9, <2>10, <2>11, <2>12 DEF Inv
<1>2. CASE ~Up'
  <2>1. /\ ~Serves(c)' /\ ~Executing(c)' /\ ~Responding(c)' /\ Greeted(c)' = Greeted(c)
        /\ ~(pc' = "body" /\ cur' = c)
    BY <1>2 DEF Up, Serves, Executing, Responding, Greeted, Same
  <2>2. client[c] \in {"handshake", "answer"} => Answer(c)' = <<>> \/ Answer(c)' = Answer(c)
    BY <2>1 DEF Answer, Same, Inv, ClientSide
  <2>3. Reading(c)'
    BY <2>1 DEF Inv, Reading, Same
  <2>4. Framed(c)' /\ Formed(c)'
    BY <2>1 DEF Inv, Framed, Formed, Same
  <2>5. ClientSide(c)'
    BY <2>1 DEF Inv, ClientSide, Same
  <2>6. Counted(c)'
    BY <1>2, <2>1 DEF Inv, Counted, Same
  <2>7. ASSUME c \in Programs PROVE Told(c)'
    <3>1. client[c] = "handshake" =>
            /\ Answer(c)' \in {<<>>, <<HANDSHAKE_RESPONSE, 0>>, <<HANDSHAKE_RESPONSE, 1>>}
            /\ Answer(c)' = <<HANDSHAKE_RESPONSE, 0>> => state[c] = "INITIALIZED"
      BY <2>2, <2>7 DEF Inv, Told, HANDSHAKE_RESPONSE
    <3>2. client[c] = "answer" => (Len(Answer(c)') >= 3 /\ Answer(c)'[2] = 0 => Done(c))
      BY <2>2, <2>7 DEF Inv, Told
    <3> QED
      BY <1>2, <2>1, <2>7, <3>1, <3>2 DEF Inv, Told, Done, Same
  <2> QED
    BY <2>3, <2>4, <2>5, <2>6, <2>7 DEF Inv
<1> QED
  BY <1>1, <1>2

-----------------------------------------------------------------------------
(* What is in flight. *)

LEMMA Flight ==
  ASSUME TypeOK, NEW c \in Clients
  PROVE  /\ BeingRead(c) \in Seq(Nat) /\ InFlight(c) \in Seq(Nat)
         /\ Len(InFlight(c)) = Len(BeingRead(c)) + Len(chan[c]) + Len(out[c])
         /\ InFlight(c) = <<>> <=> BeingRead(c) = <<>> /\ chan[c] = <<>> /\ out[c] = <<>>
         /\ InFlight(c) = BeingRead(c) \o (chan[c] \o out[c])
         /\ \A k \in 1 .. Len(BeingRead(c)) : InFlight(c)[k] = BeingRead(c)[k]
         /\ \A k \in 1 .. Len(chan[c]) : InFlight(c)[Len(BeingRead(c)) + k] = chan[c][k]
<1>1. /\ header[c] \in Seq(Nat) /\ chan[c] \in Seq(Nat) /\ out[c] \in Seq(Nat)
      /\ Body(buf_read[c]) \in Seq(Nat)
  BY Types
<1>2. header[c] \o Body(buf_read[c]) \in Seq(Nat)
  BY <1>1
<1>3. BeingRead(c) \in Seq(Nat)
  BY <1>1, <1>2 DEF BeingRead
<1> DEFINE r == BeingRead(c)
           i == chan[c]
           o == out[c]
<1>5. r \in Seq(Nat) /\ i \in Seq(Nat) /\ o \in Seq(Nat)
  BY <1>1, <1>3
<1> HIDE DEF r, i, o
<1>6. Joined(r, i, o, r \o i \o o)
  BY <1>5, Parts, Zenon
<1>7. Joined(BeingRead(c), chan[c], out[c], InFlight(c))
  BY <1>6, Zenon DEF r, i, o, InFlight
<1> QED
  BY <1>5, <1>7, Zenon DEF Joined, r

\* A connection whose request is being read has its header in flight.
LEMMA Awaited ==
  ASSUME TypeOK, NEW c \in Clients, Reading(c), state[c] = "REQUEST"
  PROVE  InFlight(c) # <<>>
<1>1. header[c] = <<DB_ACCESS_REQUEST, buf_size[c]>> /\ header[c] # <<>>
  BY DEF Reading
<1>2. header[c] \in Seq(Nat) /\ Body(buf_read[c]) \in Seq(Nat)
  BY Types
<1>3. header[c] \o Body(buf_read[c]) # <<>>
  BY <1>1, <1>2, ConcatEqualIffEmpty
<1> QED
  BY <1>3, Flight DEF BeingRead, Refused

-----------------------------------------------------------------------------
(* Steps of a client. *)

\* The client's end: what it had not put through is lost.
LEMMA Ended ==
  ASSUME IInv, NEW c \in Clients,
         NEW r \in {"none", "ok", "refused", "failed", "killed"},
         Exit(c, r),
         \E b \in Seq(Nat) : back' = [back EXCEPT ![c] = b],
         UNCHANGED <<version, body, sentVars, chan, connVars, serverVars>>,
         Up /\ r = "ok" /\ c \in Programs =>
           Done(c) /\ (Serves(c) => InFlight(c) = <<>>),
         client[c] # "start"
  PROVE  IInv'
<1>0. /\ TypeOK /\ Reading(c) /\ Framed(c) /\ Formed(c) /\ ClientSide(c) /\ Counted(c)
      /\ c \in Programs => Told(c)
      /\ \A d \in Clients : Inv(d)
  BY DEF IInv, Inv
<1>1. PICK b \in Seq(Nat) : back' = [back EXCEPT ![c] = b]
  OBVIOUS
<1>2. TypeOK'
  <2>1. /\ client' \in [Clients -> {"start", "handshake", "answer", "idle", "done"}]
        /\ result' \in [Clients -> {"none", "ok", "refused", "failed", "killed"}]
        /\ closed' \in [Clients -> {"no", "fin", "rst", "broken"}]
    BY <1>0 DEF TypeOK, Exit
  <2>2. out' \in Channels /\ back' \in Channels
    <3>1. out \in [Clients -> Seq(Nat)] /\ back \in [Clients -> Seq(Nat)]
      BY <1>0 DEF TypeOK, Channels, Units
    <3>2. <<>> \in Seq(Nat)
      OBVIOUS
    <3>3. out' \in [Clients -> Seq(Nat)] /\ back' \in [Clients -> Seq(Nat)]
      BY <1>1, <3>1, <3>2 DEF Exit
    <3> QED
      BY <3>3 DEF Channels, Units
  <2>3. UNCHANGED <<version, body, sentVars, chan, state, header, buf_size, buf_read,
                    executed, pc, cur, reply>>
    BY DEF connVars, serverVars
  <2> QED
    BY <1>0, <2>1, <2>2, <2>3 DEF TypeOK
<1>3. ASSUME NEW d \in Clients, d # c PROVE Inv(d)'
  <2>1. Same(d)
    BY <1>0, <1>1, <1>3 DEF Same, Exit, TypeOK, Channels, connVars, serverVars
  <2> QED
    BY <1>0, <2>1, Untouched DEF serverVars
<1>4. Inv(c)'
  <2>1. /\ client'[c] = "done" /\ result'[c] = r /\ out'[c] = <<>> /\ closed'[c] # "no"
        /\ UNCHANGED <<version, body, sentVars, chan, state, header, buf_size, buf_read,
                       executed, pc, cur, reply>>
    BY <1>0, <1>1 DEF Exit, TypeOK, Channels, connVars, serverVars
  <2>2. /\ Up' = Up /\ Serves(c)' = Serves(c) /\ Executing(c)' = Executing(c)
        /\ Responding(c)' = Responding(c) /\ Greeted(c)' = Greeted(c)
        /\ BeingRead(c)' = BeingRead(c) /\ Expected(c)' = Expected(c)
    BY <2>1 DEF Up, Serves, Executing, Responding, Greeted, BeingRead, Refused, Expected
  <2>3. Reading(c)'
    BY <1>0, <2>1, <2>2 DEF Reading
  <2>4. /\ InFlight(c)' \in Seq(Nat)
        /\ InFlight(c) = <<>> => InFlight(c)' = <<>>
        /\ Begins(InFlight(c), msg[c]) => Begins(InFlight(c)', msg[c])
    <3> DEFINE w == BeingRead(c) \o chan[c]
    <3>1. /\ BeingRead(c) \in Seq(Nat) /\ chan[c] \in Seq(Nat) /\ out[c] \in Seq(Nat)
          /\ msg[c] \in Seq(Nat)
      BY <1>0, Flight, Types
    <3>2. w \in Seq(Nat)
      BY <3>1, ConcatProperties, Zenon
    <3>3. InFlight(c) = w \o out[c] /\ InFlight(c)' = w \o <<>>
      BY <2>1, <2>2 DEF InFlight
    <3> HIDE DEF w
    <3>4. w \o <<>> = w
      BY <3>2, EmptyCat, Zenon
    <3>5. InFlight(c) = <<>> => w = <<>>
      <4>1. w \o out[c] = <<>> => w = <<>>
        BY <3>1, <3>2, Shortened, Zenon
      <4> QED
        BY <3>3, <4>1
    <3>6. Begins(InFlight(c), msg[c]) => Begins(w, msg[c])
      <4>1. \A t \in Seq(Nat) : Begins(w \o out[c], t) => Begins(w, t)
        BY <3>1, <3>2, Shortened, Zenon
      <4> QED
        BY <3>1, <3>3, <4>1
    <3> QED
      BY <3>2, <3>3, <3>4, <3>5, <3>6
  <2>5. Framed(c)'
    <3>1. Begins(InFlight(c), msg[c])' = Begins(InFlight(c)', msg[c])
      BY <2>1 DEF Begins
    <3> QED
      BY <1>0, <2>1, <2>2, <2>4, <3>1 DEF Framed
  <2>6. Formed(c)'
    BY <1>0, <2>2, <2>4 DEF Formed
  <2>7. ClientSide(c)'
    BY <1>0, <2>1, <2>2 DEF ClientSide
  <2>8. Counted(c)'
    BY <1>0, <2>1, <2>2, <2>4 DEF Counted
  <2>9. ASSUME c \in Programs PROVE Told(c)'
    <3>1. Done(c)' = Done(c)
      BY <2>1 DEF Done
    <3>2. client'[c] # "handshake" /\ client'[c] # "answer"
      BY <2>1
    <3>3. Greeted(c)' \/ executed'[c] > 0 => version'[c] = ServerVersion
      BY <1>0, <2>1, <2>2, <2>9 DEF Told
    <3>4. Up' /\ result'[c] = "ok" => closed'[c] # "no" /\ Done(c)'
      BY <2>1, <2>2, <2>9, <3>1
    <3>5. Serves(c)' /\ result'[c] = "ok" => InFlight(c)' = <<>>
      BY <2>1, <2>2, <2>4, <2>9 DEF Serves
    <3> QED
      BY <3>2, <3>3, <3>4, <3>5 DEF Told
  <2> QED
    BY <2>3, <2>5, <2>6, <2>7, <2>8, <2>9 DEF Inv
<1> QED
  BY <1>2, <1>3, <1>4 DEF IInv

\* What is in flight of a message just begun, when nothing else is.
LEMMA Alone ==
  ASSUME TypeOK, NEW c \in Clients, NEW m \in Seq(Nat), InFlight(c) = <<>>
  PROVE  BeingRead(c) \o chan[c] \o m = m
<1>1. BeingRead(c) = <<>> /\ chan[c] = <<>>
  BY Flight
<1>2. <<>> \o <<>> = <<>> /\ <<>> \o m = m
  BY EmptyCat
<1> QED
  BY <1>1, <1>2

\* A client begins a message once the last one is out of the way.
LEMMA Begun ==
  ASSUME IInv, NEW c \in Clients, NEW m \in Seq(Nat), m # <<>>,
         NEW next \in {"handshake", "answer"},
         Begin(c, m, next),
         back' \in [Clients -> Seq(Nat)],
         back'[c] = <<>>, \A d \in Clients : d # c => back'[d] = back[d],
         UNCHANGED <<version, body, result, closed, chan, connVars, serverVars>>,
         closed[c] = "no", client[c] # "done", ~Responding(c),
         Serves(c) => InFlight(c) = <<>>,
         Serves(c) =>
           IF Greeted(c)
           THEN /\ m \in {Request(n) : n \in 0 .. MaxBody} \cup {<<HANDSHAKE_REQUEST, 0>>}
                /\ c \in Programs => m = Request(body[c])
           ELSE /\ Len(m) = 2
                /\ c \in Programs => m = Handshake(version[c]),
         next = "handshake" => c \in Programs,
         c \in Programs => asked[c] = 0,
         c \in Programs /\ Asks(m) => next = "answer" /\ body[c] > 0,
         next = "handshake" => m = Handshake(version[c])
  PROVE  IInv'
<1>0. /\ TypeOK /\ Reading(c) /\ Framed(c) /\ Formed(c) /\ ClientSide(c) /\ Counted(c)
      /\ c \in Programs => Told(c)
      /\ \A d \in Clients : Inv(d)
  BY DEF IInv, Inv
<1>1. /\ msg \in [Clients -> Seq(Nat)] /\ out \in [Clients -> Seq(Nat)]
      /\ msgs \in [Clients -> Nat] /\ asked \in [Clients -> Nat]
      /\ offered \subseteq Clients
      /\ client \in [Clients -> {"start", "handshake", "answer", "idle", "done"}]
  BY <1>0 DEF TypeOK, Channels, Units
<1>2. UNCHANGED <<version, body, result, closed, chan, state, header, buf_size, buf_read,
                  executed, pc, cur, reply>>
  BY DEF connVars, serverVars
<1>3. TypeOK'
  <2>1. /\ msg' \in [Clients -> Seq(Nat)] /\ out' \in [Clients -> Seq(Nat)]
        /\ msgs' \in [Clients -> Nat]
        /\ client' \in [Clients -> {"start", "handshake", "answer", "idle", "done"}]
    <3>1. /\ out' = [out EXCEPT ![c] = m] /\ msg' = [msg EXCEPT ![c] = m]
          /\ msgs' = [msgs EXCEPT ![c] = @ + 1] /\ client' = [client EXCEPT ![c] = next]
      BY Zenon DEF Begin
    <3>2. \A f \in [Clients -> Seq(Nat)] : [f EXCEPT ![c] = m] \in [Clients -> Seq(Nat)]
      OBVIOUS
    <3>3. msg' \in [Clients -> Seq(Nat)] /\ out' \in [Clients -> Seq(Nat)]
      BY <1>1, <3>1, <3>2, Zenon
    <3>4. msgs' \in [Clients -> Nat]
      BY <1>1, <3>1
    <3>5. client' \in [Clients -> {"start", "handshake", "answer", "idle", "done"}]
      BY <1>1, <3>1
    <3> QED
      BY <3>3, <3>4, <3>5
  <2>2. {msg', out', chan', back', header'} \subseteq Channels
    <3>1. {chan, header} \subseteq [Clients -> Seq(Nat)]
      BY <1>0 DEF TypeOK, Channels, Units
    <3> QED
      BY <1>2, <2>1, <3>1 DEF Channels, Units
  <2>3. asked' \in [Clients -> Nat] /\ offered' \subseteq Clients
    BY <1>1 DEF Begin
  <2> QED
    BY <1>0, <1>2, <2>1, <2>2, <2>3 DEF TypeOK
<1>4. ASSUME NEW d \in Clients, d # c PROVE Inv(d)'
  <2>1. Same(d)
    BY <1>1, <1>2, <1>4 DEF Same, Begin
  <2> QED
    BY <1>0, <1>2, <2>1, Untouched
<1>5. Inv(c)'
  <2>1. /\ client'[c] = next /\ msg'[c] = m /\ out'[c] = m
        /\ asked[c] \in Nat /\ asked'[c] \in {asked[c], asked[c] + 1}
        /\ c \in offered /\ Asks(m) => asked'[c] = asked[c] + 1
        /\ ~Asks(m) => asked'[c] = asked[c]
        /\ c \in offered \/ m = Handshake(ServerVersion) => c \in offered'
    BY <1>1 DEF Begin
  <2>2. /\ Up' = Up /\ Serves(c)' = Serves(c) /\ Greeted(c)' = Greeted(c)
        /\ Executing(c)' = Executing(c) /\ ~Responding(c)'
        /\ BeingRead(c)' = BeingRead(c)
    BY <1>2 DEF Up, Serves, Executing, Responding, Greeted, BeingRead, Refused
  <2>3. ~Executing(c)
    <3>1. Executing(c) => Serves(c) /\ state[c] = "REQUEST"
      BY <1>0 DEF Executing, Serves, Up, Reading
    <3> QED
      BY <1>0, <3>1, Awaited
  <2>4. Reading(c)'
    BY <1>0, <1>2, <2>2, <2>3 DEF Reading
  <2>5. Serves(c) => InFlight(c)' = m
    BY <1>0, <1>2, <2>1, <2>2, Alone DEF InFlight
  <2>6. Answer(c)' = <<>>
    BY <2>2 DEF Answer
  <2>7. Framed(c)'
    <3>1. Begins(m, m)
      BY DEF Begins
    <3>2. Serves(c) => Begins(InFlight(c), msg[c])' /\ Whole(c)'
      BY <2>1, <2>5, <2>6, <3>1 DEF Whole, Begins
    <3> QED
      BY <1>2, <2>2, <3>2 DEF Framed
  <2>8. Formed(c)'
    BY <1>2, <2>1, <2>2 DEF Formed, Expected
  <2>9. ClientSide(c)'
    BY <1>0, <1>2, <2>1, <2>2 DEF ClientSide
  <2>10. Counted(c)'
    <3>1. Greeted(c) /\ Up => Serves(c)
      BY DEF Greeted, Serves
    <3>2. executed[c] \in Nat /\ executed'[c] = executed[c] /\ state'[c] = state[c]
      BY <1>0, <1>2 DEF TypeOK
    <3>3. executed[c] <= asked'[c]
      BY <1>0, <2>1, <3>2 DEF Counted
    <3>4. Greeted(c) /\ Asks(m) => executed[c] < asked'[c]
      BY <1>0, <2>1, <3>2 DEF Counted
    <3>5. Greeted(c)' \/ msg'[c] = Handshake(ServerVersion) => c \in offered'
      BY <1>0, <2>1, <2>2 DEF Counted
    <3>6. Asks(msg[c])' = Asks(m)
      BY <2>1 DEF Asks
    <3> QED
      BY <1>0, <2>2, <3>2, <3>3, <3>4, <3>5, <3>6 DEF Counted
  <2>11. ASSUME c \in Programs PROVE Told(c)'
    <3>1. result[c] # "ok"
      BY <1>0 DEF ClientSide
    <3>2. next = "handshake" => asked'[c] = 0 /\ msg'[c] = Handshake(version[c])
      BY <2>1, <2>11
    <3>3. asked'[c] <= 1 /\ (body[c] = 0 => asked'[c] = 0)
      BY <2>1, <2>11
    <3>4. Greeted(c)' \/ executed'[c] > 0 => version'[c] = ServerVersion
      BY <1>0, <1>2, <2>2, <2>11 DEF Told
    <3>5. Answer(c)' # <<HANDSHAKE_RESPONSE, 0>> /\ ~(Len(Answer(c)') >= 3)
      BY <2>6
    <3> QED
      BY <1>2, <2>1, <2>6, <3>1, <3>2, <3>3, <3>4, <3>5 DEF Told
  <2> QED
    BY <2>4, <2>7, <2>8, <2>9, <2>10, <2>11 DEF Inv
<1> QED
  BY <1>3, <1>4, <1>5 DEF IInv

\* A client that has an answer, or part of it, was asked nothing further.
LEMMA Answered ==
  ASSUME IInv, NEW c \in Clients, back[c] # <<>>, client[c] # "done"
  PROVE  /\ closed[c] = "no" /\ result[c] # "ok" /\ ~Responding(c) /\ Answer(c) = back[c]
         /\ Serves(c) => InFlight(c) = <<>>
<1>1. ClientSide(c) /\ Framed(c)
  BY DEF IInv, Inv
<1>2. closed[c] = "no" /\ result[c] # "ok" /\ ~Responding(c)
  BY <1>1 DEF ClientSide
<1>3. Answer(c) = back[c]
  BY <1>2 DEF Answer
<1> QED
  BY <1>1, <1>2, <1>3 DEF Framed, Whole

LEMMA ConnectStep ==
  ASSUME IInv, NEW c \in Programs, Connect(c)
  PROVE  IInv'
<1>0. TypeOK /\ Reading(c) /\ ClientSide(c) /\ c \in Clients
  BY DEF IInv, Inv, Clients
<1>1. /\ client[c] = "start" /\ msg[c] = <<>> /\ out[c] = <<>> /\ chan[c] = <<>>
      /\ back[c] = <<>> /\ asked[c] = 0 /\ state[c] = "none" /\ closed[c] = "no"
      /\ header[c] = <<>>
  BY <1>0 DEF Connect, ClientSide, Reading
<1>2. ~Responding(c) /\ ~Greeted(c)
  BY <1>0, <1>1 DEF Reading, Greeted
<1>3. InFlight(c) = <<>>
  BY <1>1, EmptyCat DEF InFlight, BeingRead, Refused
<1>4. version[c] \in Nat
  BY <1>0, SessionAssumption DEF TypeOK, SessionAssumption
<1>5. Handshake(version[c]) \in Seq(Nat) /\ Len(Handshake(version[c])) = 2
  BY <1>4, MessageParts
<1>6. Handshake(version[c]) # <<>>
  <2> DEFINE h == Handshake(version[c])
  <2>1. Len(h) = 2
    BY <1>5
  <2> HIDE DEF h
  <2>2. h # <<>>
    BY <2>1
  <2> QED
    BY <2>2 DEF h
<1>7. back \in [Clients -> Seq(Nat)]
  BY <1>0 DEF TypeOK, Channels, Units
<1>8. /\ Begin(c, Handshake(version[c]), "handshake") /\ UNCHANGED back
      /\ UNCHANGED <<version, body, result, closed, chan, connVars, serverVars>>
  BY DEF Connect
<1>9. ~Asks(Handshake(version[c]))
  <2>1. Handshake(version[c])[1] = HANDSHAKE_REQUEST
    BY <1>4, MessageParts
  <2> QED
    BY <2>1 DEF Asks, HANDSHAKE_REQUEST, DB_ACCESS_REQUEST
<1> QED
  BY <1>0, <1>1, <1>2, <1>3, <1>5, <1>6, <1>7, <1>8, <1>9, Begun

LEMMA receive_handshakeStep ==
  ASSUME IInv, NEW c \in Programs, receive_handshake(c)
  PROVE  IInv'
<1>0. /\ TypeOK /\ Reading(c) /\ ClientSide(c) /\ Framed(c) /\ Counted(c) /\ Told(c)
      /\ c \in Clients
  BY DEF IInv, Inv, Clients
<1>1. /\ client[c] = "handshake" /\ Len(back[c]) >= 2 /\ back[c] \in Seq(Nat)
      /\ back' = [back EXCEPT ![c] = SubSeq(back[c], 3, Len(back[c]))]
      /\ UNCHANGED <<version, body, chan, connVars, serverVars>>
  BY <1>0, Types DEF receive_handshake
<1>2. back[c] # <<>>
  BY <1>1
<1>3. /\ closed[c] = "no" /\ ~Responding(c) /\ Answer(c) = back[c]
      /\ Serves(c) => InFlight(c) = <<>>
  BY <1>0, <1>1, <1>2, Answered
<1>4. /\ back[c] \in {<<HANDSHAKE_RESPONSE, 0>>, <<HANDSHAKE_RESPONSE, 1>>}
      /\ back[c] = <<HANDSHAKE_RESPONSE, 0>> => state[c] = "INITIALIZED"
      /\ asked[c] = 0
  BY <1>0, <1>1, <1>2, <1>3 DEF Told
<1>5. Len(back[c]) = 2 /\ SubSeq(back[c], 3, Len(back[c])) = <<>>
  <2>1. Len(back[c]) = 2
    BY <1>4 DEF HANDSHAKE_RESPONSE
  <2> QED
    BY <1>1, <2>1
<1>6. back \in [Clients -> Seq(Nat)]
  BY <1>0 DEF TypeOK, Channels, Units
<1>7. /\ back' \in [Clients -> Seq(Nat)] /\ back'[c] = <<>>
      /\ \A d \in Clients : d # c => back'[d] = back[d]
  BY <1>0, <1>1, <1>5, <1>6
<1>8. CASE /\ back[c][1] = HANDSHAKE_RESPONSE /\ back[c][2] = 0
           /\ Begin(c, Request(body[c]), "answer")
           /\ UNCHANGED <<result, closed>>
  <2>1. back[c] = <<HANDSHAKE_RESPONSE, 0>>
    BY <1>4, <1>8
  <2>2. Greeted(c)
    BY <1>4, <2>1 DEF Greeted
  <2>3. body[c] \in 0 .. MaxBody /\ body[c] \in Nat
    BY <1>0, SessionAssumption DEF TypeOK, SessionAssumption
  <2>4. Request(body[c]) \in Seq(Nat) /\ Len(Request(body[c])) = body[c] + 2
    BY <2>3, MessageParts
  <2>5. Request(body[c]) # <<>>
    BY <2>3, <2>4
  <2>6. /\ Begin(c, Request(body[c]), "answer")
        /\ UNCHANGED <<version, body, result, closed, chan, connVars, serverVars>>
        /\ client[c] # "done"
    BY <1>1, <1>8
  <2>7. Request(body[c]) \in {Request(n) : n \in 0 .. MaxBody}
    BY <2>3
  <2>8. Asks(Request(body[c])) => body[c] > 0
    BY <2>3, MessageParts DEF Asks
  <2> QED
    BY <1>0, <1>3, <1>4, <1>7, <2>2, <2>4, <2>5, <2>6, <2>7, <2>8, Begun
<1>9. CASE Exit(c, "failed") /\ UNCHANGED sentVars
  <2>1. \E b \in Seq(Nat) : back' = [back EXCEPT ![c] = b]
    <3>1. <<>> \in Seq(Nat)
      OBVIOUS
    <3> QED
      BY <1>1, <1>5, <3>1
  <2>2. UNCHANGED <<version, body, sentVars, chan, connVars, serverVars>>
    BY <1>1, <1>9
  <2> QED
    BY <1>0, <1>1, <1>9, <2>1, <2>2, Ended
<1> QED
  BY <1>8, <1>9 DEF receive_handshake

LEMMA deserialize_responseStep ==
  ASSUME IInv, NEW c \in Programs, deserialize_response(c)
  PROVE  IInv'
<1>0. TypeOK /\ ClientSide(c) /\ Told(c) /\ c \in Clients
  BY DEF IInv, Inv, Clients
<1> DEFINE flag == back[c][2]
           rows == IF flag = 0 THEN back[c][3] ELSE 0
           r == IF flag = 0 THEN "ok" ELSE "refused"
<1>1. /\ client[c] = "answer" /\ Len(back[c]) >= 3 /\ back[c] \in Seq(Nat)
      /\ back' = [back EXCEPT ![c] = SubSeq(back[c], 4 + rows, Len(back[c]))]
      /\ Exit(c, r)
      /\ UNCHANGED <<version, body, sentVars, chan, connVars, serverVars>>
  BY <1>0, Types DEF deserialize_response
<1>2. back[c] # <<>>
  BY <1>1
<1>3. /\ Answer(c) = back[c]
      /\ Serves(c) => InFlight(c) = <<>>
  BY <1>0, <1>1, <1>2, Answered
<1>4. flag = 0 => Done(c)
  BY <1>0, <1>1, <1>3 DEF Told
<1>5. \E b \in Seq(Nat) : back' = [back EXCEPT ![c] = b]
  <2>1. rows \in Nat
    BY <1>1
  <2> HIDE DEF rows
  <2>2. SubSeq(back[c], 4 + rows, Len(back[c])) \in Seq(Nat)
    BY <1>1, <2>1
  <2> QED
    BY <1>1, <2>2
<1>6. r \in {"none", "ok", "refused", "failed", "killed"} /\ (r = "ok" => Done(c))
  BY <1>4
<1> HIDE DEF r, flag, rows
<1> QED
  BY <1>0, <1>1, <1>3, <1>5, <1>6, Ended

LEMMA ServerGoneStep ==
  ASSUME IInv, NEW c \in Programs, ServerGone(c)
  PROVE  IInv'
<1>0. TypeOK /\ c \in Clients
  BY DEF IInv, Clients
<1>1. /\ ~Up /\ client[c] # "start"
      /\ UNCHANGED back
      /\ UNCHANGED <<version, body, sentVars, chan, connVars, serverVars>>
  BY DEF ServerGone
<1>2. PICK r \in {"none", "ok", "refused", "failed", "killed"} : Exit(c, r)
  BY SessionAssumption DEF ServerGone, SessionAssumption
<1>3. \E b \in Seq(Nat) : back' = [back EXCEPT ![c] = b]
  BY <1>0, <1>1, Types DEF TypeOK, Channels
<1> QED
  BY <1>0, <1>1, <1>2, <1>3, Ended

LEMMA KillStep ==
  ASSUME IInv, NEW c \in Clients, Kill(c)
  PROVE  IInv'
<1>0. TypeOK
  BY DEF IInv
<1>1. /\ client[c] # "start" /\ Exit(c, "killed")
      /\ UNCHANGED back
      /\ UNCHANGED <<version, body, sentVars, chan, connVars, serverVars>>
  BY DEF Kill
<1>2. \E b \in Seq(Nat) : back' = [back EXCEPT ![c] = b]
  BY <1>0, <1>1, Types DEF TypeOK, Channels
<1> QED
  BY <1>1, <1>2, Ended

\* A client with nothing in flight goes idle or ends.
LEMMA Turned ==
  ASSUME IInv, NEW c \in Clients, NEW x \in {"idle", "done"},
         client' = [client EXCEPT ![c] = x],
         back' \in [Clients -> Seq(Nat)],
         result' \in [Clients -> {"none", "ok", "refused", "failed", "killed"}],
         back'[c] = <<>>, result'[c] # "ok",
         \A d \in Clients : d # c => back'[d] = back[d] /\ result'[d] = result[d],
         UNCHANGED <<version, body, sentVars, out, closed, chan, connVars, serverVars>>,
         closed[c] = "no", ~Responding(c), Serves(c) => InFlight(c) = <<>>,
         x = "idle" => c \in Others
  PROVE  IInv'
<1>0. /\ TypeOK /\ Reading(c) /\ Framed(c) /\ Formed(c) /\ ClientSide(c) /\ Counted(c)
      /\ c \in Programs => Told(c)
      /\ \A d \in Clients : Inv(d)
  BY DEF IInv, Inv
<1>1. client \in [Clients -> {"start", "handshake", "answer", "idle", "done"}]
  BY <1>0 DEF TypeOK
<1>2. UNCHANGED <<version, body, sentVars, out, closed, chan, state, header, buf_size,
                  buf_read, executed, pc, cur, reply>>
  BY DEF connVars, serverVars
<1>3. TypeOK'
  <2>1. client' \in [Clients -> {"start", "handshake", "answer", "idle", "done"}]
    BY <1>1
  <2>2. {msg', out', chan', back', header'} \subseteq Channels
    <3>1. {msg, out, chan, header} \subseteq [Clients -> Seq(Nat)]
      BY <1>0 DEF TypeOK, Channels, Units
    <3> QED
      BY <1>2, <3>1 DEF Channels, Units
  <2> QED
    BY <1>0, <1>2, <2>1, <2>2 DEF TypeOK
<1>4. ASSUME NEW d \in Clients, d # c PROVE Inv(d)'
  <2>1. Same(d)
    BY <1>1, <1>2, <1>4 DEF Same
  <2> QED
    BY <1>0, <1>2, <2>1, Untouched
<1>5. Inv(c)'
  <2>1. client'[c] = x
    BY <1>1
  <2>2. /\ Up' = Up /\ Serves(c)' = Serves(c) /\ Greeted(c)' = Greeted(c)
        /\ Executing(c)' = Executing(c) /\ ~Responding(c)'
        /\ BeingRead(c)' = BeingRead(c)
    BY <1>2 DEF Up, Serves, Executing, Responding, Greeted, BeingRead, Refused
  <2>3. InFlight(c)' = InFlight(c)
    BY <1>2, <2>2 DEF InFlight
  <2>4. Reading(c)'
    BY <1>0, <1>2, <2>2 DEF Reading
  <2>5. Framed(c)'
    BY <1>0, <1>2, <2>1, <2>2, <2>3 DEF Framed, Whole, Begins
  <2>6. Formed(c)'
    BY <1>0, <1>2, <2>2, <2>3 DEF Formed, Expected
  <2>7. ClientSide(c)'
    BY <1>0, <1>2, <2>1, <2>2 DEF ClientSide
  <2>8. Counted(c)'
    BY <1>0, <1>2, <2>2, <2>3 DEF Counted
  <2>9. c \in Programs => Told(c)'
    BY <1>0, <1>2, <2>1, <2>2 DEF Told
  <2> QED
    BY <2>4, <2>5, <2>6, <2>7, <2>8, <2>9 DEF Inv
<1> QED
  BY <1>3, <1>4, <1>5 DEF IInv

\* A client that waits for nothing has nothing in flight.
LEMMA Idle ==
  ASSUME IInv, NEW c \in Clients, client[c] \in {"start", "idle"}
  PROVE  /\ closed[c] = "no" /\ result[c] # "ok" /\ ~Responding(c) /\ back[c] = <<>>
         /\ Serves(c) => InFlight(c) = <<>>
<1>1. ClientSide(c) /\ Framed(c)
  BY DEF IInv, Inv
<1>2. closed[c] = "no" /\ result[c] # "ok" /\ ~Responding(c) /\ back[c] = <<>>
  BY <1>1 DEF ClientSide
<1> QED
  BY <1>1, <1>2 DEF Framed, Whole

LEMMA ConnectFailsStep ==
  ASSUME IInv, NEW c \in Programs, ConnectFails(c)
  PROVE  IInv'
<1>0. TypeOK /\ c \in Clients
  BY DEF IInv, Clients
<1>1. /\ client[c] = "start" /\ client' = [client EXCEPT ![c] = "done"]
      /\ result' = [result EXCEPT ![c] = "failed"] /\ UNCHANGED back
      /\ UNCHANGED <<version, body, sentVars, out, closed, chan, connVars, serverVars>>
  BY DEF ConnectFails
<1>2. /\ result' \in [Clients -> {"none", "ok", "refused", "failed", "killed"}]
      /\ result'[c] = "failed" /\ \A d \in Clients : d # c => result'[d] = result[d]
  BY <1>0, <1>1 DEF TypeOK
<1>3. back \in [Clients -> Seq(Nat)]
  BY <1>0 DEF TypeOK, Channels, Units
<1> QED
  BY <1>0, <1>1, <1>2, <1>3, Idle, Turned

LEMMA OtherReadsStep ==
  ASSUME IInv, NEW c \in Others, OtherReads(c)
  PROVE  IInv'
<1>0. TypeOK /\ c \in Clients
  BY DEF IInv, Clients
<1>1. /\ client[c] = "answer" /\ back[c] # <<>> /\ back' = [back EXCEPT ![c] = <<>>]
      /\ client' = [client EXCEPT ![c] = "idle"]
      /\ UNCHANGED result
      /\ UNCHANGED <<version, body, sentVars, out, closed, chan, connVars, serverVars>>
  BY DEF OtherReads
<1>2. back \in [Clients -> Seq(Nat)] /\ <<>> \in Seq(Nat)
  BY <1>0 DEF TypeOK, Channels, Units
<1>3. /\ back' \in [Clients -> Seq(Nat)] /\ back'[c] = <<>>
      /\ \A d \in Clients : d # c => back'[d] = back[d]
  BY <1>0, <1>1, <1>2
<1>4. result \in [Clients -> {"none", "ok", "refused", "failed", "killed"}]
  BY <1>0 DEF TypeOK
<1>5. client[c] # "done"
  BY <1>1
<1> QED
  BY <1>0, <1>1, <1>3, <1>4, <1>5, Answered, Turned

LEMMA OtherSendsStep ==
  ASSUME IInv, NEW c \in Others, OtherSends(c)
  PROVE  IInv'
<1>0. TypeOK /\ Reading(c) /\ Framed(c) /\ c \in Clients /\ c \notin Programs
  BY SessionAssumption DEF IInv, Inv, Clients, SessionAssumption
<1>1. PICK m \in Messages(c) : Begin(c, m, "answer")
  BY DEF OtherSends
<1>2. /\ client[c] \in {"start", "idle"} /\ UNCHANGED back
      /\ UNCHANGED <<version, body, result, closed, chan, connVars, serverVars>>
  BY DEF OtherSends
<1>3. /\ closed[c] = "no" /\ ~Responding(c) /\ back[c] = <<>>
      /\ Serves(c) => InFlight(c) = <<>>
  BY <1>0, <1>2, Idle
<1>4. Serves(c) => state[c] # "REQUEST"
  BY <1>0, <1>3, Awaited
<1>5. CASE state[c] = "INITIALIZED"
  <2>1. m \in {Request(n) : n \in 0 .. MaxBody} \cup {<<HANDSHAKE_REQUEST, 0>>}
    BY <1>5 DEF Messages
  <2>2. m \in Seq(Nat) /\ m # <<>>
    <3>1. ASSUME NEW n \in 0 .. MaxBody PROVE Request(n) \in Seq(Nat) /\ Request(n) # <<>>
      <4> DEFINE q == Request(n)
      <4>1. n \in Nat
        BY SessionAssumption DEF SessionAssumption
      <4>2. q \in Seq(Nat) /\ Len(q) = n + 2
        BY <4>1, MessageParts
      <4> HIDE DEF q
      <4>3. q # <<>>
        BY <4>1, <4>2
      <4> QED
        BY <4>2, <4>3 DEF q
    <3>2. <<HANDSHAKE_REQUEST, 0>> \in Seq(Nat) /\ <<HANDSHAKE_REQUEST, 0>> # <<>>
      BY DEF HANDSHAKE_REQUEST
    <3> QED
      BY <2>1, <3>1, <3>2
  <2>3. Greeted(c)
    BY <1>5 DEF Greeted
  <2>4. back \in [Clients -> Seq(Nat)]
    BY <1>0 DEF TypeOK, Channels, Units
  <2>5. client[c] # "done"
    BY <1>2
  <2> QED
    BY <1>0, <1>1, <1>2, <1>3, <2>1, <2>2, <2>3, <2>4, <2>5, Begun
<1>6. CASE state[c] # "INITIALIZED"
  <2>1. m \in {Handshake(v) : v \in Versions} \cup {<<DB_ACCESS_REQUEST, 0>>}
    BY <1>6 DEF Messages
  <2>2. m \in Seq(Nat) /\ Len(m) = 2 /\ m # <<>>
    <3>1. ASSUME NEW v \in Versions PROVE Handshake(v) \in Seq(Nat) /\ Len(Handshake(v)) = 2
      BY SessionAssumption, MessageParts DEF SessionAssumption
    <3>2. <<DB_ACCESS_REQUEST, 0>> \in Seq(Nat) /\ Len(<<DB_ACCESS_REQUEST, 0>>) = 2
      BY DEF DB_ACCESS_REQUEST
    <3>3. m \in Seq(Nat) /\ Len(m) = 2
      BY <2>1, <3>1, <3>2
    <3> QED
      BY <3>3
  <2>3. Serves(c) => ~Greeted(c)
    BY <1>4, <1>6 DEF Greeted
  <2>4. back \in [Clients -> Seq(Nat)]
    BY <1>0 DEF TypeOK, Channels, Units
  <2>5. client[c] # "done"
    BY <1>2
  <2> QED
    BY <1>0, <1>1, <1>2, <1>3, <2>2, <2>3, <2>4, <2>5, Begun
<1> QED
  BY <1>5, <1>6

\* What is in flight stays what it is while it is on its way or being read.
LEMMA Continues ==
  ASSUME NEW c \in Clients, Inv(c),
         UNCHANGED <<version, body>>,
         /\ client'[c] = client[c] /\ result'[c] = result[c] /\ closed'[c] = closed[c]
         /\ msgs'[c] = msgs[c] /\ msg'[c] = msg[c]
         /\ (c \in offered') = (c \in offered) /\ asked'[c] = asked[c]
         /\ back'[c] = back[c]
         /\ executed'[c] = executed[c],
         client[c] # "start", closed[c] # "no" => out'[c] = <<>>,
         Serves(c)' = Serves(c), Up' = Up, Greeted(c)' = Greeted(c),
         InFlight(c)' = InFlight(c), Answer(c)' = Answer(c),
         Responding(c)' = Responding(c), Reading(c)',
         state'[c] \in {"none", "lost", "UNINITIALIZED"} =>
           state[c] \in {"none", "lost", "UNINITIALIZED"},
         \/ state'[c] = state[c] \/ state[c] # "INITIALIZED"
         \/ ~(c \in Programs /\ client[c] = "handshake")
  PROVE  Inv(c)'
<1>0. /\ Reading(c) /\ Framed(c) /\ Formed(c) /\ ClientSide(c) /\ Counted(c)
      /\ c \in Programs => Told(c)
  BY DEF Inv
<1>1. Framed(c)'
  BY <1>0 DEF Framed, Whole, Begins
<1>2. Formed(c)'
  BY <1>0 DEF Formed, Expected
<1>3. ClientSide(c)'
  BY <1>0 DEF ClientSide
<1>4. Counted(c)'
  BY <1>0 DEF Counted
<1>5. ASSUME c \in Programs PROVE Told(c)'
  <2>1. client'[c] = "handshake" =>
          (Answer(c)' = <<HANDSHAKE_RESPONSE, 0>> => state'[c] = "INITIALIZED")
    BY <1>0, <1>5 DEF Told
  <2> QED
    BY <1>0, <1>5, <2>1 DEF Told, Done
<1> QED
  BY <1>1, <1>2, <1>3, <1>4, <1>5 DEF Inv

\* The piece that send_all puts through stays in its place.
LEMMA TransmitStep ==
  ASSUME IInv, NEW c \in Clients, Transmit(c)
  PROVE  IInv'
<1>0. /\ TypeOK /\ Reading(c) /\ Framed(c) /\ ClientSide(c) /\ Inv(c)
      /\ \A d \in Clients : Inv(d)
  BY DEF IInv, Inv
<1>1. PICK n \in 1 .. Len(out[c]) :
         /\ chan' = [chan EXCEPT ![c] = chan[c] \o SubSeq(out[c], 1, n)]
         /\ out' = [out EXCEPT ![c] = SubSeq(out[c], n + 1, Len(out[c]))]
  BY DEF Transmit
<1>2. UNCHANGED <<version, body, client, result, sentVars, closed, back, state, header,
                  buf_size, buf_read, executed, pc, cur, reply>>
  BY DEF Transmit, connVars, serverVars
<1>3. /\ chan \in [Clients -> Seq(Nat)] /\ out \in [Clients -> Seq(Nat)]
      /\ {msg, back, header} \subseteq [Clients -> Seq(Nat)]
      /\ chan[c] \in Seq(Nat) /\ out[c] \in Seq(Nat)
  BY <1>0 DEF TypeOK, Channels, Units
<1>4. n \in 0 .. Len(out[c]) /\ out[c] # <<>>
  BY <1>3
<1> DEFINE p == SubSeq(out[c], 1, n)
           q == SubSeq(out[c], n + 1, Len(out[c]))
<1>5. p \in Seq(Nat) /\ q \in Seq(Nat) /\ (chan[c] \o p) \o q = chan[c] \o out[c]
  BY <1>3, <1>4, Moved
<1> HIDE DEF p, q
<1>6. chan' = [chan EXCEPT ![c] = chan[c] \o p] /\ out' = [out EXCEPT ![c] = q]
  BY <1>1 DEF p, q
<1>7. chan[c] \o p \in Seq(Nat)
  BY <1>3, <1>5, Shortened
<1>8. /\ chan' \in [Clients -> Seq(Nat)] /\ out' \in [Clients -> Seq(Nat)]
      /\ chan'[c] = chan[c] \o p /\ out'[c] = q
      /\ \A d \in Clients : d # c => chan'[d] = chan[d] /\ out'[d] = out[d]
  BY <1>3, <1>5, <1>6, <1>7
<1>9. TypeOK'
  <2>1. {msg', out', chan', back', header'} \subseteq Channels
    BY <1>2, <1>3, <1>8 DEF Channels, Units
  <2> QED
    BY <1>0, <1>2, <2>1 DEF TypeOK
<1>10. ASSUME NEW d \in Clients, d # c PROVE Inv(d)'
  <2>1. Same(d)
    BY <1>2, <1>8, <1>10 DEF Same
  <2> QED
    BY <1>0, <1>2, <2>1, Untouched
<1>11. Inv(c)'
  <2>1. /\ Up' = Up /\ Serves(c)' = Serves(c) /\ Greeted(c)' = Greeted(c)
        /\ Executing(c)' = Executing(c) /\ Responding(c)' = Responding(c)
        /\ BeingRead(c)' = BeingRead(c)
    BY <1>2 DEF Up, Serves, Executing, Responding, Greeted, BeingRead, Refused
  <2>2. InFlight(c)' = InFlight(c)
    <3>1. BeingRead(c) \in Seq(Nat)
      BY <1>0, Flight
    <3>2. BeingRead(c) \o chan[c] \o out[c] = BeingRead(c) \o (chan[c] \o out[c])
      BY <1>3, <3>1, CatAssociates
    <3>3. BeingRead(c) \o (chan[c] \o p) \o q = BeingRead(c) \o ((chan[c] \o p) \o q)
      BY <1>5, <1>7, <3>1, CatAssociates
    <3> QED
      BY <1>5, <1>8, <2>1, <3>2, <3>3 DEF InFlight
  <2>3. Answer(c)' = Answer(c)
    BY <1>2, <2>1 DEF Answer
  <2>4. ~Executing(c) /\ ~Responding(c) /\ closed[c] = "no" /\ client[c] # "start"
    BY <1>0, <1>4 DEF Reading, Framed, ClientSide
  <2>5. Reading(c)'
    BY <1>0, <1>2, <2>1, <2>4 DEF Reading
  <2> QED
    BY <1>0, <1>2, <2>1, <2>2, <2>3, <2>4, <2>5, Continues
<1> QED
  BY <1>9, <1>10, <1>11 DEF IInv

-----------------------------------------------------------------------------
(* Steps of the server. *)

LEMMA accept_new_clientStep ==
  ASSUME IInv, NEW c \in Clients, accept_new_client(c)
  PROVE  IInv'
<1>0. /\ TypeOK /\ Reading(c) /\ Inv(c)
      /\ \A d \in Clients : Inv(d)
  BY DEF IInv, Inv
<1>1. /\ pc = "poll" /\ state[c] = "none" /\ client[c] # "start"
      /\ \E s \in {"UNINITIALIZED", "lost"} : state' = [state EXCEPT ![c] = s]
      /\ UNCHANGED <<version, body, client, result, sentVars, out, closed, chan, back, header,
                     buf_size, buf_read, executed, pc, cur, reply>>
  BY DEF accept_new_client, clientVars, serverVars
<1>2. /\ state' \in [Clients -> States] /\ state'[c] \in {"UNINITIALIZED", "lost"}
      /\ \A d \in Clients : d # c => state'[d] = state[d]
  BY <1>0, <1>1 DEF TypeOK, States
<1>3. TypeOK'
  BY <1>0, <1>1, <1>2 DEF TypeOK
<1>4. ASSUME NEW d \in Clients, d # c PROVE Inv(d)'
  <2>1. Same(d)
    BY <1>1, <1>2, <1>4 DEF Same
  <2> QED
    BY <1>0, <1>1, <2>1, Untouched
<1>5. Inv(c)'
  <2>1. /\ Up' = Up /\ Serves(c)' = Serves(c) /\ Greeted(c)' = Greeted(c)
        /\ ~Executing(c) /\ ~Executing(c)' /\ ~Responding(c) /\ ~Responding(c)'
        /\ Responding(c)' = Responding(c)
    BY <1>1, <1>2 DEF Up, Serves, Executing, Responding, Greeted
  <2>2. header[c] = <<>>
    BY <1>0, <1>1 DEF Reading
  <2>3. InFlight(c)' = InFlight(c)
    BY <1>1, <1>2, <2>1, <2>2 DEF InFlight, BeingRead, Refused
  <2>4. Answer(c)' = Answer(c)
    BY <1>1, <2>1 DEF Answer
  <2>5. Reading(c)'
    BY <1>1, <1>2, <2>1, <2>2 DEF Reading
  <2>6. closed[c] # "no" => out[c] = <<>>
    BY <1>0 DEF Inv, Framed
  <2>7. /\ client'[c] = client[c] /\ result'[c] = result[c] /\ closed'[c] = closed[c]
        /\ msgs'[c] = msgs[c] /\ msg'[c] = msg[c]
        /\ (c \in offered') = (c \in offered) /\ asked'[c] = asked[c]
        /\ back'[c] = back[c]
        /\ executed'[c] = executed[c] /\ out'[c] = out[c]
        /\ UNCHANGED <<version, body>>
        /\ state'[c] = state[c] \/ state[c] # "INITIALIZED"
        /\ state'[c] \in {"none", "lost", "UNINITIALIZED"} =>
             state[c] \in {"none", "lost", "UNINITIALIZED"}
    BY <1>1, <1>2, <2>1
  <2> QED
    BY <1>0, <1>1, <2>1, <2>3, <2>4, <2>5, <2>6, <2>7, Continues
<1> QED
  BY <1>3, <1>4, <1>5 DEF IInv

\* Between two turns nothing is being done for anybody.
LEMMA StallsStep ==
  ASSUME IInv, Stalls \/ Resumes
  PROVE  IInv'
<1>0. TypeOK /\ \A d \in Clients : Inv(d)
  BY DEF IInv
<1>1. /\ pc \in {"poll", "stalled"} /\ pc' \in {"poll", "stalled"}
      /\ UNCHANGED <<version, body, client, result, sentVars, out, closed, chan, back, state,
                     header, buf_size, buf_read, executed, cur, reply>>
  BY DEF Stalls, Resumes, clientVars, connVars
<1>2. TypeOK'
  <2>1. {msg', out', chan', back', header'} \subseteq Channels
    BY <1>0, <1>1 DEF TypeOK
  <2> QED
    BY <1>0, <1>1, <2>1 DEF TypeOK
<1>3. ASSUME NEW d \in Clients PROVE Inv(d)'
  <2>1. Same(d) /\ ~Busy(d) /\ ~Busy(d)' /\ Up /\ Up'
    BY <1>1 DEF Same, Busy, Up
  <2> QED
    BY <1>0, <2>1, Untouched
<1> QED
  BY <1>2, <1>3 DEF IInv

\* Nothing is left to keep once the server has exited.
LEMMA Exited ==
  ASSUME IInv, pc' = "exit", reply' \in {reply, <<>>},
         UNCHANGED <<clientVars, chan, back, connVars, executed, cur>>
  PROVE  IInv'
<1>0. TypeOK /\ \A d \in Clients : Inv(d)
  BY DEF IInv
<1>1. UNCHANGED <<version, body, client, result, sentVars, out, closed, chan, back, state,
                  header, buf_size, buf_read, executed, cur>>
  BY DEF clientVars, connVars
<1>2. TypeOK'
  <2>1. reply' \in Seq(Units)
    <3>1. reply \in Seq(Nat) /\ <<>> \in Seq(Nat)
      BY <1>0 DEF TypeOK, Units
    <3> QED
      BY <3>1 DEF Units
  <2>2. {msg', out', chan', back', header'} \subseteq Channels
    BY <1>0, <1>1 DEF TypeOK
  <2> QED
    BY <1>0, <1>1, <2>1, <2>2 DEF TypeOK
<1>3. ASSUME NEW d \in Clients PROVE Inv(d)'
  <2>1. Same(d) /\ ~Up'
    BY <1>1 DEF Same, Up
  <2> QED
    BY <1>0, <2>1, Untouched
<1> QED
  BY <1>2, <1>3 DEF IInv

LEMMA ReceiveFailsStep ==
  ASSUME IInv, NEW c \in Clients, ReceiveFails(c)
  PROVE  IInv'
BY Exited DEF ReceiveFails

LEMMA ServerDiesStep ==
  ASSUME IInv, ServerDies
  PROVE  IInv'
BY Exited DEF ServerDies

\* The connection of a client that has ended, or sent more than it should, is
\* dropped.  A greeted program that waits is neither.
LEMMA ReceiveNothingStep ==
  ASSUME IInv, NEW c \in Clients, ReceiveNothing(c)
  PROVE  IInv'
<1>0. /\ TypeOK /\ Reading(c) /\ Framed(c) /\ ClientSide(c) /\ Counted(c) /\ Inv(c)
      /\ c \in Programs => Told(c)
      /\ \A d \in Clients : Inv(d)
  BY DEF IInv, Inv
<1>1. /\ Connected(c) /\ ReceivesZero(c) /\ pc' = "poll"
      /\ UNCHANGED <<version, body, client, result, sentVars, out, closed, chan, back, header,
                     buf_size, buf_read, executed, cur, reply>>
      /\ \/ pc = "poll" /\ state' = [state EXCEPT ![c] = "dropped"]
         \/ pc = "body" /\ cur = c /\ UNCHANGED state
  BY DEF ReceiveNothing, clientVars, SetState
<1>2. /\ state' \in [Clients -> States]
      /\ \A d \in Clients : d # c => state'[d] = state[d]
  BY <1>0, <1>1 DEF TypeOK, States
<1>3. TypeOK'
  BY <1>0, <1>1, <1>2 DEF TypeOK
<1>4. ASSUME NEW d \in Clients, d # c PROVE Inv(d)'
  <2>1. Same(d)
    BY <1>1, <1>2, <1>4 DEF Same
  <2>2. ~Busy(d) /\ ~Busy(d)' /\ Up /\ Up'
    BY <1>1, <1>4 DEF Busy, Up
  <2> QED
    BY <1>0, <2>1, <2>2, Untouched
<1>5. client[c] # "start"
  BY <1>0, <1>1 DEF ClientSide, Connected
<1>6. CASE pc = "body" /\ cur = c /\ UNCHANGED state
  <2>1. /\ Up' = Up /\ Serves(c)' = Serves(c) /\ Greeted(c)' = Greeted(c)
        /\ ~Executing(c)' /\ ~Responding(c) /\ ~Responding(c)'
        /\ Responding(c)' = Responding(c)
    BY <1>1, <1>6 DEF Up, Serves, Executing, Responding, Greeted
  <2>2. InFlight(c)' = InFlight(c)
    BY <1>1, <1>6, <2>1 DEF InFlight, BeingRead, Refused
  <2>3. Answer(c)' = Answer(c)
    BY <1>1, <2>1 DEF Answer
  <2>4. Reading(c)'
    BY <1>0, <1>1, <1>6, <2>1 DEF Reading
  <2>5. closed[c] # "no" => out[c] = <<>>
    BY <1>0 DEF Framed
  <2>6. /\ client'[c] = client[c] /\ result'[c] = result[c] /\ closed'[c] = closed[c]
        /\ msgs'[c] = msgs[c] /\ msg'[c] = msg[c]
        /\ (c \in offered') = (c \in offered) /\ asked'[c] = asked[c]
        /\ back'[c] = back[c]
        /\ executed'[c] = executed[c] /\ out'[c] = out[c]
        /\ UNCHANGED <<version, body>>
        /\ state'[c] = state[c] \/ state[c] # "INITIALIZED"
        /\ state'[c] \in {"none", "lost", "UNINITIALIZED"} =>
             state[c] \in {"none", "lost", "UNINITIALIZED"}
    BY <1>1, <1>6, <2>1
  <2>7. Inv(c)'
    BY <1>0, <1>5, <2>1, <2>2, <2>3, <2>4, <2>5, <2>6, Continues
  <2> QED
    BY <1>3, <1>4, <2>7 DEF IInv
<1>7. CASE pc = "poll" /\ state' = [state EXCEPT ![c] = "dropped"]
  <2>1. state'[c] = "dropped"
    BY <1>0, <1>7 DEF TypeOK
  <2>2. /\ ~Serves(c)' /\ ~Greeted(c)' /\ ~Executing(c)' /\ ~Responding(c) /\ ~Responding(c)'
        /\ Up /\ Up' /\ Serves(c)
    BY <1>1, <1>7, <2>1 DEF Up, Serves, Executing, Responding, Greeted, Connected
  <2>3. Answer(c)' = back[c] /\ Answer(c) = back[c]
    BY <1>1, <2>2 DEF Answer
  <2>4. Reading(c)'
    BY <1>1, <2>1, <2>2 DEF Reading
  <2>5. Framed(c)' /\ Formed(c)'
    BY <1>0, <1>1, <2>2 DEF Framed, Formed
  <2>6. ClientSide(c)'
    BY <1>0, <1>1, <1>5, <2>2 DEF ClientSide
  <2>7. Counted(c)'
    BY <1>0, <1>1, <2>1, <2>2 DEF Counted
  <2>8. ASSUME c \in Programs PROVE Told(c)'
    <3>1. client[c] = "handshake" => back[c] # <<HANDSHAKE_RESPONSE, 0>>
      <4>1. SUFFICES ASSUME client[c] = "handshake", back[c] = <<HANDSHAKE_RESPONSE, 0>>
                     PROVE FALSE
        OBVIOUS
      <4>2. state[c] = "INITIALIZED" /\ closed[c] = "no"
        BY <1>0, <2>3, <2>8, <4>1 DEF Told, ClientSide
      <4>3. back[c] # <<>> /\ client[c] # "done"
        BY <4>1
      <4>4. InFlight(c) = <<>>
        BY <2>2, <4>3, Answered
      <4>5. chan[c] = <<>> /\ BeingRead(c) = <<>>
        BY <1>0, <4>4, Flight
      <4> QED
        BY <1>1, <4>2, <4>5 DEF ReceivesZero, Readable
    <3> QED
      BY <1>0, <1>1, <2>2, <2>3, <2>8, <3>1 DEF Told, Done
  <2> QED
    BY <1>3, <1>4, <2>4, <2>5, <2>6, <2>7, <2>8 DEF IInv, Inv
<1> QED
  BY <1>1, <1>6, <1>7

\* What recv() takes from the channel of a connection, and what it leaves.
LEMMA Received ==
  ASSUME TypeOK, NEW c \in Clients, NEW n \in 1 .. Len(chan[c]), Consume(c, n)
  PROVE  /\ SubSeq(chan[c], 1, n) \in Seq(Nat) /\ Len(SubSeq(chan[c], 1, n)) = n
         /\ \A k \in 1 .. n : SubSeq(chan[c], 1, n)[k] = chan[c][k]
         /\ chan' \in [Clients -> Seq(Nat)] /\ chan'[c] \in Seq(Nat)
         /\ Len(chan'[c]) = Len(chan[c]) - n
         /\ \A d \in Clients : d # c => chan'[d] = chan[d]
         /\ (BeingRead(c) \o SubSeq(chan[c], 1, n)) \o chan'[c] \o out[c] = InFlight(c)
<1> DEFINE f == SubSeq(chan[c], 1, n)
           g == SubSeq(chan[c], n + 1, Len(chan[c]))
<1>1. /\ chan \in [Clients -> Seq(Nat)] /\ chan[c] \in Seq(Nat)
      /\ BeingRead(c) \in Seq(Nat) /\ n \in 0 .. Len(chan[c])
  <2>1. chan \in [Clients -> Seq(Nat)]
    BY DEF TypeOK, Channels, Units
  <2>2. chan[c] \in Seq(Nat) /\ BeingRead(c) \in Seq(Nat)
    BY Types, Flight
  <2> QED
    BY <2>1, <2>2
<1>2. /\ f \in Seq(Nat) /\ g \in Seq(Nat) /\ Len(f) = n /\ Len(g) = Len(chan[c]) - n
      /\ (BeingRead(c) \o f) \o g = BeingRead(c) \o chan[c]
  BY <1>1, Moved
<1>3. \A k \in 1 .. n : f[k] = chan[c][k]
  BY <1>1
<1>4. chan' = [chan EXCEPT ![c] = g]
  BY DEF Consume
<1> HIDE DEF f, g
<1>5. /\ chan' \in [Clients -> Seq(Nat)] /\ chan'[c] = g
      /\ \A d \in Clients : d # c => chan'[d] = chan[d]
  BY <1>1, <1>2, <1>4
<1>6. (BeingRead(c) \o f) \o chan'[c] \o out[c] = InFlight(c)
  BY <1>2, <1>5 DEF InFlight
<1> QED
  BY <1>2, <1>3, <1>5, <1>6 DEF f

\* What a greeted client sends.
Requests == {Request(j) : j \in Nat} \cup {<<HANDSHAKE_REQUEST, 0>>}

\* What the server has of a request, what has arrived and what has not.
LEMMA BodyPiece ==
  ASSUME NEW b \in Seq(Nat), NEW a \in Seq(Nat), NEW o \in Seq(Nat), NEW m \in Seq(Nat),
         Begins(b \o a \o o, m), Len(b) >= 2, b[1] = DB_ACCESS_REQUEST, m \in Requests
  PROVE  /\ m = Request(b[2])
         /\ \A k \in 1 .. Len(a) : a[k] = 7
         /\ Len(b) + Len(a) + Len(o) <= b[2] + 2
<1> DEFINE w == b \o a \o o
<1>1. /\ Len(w) = Len(b) + Len(a) + Len(o)
      /\ \A k \in 1 .. Len(b) : w[k] = b[k]
      /\ \A k \in 1 .. Len(a) : w[Len(b) + k] = a[k]
  <2>1. Joined(b, a, o, w)
    BY Parts, Zenon
  <2> QED
    BY <2>1, Zenon DEF Joined
<1>2. Begins(w, m)
  OBVIOUS
<1> HIDE DEF w
<1>3. Len(w) <= Len(m) /\ \A k \in 1 .. Len(w) : w[k] = m[k]
  BY <1>2 DEF Begins
<1>4. Len(a) \in Nat /\ Len(b) \in Nat /\ Len(o) \in Nat /\ Len(m) \in Nat
  OBVIOUS
<1>5. 1 \in 1 .. Len(b) /\ 2 \in 1 .. Len(b) /\ 1 \in 1 .. Len(w) /\ 2 \in 1 .. Len(w)
  BY <1>1, <1>4
<1>6. m[1] = DB_ACCESS_REQUEST /\ m[2] = b[2]
  <2>1. w[1] = b[1] /\ w[2] = b[2]
    BY <1>1, <1>5, Zenon
  <2>2. w[1] = m[1] /\ w[2] = m[2]
    BY <1>3, <1>5, Zenon
  <2> QED
    BY <2>1, <2>2, Zenon
<1>7. m # <<HANDSHAKE_REQUEST, 0>>
  BY <1>6 DEF DB_ACCESS_REQUEST, HANDSHAKE_REQUEST
<1>8. PICK j \in Nat : m = Request(j)
  BY <1>7 DEF Requests
<1>9. Request(j)[2] = j
  BY MessageParts
<1>10. m = Request(b[2]) /\ b[2] = j
  BY <1>6, <1>8, <1>9
<1>11. Len(m) = j + 2 /\ \A k \in 1 .. j : m[2 + k] = 7
  BY <1>8, MessageParts
<1>12. Len(b) + Len(a) + Len(o) <= j + 2
  BY <1>1, <1>3, <1>11
<1>13. ASSUME NEW k \in 1 .. Len(a) PROVE a[k] = 7
  <2>1. k \in Nat /\ k >= 1 /\ k <= Len(a)
    BY <1>4
  <2> DEFINE i == Len(b) + k - 2
  <2>2. i \in Int /\ i >= 1 /\ 2 + i = Len(b) + k
    BY <1>4, <2>1
  <2>3. i <= j
    BY <1>4, <1>12, <2>1
  <2> HIDE DEF i
  <2>4. Len(b) + k \in 1 .. Len(w)
    BY <1>1, <1>4, <2>1
  <2>5. a[k] = w[Len(b) + k]
    BY <1>1
  <2>6. w[Len(b) + k] = m[Len(b) + k]
    BY <1>3, <2>4
  <2>7. m[2 + i] = 7
    BY <1>11, <2>2, <2>3
  <2> QED
    BY <2>2, <2>5, <2>6, <2>7
<1> QED
  BY <1>10, <1>12, <1>13

LEMMA Front ==
  ASSUME NEW a \in Seq(Nat), NEW b \in Seq(Nat)
  PROVE  /\ a \o b \in Seq(Nat) /\ Len(a \o b) = Len(a) + Len(b)
         /\ \A k \in 1 .. Len(a) : (a \o b)[k] = a[k]
  OBVIOUS

\* The body of a request is read to its end and no further, and its pieces
\* are those of the message.
LEMMA ReceiveBufStep ==
  ASSUME IInv, NEW c \in Clients, ReceiveBuf(c)
  PROVE  IInv'
<1>0. /\ TypeOK /\ Reading(c) /\ Framed(c) /\ Formed(c) /\ ClientSide(c) /\ Inv(c)
      /\ \A d \in Clients : Inv(d)
  BY DEF IInv, Inv
<1> DEFINE r == buf_read[c]
           s == buf_size[c]
<1>1. /\ state[c] = "REQUEST" /\ (pc = "poll" \/ (pc = "body" /\ cur = c))
      /\ cur' = c
      /\ UNCHANGED <<version, body, client, result, sentVars, out, closed, back, state, header,
                     buf_size, executed, reply>>
  BY DEF ReceiveBuf, clientVars
<1>2. PICK n \in Pieces(c) :
         /\ Consume(c, n)
         /\ buf_read' = [buf_read EXCEPT ![c] = r + n]
         /\ pc' = IF r + n = s THEN "execute" ELSE "poll"
  BY DEF ReceiveBuf
<1>3. /\ r \in Nat /\ s \in Nat /\ chan[c] \in Seq(Nat) /\ out[c] \in Seq(Nat)
      /\ header[c] \in Seq(Nat) /\ msg[c] \in Seq(Nat) /\ Body(r) \in Seq(Nat)
      /\ s \in 0 .. MaxBody /\ buf_read \in [Clients -> 0 .. MaxBody] /\ MaxBody \in Nat
  BY <1>0, Types, SessionAssumption DEF TypeOK, SessionAssumption
<1>4. n \in 1 .. Len(chan[c]) /\ n \in 1 .. s - r /\ r + n \in 0 .. MaxBody /\ r + n <= s
  BY <1>1, <1>3 DEF Pieces, Asked
<1> DEFINE f == SubSeq(chan[c], 1, n)
<1>5. /\ f \in Seq(Nat) /\ Len(f) = n /\ \A k \in 1 .. n : f[k] = chan[c][k]
      /\ chan' \in [Clients -> Seq(Nat)] /\ chan'[c] \in Seq(Nat)
      /\ Len(chan'[c]) = Len(chan[c]) - n
      /\ \A d \in Clients : d # c => chan'[d] = chan[d]
      /\ (BeingRead(c) \o f) \o chan'[c] \o out[c] = InFlight(c)
  BY <1>0, <1>2, <1>4, Received
<1>6. /\ buf_read'[c] = r + n /\ buf_read' \in [Clients -> 0 .. MaxBody]
      /\ \A d \in Clients : d # c => buf_read'[d] = buf_read[d]
  BY <1>2, <1>3, <1>4
<1>7. /\ header[c] = <<DB_ACCESS_REQUEST, s>> /\ s > 0
      /\ ~Executing(c) /\ ~Responding(c) /\ Serves(c) /\ Greeted(c) /\ Up
  BY <1>0, <1>1 DEF Reading, Executing, Responding, Serves, Greeted, Up
<1> HIDE DEF f, r, s
<1>8. TypeOK'
  <2>1. {msg, out, back, header} \subseteq [Clients -> Seq(Nat)]
    BY <1>0 DEF TypeOK, Channels, Units
  <2>2. {msg', out', chan', back', header'} \subseteq Channels
    BY <1>1, <1>5, <2>1 DEF Channels, Units
  <2>3. pc' \in {"poll", "body", "execute", "respond", "exit"}
    BY <1>2
  <2>4. \A d \in Clients : Len(header'[d]) <= 2 /\ buf_read'[d] <= buf_size'[d]
    BY <1>0, <1>1, <1>4, <1>6 DEF TypeOK, s
  <2> QED
    BY <1>0, <1>1, <1>6, <2>2, <2>3, <2>4 DEF TypeOK
<1>9. ASSUME NEW d \in Clients, d # c PROVE Inv(d)'
  <2>1. Same(d)
    BY <1>1, <1>5, <1>6, <1>9 DEF Same
  <2>2. ~Busy(d) /\ ~Busy(d)' /\ Up /\ Up'
    BY <1>1, <1>2, <1>9 DEF Busy, Up
  <2> QED
    BY <1>0, <2>1, <2>2, Untouched
<1>10. BeingRead(c) = header[c] \o Body(r) /\ Len(header[c]) = 2 /\ Len(Body(r)) = r
  BY <1>1, <1>3, <1>7 DEF BeingRead, Refused, Body, r
<1>11. /\ BeingRead(c) \in Seq(Nat) /\ Len(BeingRead(c)) = 2 + r
       /\ BeingRead(c)[1] = DB_ACCESS_REQUEST /\ BeingRead(c)[2] = s
  <2>1. /\ header[c] \o Body(r) \in Seq(Nat)
        /\ Len(header[c] \o Body(r)) = Len(header[c]) + Len(Body(r))
        /\ \A k \in 1 .. Len(header[c]) : (header[c] \o Body(r))[k] = header[c][k]
    BY <1>3, Front
  <2>2. 1 \in 1 .. Len(header[c]) /\ 2 \in 1 .. Len(header[c])
    BY <1>10
  <2>3. header[c][1] = DB_ACCESS_REQUEST /\ header[c][2] = s
    BY <1>7
  <2> HIDE DEF r, s
  <2>4. BeingRead(c)[1] = header[c][1] /\ BeingRead(c)[2] = header[c][2]
    <3>1. /\ (header[c] \o Body(r))[1] = header[c][1]
          /\ (header[c] \o Body(r))[2] = header[c][2]
      BY <2>1, <2>2, Zenon
    <3> QED
      BY <1>10, <3>1, Zenon
  <2>5. BeingRead(c) \in Seq(Nat) /\ Len(BeingRead(c)) = 2 + r
    BY <1>10, <2>1
  <2> QED
    BY <2>3, <2>4, <2>5
<1>12. Begins(BeingRead(c) \o chan[c] \o out[c], msg[c])
  BY <1>0, <1>7 DEF Framed, InFlight
<1>13. InFlight(c) # <<>>
  BY <1>0, <1>1, Awaited
<1>14. Expected(c)
  BY <1>0, <1>7, <1>13 DEF Formed
<1>15. msg[c] \in Requests
  BY <1>3, <1>7, <1>14 DEF Expected, Requests
<1>16. /\ \A k \in 1 .. Len(chan[c]) : chan[c][k] = 7
       /\ Len(BeingRead(c)) + Len(chan[c]) + Len(out[c]) <= BeingRead(c)[2] + 2
  <2>1. /\ BeingRead(c) \in Seq(Nat) /\ chan[c] \in Seq(Nat)
        /\ out[c] \in Seq(Nat) /\ msg[c] \in Seq(Nat) /\ Len(BeingRead(c)) >= 2
    BY <1>3, <1>11
  <2> QED
    BY <1>11, <1>12, <1>15, <2>1, BodyPiece
<1>17. \A k \in 1 .. n : f[k] = 7
  <2>1. ASSUME NEW k \in 1 .. n PROVE k \in 1 .. Len(chan[c])
    BY <1>3, <1>4
  <2> QED
    BY <1>5, <1>16, <2>1
<1>18. BeingRead(c)' = BeingRead(c) \o f
  <2>1. Body(r) \o f = Body(r + n)
    BY <1>3, <1>5, <1>17, BodyGrows
  <2>2. BeingRead(c)' = header[c] \o Body(r + n)
    BY <1>1, <1>6 DEF BeingRead, Refused
  <2>3. (header[c] \o Body(r)) \o f = header[c] \o (Body(r) \o f)
    BY <1>3, <1>5, CatAssociates
  <2>4. BeingRead(c)' = header[c] \o (Body(r) \o f)
    BY <2>1, <2>2, Zenon
  <2>5. BeingRead(c)' = (header[c] \o Body(r)) \o f
    BY <2>3, <2>4, Zenon
  <2>6. BeingRead(c) = header[c] \o Body(r)
    BY <1>10, Zenon
  <2> QED
    BY <2>5, <2>6, Zenon
<1>19. InFlight(c)' = InFlight(c)
  BY <1>1, <1>5, <1>18 DEF InFlight
<1>20. /\ Up' = Up /\ Serves(c)' = Serves(c) /\ Greeted(c)' = Greeted(c)
       /\ Responding(c)' = Responding(c) /\ ~Responding(c)'
       /\ Executing(c)' => r + n = s
  BY <1>1, <1>2 DEF Up, Serves, Greeted, Responding, Executing
<1>21. Reading(c)'
  <2>1. ASSUME r + n = s PROVE chan'[c] = <<>> /\ out[c] = <<>>
    <3>1. Len(chan'[c]) = 0 /\ Len(out[c]) = 0
      <4>1. Len(chan[c]) \in Nat /\ Len(out[c]) \in Nat /\ n \in Nat /\ n <= Len(chan[c])
        BY <1>3, <1>4
      <4>2. 2 + r + Len(chan[c]) + Len(out[c]) <= s + 2
        BY <1>11, <1>16
      <4>3. Len(chan'[c]) = Len(chan[c]) - n
        BY <1>5
      <4>4. r \in Nat /\ s \in Nat
        BY <1>3
      <4>5. \A l, o \in Nat : n <= l /\ 2 + r + l + o <= s + 2 => l = n /\ o = 0
        BY <2>1, <4>1, <4>4
      <4>6. Len(chan[c]) = n /\ Len(out[c]) = 0
        BY <4>1, <4>2, <4>5
      <4> QED
        BY <4>1, <4>3, <4>6
    <3> QED
      BY <1>3, <1>5, <3>1
  <2>2. pc' # "body"
    BY <1>2
  <2> QED
    BY <1>1, <1>6, <1>7, <1>20, <2>1, <2>2 DEF Reading, s
<1>22. Answer(c)' = Answer(c)
  BY <1>1, <1>7, <1>20 DEF Answer
<1>23. client[c] # "start" /\ (closed[c] # "no" => out[c] = <<>>)
  BY <1>0, <1>1 DEF ClientSide, Framed
<1>24. /\ client'[c] = client[c] /\ result'[c] = result[c] /\ closed'[c] = closed[c]
       /\ msgs'[c] = msgs[c] /\ msg'[c] = msg[c]
       /\ (c \in offered') = (c \in offered) /\ asked'[c] = asked[c]
       /\ back'[c] = back[c]
       /\ executed'[c] = executed[c] /\ out'[c] = out[c] /\ state'[c] = state[c]
       /\ UNCHANGED <<version, body>>
  BY <1>1
<1>25. Inv(c)'
  BY <1>0, <1>19, <1>20, <1>21, <1>22, <1>23, <1>24, Continues
<1> QED
  BY <1>8, <1>9, <1>25 DEF IInv

\* The server has made an answer to what is in flight.
LEMMA Responds ==
  ASSUME IInv, NEW c \in Clients,
         UNCHANGED <<version, body, client, result, sentVars, out, closed, back>>,
         Serves(c), InFlight(c) # <<>>, ~Responding(c),
         pc' = "respond", cur' = c, reply' # <<>>,
         state'[c] \in {"UNINITIALIZED", "INITIALIZED", "REQUEST"},
         Reading(c)', Counted(c)',
         InFlight(c)' = <<>> \/ (InFlight(c)' = InFlight(c) /\ Greeted(c)' = Greeted(c)),
         c \in Programs =>
           /\ client[c] = "handshake" =>
                /\ reply' \in {<<HANDSHAKE_RESPONSE, 0>>, <<HANDSHAKE_RESPONSE, 1>>}
                /\ reply' = <<HANDSHAKE_RESPONSE, 0>> => state'[c] = "INITIALIZED"
           /\ client[c] = "answer" => (Len(reply') >= 3 /\ reply'[2] = 0 => Done(c)')
           /\ Greeted(c)' \/ executed'[c] > 0 => version[c] = ServerVersion
  PROVE  Inv(c)'
<1>0. /\ TypeOK /\ Reading(c) /\ Framed(c) /\ Formed(c) /\ ClientSide(c)
      /\ c \in Programs => Told(c)
  BY DEF IInv, Inv
<1>1. /\ Responding(c)' /\ Up' /\ Serves(c)' /\ Answer(c)' = reply'
  BY DEF Responding, Up, Serves, Answer
<1>2. client[c] # "start"
  <2>1. ASSUME client[c] = "start" PROVE FALSE
    <3>1. chan[c] = <<>> /\ out[c] = <<>> /\ state[c] = "none"
      BY <1>0, <2>1 DEF ClientSide
    <3>2. BeingRead(c) = <<>>
      BY <1>0, <3>1 DEF Reading, BeingRead, Refused
    <3> QED
      BY <1>0, <3>1, <3>2, Flight
  <2> QED
    BY <2>1
<1>3. c \in Programs => result[c] # "ok"
  BY <1>0 DEF Told
<1>4. closed[c] = "no" =>
        /\ client[c] \in {"handshake", "answer"} /\ back[c] = <<>>
        /\ InFlight(c) = msg[c]
  BY <1>0 DEF Framed, Whole, Answer
<1>5. Framed(c)'
  <2>1. Begins(InFlight(c), msg[c])
    BY <1>0 DEF Framed
  <2>2. Begins(<<>>, msg[c])
    BY <1>0, Types DEF Begins
  <2>3. Begins(InFlight(c), msg[c])'
    BY <2>1, <2>2 DEF Begins
  <2>4. closed[c] = "no" => Whole(c)'
    BY <1>1, <1>4 DEF Whole
  <2> QED
    BY <1>0, <1>1, <2>3, <2>4 DEF Framed
<1>6. Formed(c)'
  <2>1. ASSUME InFlight(c)' # <<>> PROVE Expected(c)'
    <3>1. Expected(c)
      BY <1>0 DEF Formed
    <3> QED
      BY <2>1, <3>1 DEF Expected
  <2> QED
    BY <2>1 DEF Formed
<1>7. ClientSide(c)'
  BY <1>0, <1>1, <1>2, <1>4 DEF ClientSide
<1>8. ASSUME c \in Programs PROVE Told(c)'
  <2>1. client[c] = "handshake" => asked[c] = 0 /\ msg[c] = Handshake(version[c])
    BY <1>0, <1>8 DEF Told
  <2>2. client[c] = "answer" => asked[c] <= 1 /\ (body[c] = 0 => asked[c] = 0)
    BY <1>0, <1>8 DEF Told
  <2> QED
    BY <1>1, <1>3, <1>8, <2>1, <2>2 DEF Told
<1> QED
  BY <1>5, <1>6, <1>7, <1>8 DEF Inv

\* The message a body is read for is a request that asks for something.
LEMMA RequestInFlight ==
  ASSUME TypeOK, NEW c \in Clients, Reading(c), Framed(c), Serves(c), state[c] = "REQUEST"
  PROVE  Asks(msg[c])
<1>1. header[c] = <<DB_ACCESS_REQUEST, buf_size[c]>> /\ buf_size[c] > 0
  BY DEF Reading
<1>2. BeingRead(c) = header[c] \o Body(buf_read[c])
  BY DEF BeingRead, Refused
<1>3. header[c] \in Seq(Nat) /\ Body(buf_read[c]) \in Seq(Nat) /\ Len(header[c]) = 2
  BY <1>1, Types
<1>4. /\ Len(BeingRead(c)) = Len(header[c]) + Len(Body(buf_read[c]))
      /\ \A k \in 1 .. Len(header[c]) : BeingRead(c)[k] = header[c][k]
  <2> DEFINE a == header[c]
             b == Body(buf_read[c])
  <2>1. a \in Seq(Nat) /\ b \in Seq(Nat)
    BY <1>3
  <2>2. BeingRead(c) = a \o b
    BY <1>2
  <2> HIDE DEF a, b
  <2>3. Len(a \o b) = Len(a) + Len(b) /\ \A k \in 1 .. Len(a) : (a \o b)[k] = a[k]
    BY <2>1
  <2> QED
    BY <2>2, <2>3, Zenon DEF a, b
<1>5. /\ Len(InFlight(c)) = Len(BeingRead(c)) + Len(chan[c]) + Len(out[c])
      /\ \A k \in 1 .. Len(BeingRead(c)) : InFlight(c)[k] = BeingRead(c)[k]
  BY Flight
<1>6. \A k \in 1 .. Len(InFlight(c)) : InFlight(c)[k] = msg[c][k]
  BY DEF Framed, Begins
<1>7. /\ Len(Body(buf_read[c])) \in Nat /\ Len(chan[c]) \in Nat /\ Len(out[c]) \in Nat
  BY <1>3, Types
<1>8. {1, 2} \subseteq 1 .. Len(InFlight(c)) \cap 1 .. Len(BeingRead(c)) \cap 1 .. Len(header[c])
  <2>1. \A x, y, z \in Nat : {1, 2} \subseteq 1 .. (2 + x) + y + z
                              /\ {1, 2} \subseteq 1 .. 2 + x /\ {1, 2} \subseteq 1 .. 2
    OBVIOUS
  <2>2. /\ Len(BeingRead(c)) = 2 + Len(Body(buf_read[c]))
        /\ Len(InFlight(c)) = (2 + Len(Body(buf_read[c]))) + Len(chan[c]) + Len(out[c])
    BY <1>3, <1>4, <1>5, Zenon
  <2>3. /\ {1, 2} \subseteq 1 .. Len(InFlight(c)) /\ {1, 2} \subseteq 1 .. Len(BeingRead(c))
        /\ {1, 2} \subseteq 1 .. Len(header[c])
    BY <1>3, <1>7, <2>1, <2>2, Zenon
  <2> QED
    BY <2>3, Zenon
<1>9. \A k \in {1, 2} : msg[c][k] = header[c][k]
  BY <1>4, <1>5, <1>6, <1>8, Zenon
<1> QED
  BY <1>1, <1>9 DEF Asks

\* A request is executed once its body is whole, and only for a program that
\* was greeted; its message is not counted before.
LEMMA ExecuteStep ==
  ASSUME IInv, Execute
  PROVE  IInv'
<1>a. PICK c \in Clients : cur = c
  BY DEF IInv, TypeOK
<1>0. /\ TypeOK /\ Reading(c) /\ Framed(c) /\ Formed(c) /\ ClientSide(c) /\ Counted(c)
      /\ c \in Programs => Told(c)
      /\ c \in Clients /\ \A d \in Clients : Inv(d)
  BY DEF IInv, Inv, TypeOK
<1>1. /\ pc = "execute" /\ pc' = "respond" /\ cur' = c
      /\ executed' = [executed EXCEPT ![c] = executed[c] + 1]
      /\ reply' \in {<<DB_ACCESS_RESPONSE, 0, 0>>, <<DB_ACCESS_RESPONSE, 0, 1, 7>>,
                     <<DB_ACCESS_RESPONSE, 1, 0>>}
      /\ UNCHANGED <<version, body, client, result, sentVars, out, closed, chan, back, state,
                     header, buf_size, buf_read>>
  BY <1>a DEF Execute, Respond, clientVars, connVars
<1>2. reply' \in Seq(Nat) /\ reply' # <<>>
  <2>1. ASSUME NEW x \in {<<DB_ACCESS_RESPONSE, 0, 0>>, <<DB_ACCESS_RESPONSE, 0, 1, 7>>,
                          <<DB_ACCESS_RESPONSE, 1, 0>>}
        PROVE  x \in Seq(Nat) /\ x # <<>>
    <3>1. /\ <<DB_ACCESS_RESPONSE, 0, 0>> \in Seq(Nat)
          /\ <<DB_ACCESS_RESPONSE, 0, 0>> # <<>>
      BY DEF DB_ACCESS_RESPONSE
    <3>2. /\ <<DB_ACCESS_RESPONSE, 0, 1, 7>> \in Seq(Nat)
          /\ <<DB_ACCESS_RESPONSE, 0, 1, 7>> # <<>>
      BY DEF DB_ACCESS_RESPONSE
    <3>3. /\ <<DB_ACCESS_RESPONSE, 1, 0>> \in Seq(Nat)
          /\ <<DB_ACCESS_RESPONSE, 1, 0>> # <<>>
      BY DEF DB_ACCESS_RESPONSE
    <3> QED
      BY <3>1, <3>2, <3>3, Zenon
  <2> QED
    BY <1>1, <2>1, Zenon
<1>3. /\ executed' \in [Clients -> Nat] /\ executed'[c] = executed[c] + 1 /\ executed[c] \in Nat
      /\ \A d \in Clients : d # c => executed'[d] = executed[d]
  BY <1>0, <1>1 DEF TypeOK
<1>4. TypeOK'
  <2>1. {msg', out', chan', back', header'} \subseteq Channels
    BY <1>0, <1>1 DEF TypeOK
  <2> QED
    BY <1>0, <1>1, <1>2, <1>3, <2>1 DEF TypeOK, Units
<1>5. ASSUME NEW d \in Clients, d # c PROVE Inv(d)'
  <2>1. Same(d)
    BY <1>1, <1>3, <1>5 DEF Same
  <2>2. ~Busy(d) /\ ~Busy(d)' /\ Up /\ Up'
    BY <1>a, <1>1, <1>5 DEF Busy, Up
  <2> QED
    BY <1>0, <2>1, <2>2, Untouched
<1>6. /\ Executing(c) /\ ~Responding(c) /\ Up /\ Responding(c)' /\ ~Executing(c)' /\ Up'
  BY <1>a, <1>1 DEF Executing, Responding, Up
<1>7. /\ state[c] = "REQUEST" /\ buf_read[c] = buf_size[c] /\ chan[c] = <<>> /\ out[c] = <<>>
      /\ header[c] = <<DB_ACCESS_REQUEST, buf_size[c]>> /\ buf_size[c] > 0
      /\ buf_size[c] \in Nat
  BY <1>0, <1>6, Types DEF Reading
<1>8. Serves(c) /\ Greeted(c) /\ InFlight(c) # <<>>
  BY <1>0, <1>6, <1>7, Awaited DEF Serves, Greeted
<1>9. Reading(c)'
  BY <1>1, <1>2, <1>6, <1>7 DEF Reading
<1>10. InFlight(c)' = InFlight(c) /\ Greeted(c)' = Greeted(c)
  BY <1>1, <1>7 DEF InFlight, BeingRead, Refused, Greeted
<1>11. executed[c] < asked[c] /\ asked[c] \in Nat
  BY <1>0, <1>6, <1>7, <1>8, RequestInFlight DEF Counted, TypeOK
<1>12. Counted(c)'
  BY <1>0, <1>1, <1>3, <1>6, <1>7, <1>8, <1>11 DEF Counted
<1>13. ASSUME c \in Programs
       PROVE  /\ client[c] # "handshake" /\ version[c] = ServerVersion
              /\ client[c] = "answer" => Done(c)'
  <2>1. version[c] = ServerVersion
    BY <1>0, <1>8, <1>13 DEF Told
  <2>2. client[c] # "handshake"
    BY <1>0, <1>3, <1>11, <1>13 DEF Told
  <2>3. ASSUME client[c] = "answer" PROVE Done(c)'
    <3>1. asked[c] <= 1
      BY <1>0, <1>13, <2>3 DEF Told
    <3>2. executed'[c] = 1
      BY <1>3, <1>11, <3>1
    <3>3. msg[c] = Request(body[c]) /\ body[c] \in Nat
      <4>1. body[c] \in 0 .. MaxBody
        BY <1>0, <1>13 DEF TypeOK
      <4> QED
        BY <1>0, <1>8, <1>13, <4>1, SessionAssumption
           DEF Formed, Expected, SessionAssumption
    <3>4. body[c] # 0
      <4>1. BeingRead(c) = header[c] \o Body(buf_read[c])
        BY <1>7 DEF BeingRead, Refused
      <4>2. /\ header[c] \in Seq(Nat) /\ Body(buf_read[c]) \in Seq(Nat)
            /\ Len(header[c]) = 2 /\ Len(Body(buf_read[c])) = buf_read[c]
        <5>1. header[c] \in Seq(Nat) /\ buf_read[c] \in Nat /\ Body(buf_read[c]) \in Seq(Nat)
          BY <1>0, Types
        <5>2. Len(header[c]) = 2
          BY <1>7
        <5>3. Len(Body(buf_read[c])) = buf_read[c]
          BY <5>1 DEF Body
        <5> QED
          BY <5>1, <5>2, <5>3
      <4>3. Len(BeingRead(c)) = 2 + buf_read[c]
        BY <4>1, <4>2, Front
      <4>4. Len(InFlight(c)) <= Len(msg[c])
        BY <1>0, <1>8 DEF Framed, Begins
      <4>5. Len(InFlight(c)) = Len(BeingRead(c))
        <5>1. Len(chan[c]) = 0 /\ Len(out[c]) = 0
          BY <1>7
        <5>2. Len(InFlight(c)) = Len(BeingRead(c)) + Len(chan[c]) + Len(out[c])
          BY <1>0, Flight
        <5>3. Len(BeingRead(c)) \in Nat
          BY <1>0, Flight
        <5> QED
          BY <5>1, <5>2, <5>3
      <4>6. Len(msg[c]) = body[c] + 2
        BY <3>3, MessageParts
      <4> QED
        BY <1>7, <3>3, <4>3, <4>4, <4>5, <4>6
    <3>5. body'[c] = body[c]
      BY <1>1
    <3> QED
      BY <3>2, <3>4, <3>5 DEF Done
  <2> QED
    BY <2>1, <2>2, <2>3
<1>14. Inv(c)'
  <2>1. /\ UNCHANGED <<version, body, client, result, sentVars, out, closed, back>>
        /\ pc' = "respond" /\ cur' = c /\ state'[c] = "REQUEST"
    BY <1>1, <1>7
  <2> QED
    BY <1>0, <1>2, <1>6, <1>8, <1>9, <1>10, <1>12, <1>13, <2>1, Responds
<1> QED
  BY <1>4, <1>5, <1>14 DEF IInv

\* An answer leaves nothing of its request in flight.
LEMMA SendReplyStep ==
  ASSUME IInv, SendReply
  PROVE  IInv'
<1>a. PICK c \in Clients : cur = c
  BY DEF IInv, TypeOK
<1>0. /\ TypeOK /\ Reading(c) /\ Framed(c) /\ Formed(c) /\ ClientSide(c) /\ Counted(c)
      /\ c \in Programs => Told(c)
      /\ c \in Clients /\ \A d \in Clients : Inv(d)
  BY DEF IInv, Inv, TypeOK
<1>1. /\ pc = "respond" /\ reply' = <<>> /\ cur' = c
      /\ UNCHANGED <<version, body, client, result, sentVars, out, chan, executed>>
  BY <1>a DEF SendReply
<1>2. CASE closed[c] \in {"rst", "broken"}
  <2>1. pc' = "exit" /\ UNCHANGED <<back, closed, connVars>>
    BY <1>a, <1>2 DEF SendReply
  <2>2. UNCHANGED <<clientVars, chan, back, connVars, executed, cur>>
    BY <1>a, <1>1, <2>1 DEF clientVars
  <2> QED
    BY <1>1, <2>1, <2>2, Exited
<1>3. CASE closed[c] \notin {"rst", "broken"}
  <2>1. /\ pc' = "poll" /\ UNCHANGED buf_size
        /\ IF closed[c] = "no"
           THEN back' = [back EXCEPT ![c] = back[c] \o reply] /\ UNCHANGED closed
           ELSE closed' = [closed EXCEPT ![c] = "broken"] /\ UNCHANGED back
        /\ IF state[c] = "REQUEST"
           THEN /\ state' = [state EXCEPT ![c] = "INITIALIZED"]
                /\ header' = [header EXCEPT ![c] = <<>>]
                /\ buf_read' = [buf_read EXCEPT ![c] = 0]
           ELSE UNCHANGED <<state, header, buf_read>>
    BY <1>a, <1>3 DEF SendReply, SetState, SetHeader, ResetHeader
  <2>2. /\ Responding(c) /\ ~Responding(c)' /\ ~Executing(c)' /\ Up /\ Up'
    BY <1>a, <1>1, <2>1 DEF Responding, Executing, Up
  <2>3. /\ reply # <<>> /\ chan[c] = <<>> /\ out[c] = <<>> /\ reply \in Seq(Nat)
        /\ \/ state[c] = "UNINITIALIZED" /\ Len(header[c]) \in {0, 2}
           \/ state[c] = "INITIALIZED" /\ header[c] = <<>>
           \/ state[c] = "REQUEST"
    BY <1>0, <2>2 DEF Reading, TypeOK, Units
  <2>4. closed[c] = "no" => client[c] \in {"handshake", "answer"} /\ back[c] = <<>>
    BY <1>0, <2>2 DEF ClientSide
  <2>5. /\ back' \in [Clients -> Seq(Nat)] /\ \A d \in Clients : d # c => back'[d] = back[d]
        /\ closed[c] = "no" => back'[c] = reply
        /\ closed[c] # "no" => back'[c] = back[c]
    <3>1. back \in [Clients -> Seq(Nat)] /\ <<>> \o reply = reply
      BY <1>0, <2>3, EmptyCat DEF TypeOK, Channels, Units
    <3>2. CASE closed[c] = "no"
      <4>1. back' = [back EXCEPT ![c] = reply]
        BY <2>1, <2>4, <3>1, <3>2
      <4> QED
        BY <2>3, <3>1, <3>2, <4>1
    <3>3. CASE closed[c] # "no"
      BY <2>1, <3>1, <3>3
    <3> QED
      BY <3>2, <3>3
  <2>6. /\ closed' \in [Clients -> {"no", "fin", "rst", "broken"}]
        /\ \A d \in Clients : d # c => closed'[d] = closed[d]
        /\ closed'[c] = "no" <=> closed[c] = "no"
    BY <1>0, <2>1 DEF TypeOK
  <2>7. /\ state' \in [Clients -> States] /\ header' \in [Clients -> Seq(Nat)]
        /\ buf_read' \in [Clients -> 0 .. MaxBody]
        /\ \A d \in Clients : d # c => state'[d] = state[d] /\ header'[d] = header[d]
                                         /\ buf_read'[d] = buf_read[d]
        /\ state'[c] = IF state[c] = "REQUEST" THEN "INITIALIZED" ELSE state[c]
        /\ header'[c] = IF state[c] = "REQUEST" THEN <<>> ELSE header[c]
        /\ buf_read'[c] = IF state[c] = "REQUEST" THEN 0 ELSE buf_read[c]
    <3>1. /\ state \in [Clients -> States] /\ header \in [Clients -> Seq(Nat)]
          /\ buf_read \in [Clients -> 0 .. MaxBody]
      BY <1>0 DEF TypeOK, Channels, Units
    <3>2. <<>> \in Seq(Nat)
      OBVIOUS
    <3>3. "INITIALIZED" \in States /\ 0 \in 0 .. MaxBody
      BY SessionAssumption DEF States, SessionAssumption
    <3> QED
      BY <1>0, <2>1, <3>1, <3>2, <3>3
  <2>8. TypeOK'
    <3>1. {msg, out, chan} \subseteq [Clients -> Seq(Nat)]
      BY <1>0 DEF TypeOK, Channels, Units
    <3>2. {msg', out', chan', back', header'} \subseteq Channels
      BY <1>1, <2>5, <2>7, <3>1 DEF Channels, Units
    <3>3. ASSUME NEW d \in Clients PROVE Len(header'[d]) <= 2 /\ buf_read'[d] <= buf_size'[d]
      <4>1. Len(header[d]) <= 2 /\ buf_read[d] <= buf_size[d] /\ 0 <= buf_size[d]
        BY <1>0, Types
      <4>2. header'[d] = header[d] \/ header'[d] = <<>>
        BY <2>7
      <4>3. buf_read'[d] = buf_read[d] \/ buf_read'[d] = 0
        BY <2>7
      <4> QED
        BY <2>1, <4>1, <4>2, <4>3
    <3>4. <<>> \in Seq(Units)
      OBVIOUS
    <3> QED
      BY <1>0, <1>1, <2>1, <2>6, <2>7, <3>2, <3>3, <3>4 DEF TypeOK
  <2>9. ASSUME NEW d \in Clients, d # c PROVE Inv(d)'
    <3>1. Same(d)
      BY <1>1, <2>1, <2>5, <2>6, <2>7, <2>9 DEF Same
    <3>2. ~Busy(d) /\ ~Busy(d)' /\ Up /\ Up'
      BY <1>a, <1>1, <2>1, <2>2, <2>9 DEF Busy
    <3> QED
      BY <1>0, <3>1, <3>2, Untouched
  <2>10. /\ Serves(c) /\ Serves(c)' /\ Greeted(c)' = Greeted(c)
         /\ state'[c] \in {"UNINITIALIZED", "INITIALIZED"}
         /\ state[c] = "UNINITIALIZED" <=> state'[c] = "UNINITIALIZED"
    BY <2>2, <2>3, <2>7 DEF Serves, Greeted
  <2>11. BeingRead(c)' = <<>>
    <3>1. state'[c] = "INITIALIZED" => header'[c] = <<>>
      BY <2>3, <2>7
    <3>2. state'[c] = "UNINITIALIZED" => Len(header'[c]) \in {0, 2}
      BY <2>3, <2>7
    <3>3. header'[c] \in Seq(Nat)
      BY <1>0, <2>7
    <3>4. header'[c] = <<>> \/ Refused(c)'
      BY <2>2, <2>10, <3>1, <3>2, <3>3 DEF Refused
    <3> QED
      BY <2>10, <3>4 DEF BeingRead
  <2>12. InFlight(c)' = <<>>
    BY <1>1, <2>3, <2>11, EmptyCat DEF InFlight
  <2>13. Answer(c)' = back'[c] /\ Answer(c) = reply
    BY <2>2 DEF Answer
  <2>14. Reading(c)'
    BY <2>1, <2>2, <2>10 DEF Reading
  <2>15. Framed(c)'
    <3>1. msg[c] \in Seq(Nat)
      BY <1>0, Types
    <3>2. Begins(InFlight(c), msg[c])'
      BY <1>1, <2>12, <3>1 DEF Begins
    <3>3. closed[c] = "no" => Whole(c)'
      BY <2>2, <2>3, <2>5, <2>12, <2>13 DEF Whole
    <3> QED
      BY <1>1, <2>3, <2>6, <3>2, <3>3 DEF Framed
  <2>16. Formed(c)'
    BY <2>12 DEF Formed
  <2>17. ClientSide(c)'
    BY <1>0, <1>1, <2>2, <2>3, <2>4, <2>5, <2>6, <2>10 DEF ClientSide
  <2>18. Counted(c)'
    BY <1>0, <1>1, <2>10, <2>12 DEF Counted
  <2>19. ASSUME c \in Programs PROVE Told(c)'
    <3>1. closed[c] # "no" => client[c] = "done"
      BY <1>0 DEF ClientSide
    <3>2. client[c] \in {"handshake", "answer"} => Answer(c)' = Answer(c)
      BY <2>5, <2>13, <3>1
    <3>3. state[c] = "INITIALIZED" => state'[c] = "INITIALIZED"
      BY <2>7
    <3>4. Done(c)' = Done(c)
      BY <1>1 DEF Done
    <3>5. Up' = Up
      BY <2>2
    <3> QED
      BY <1>0, <1>1, <2>6, <2>10, <2>12, <2>19, <3>2, <3>3, <3>4 DEF Told, Serves
  <2> QED
    BY <2>8, <2>9, <2>14, <2>15, <2>16, <2>17, <2>18, <2>19 DEF IInv, Inv
<1> QED
  BY <1>2, <1>3

\* A whole header is the front of the message, and all of it if the message
\* is no longer.
LEMMA HeaderWhole ==
  \A h \in Seq(Nat) : Len(h) = 2 =>
    \A a, o, m \in Seq(Nat) : Begins(h \o a \o o, m) =>
      /\ m[1] = h[1] /\ m[2] = h[2]
      /\ Len(m) = 2 => a = <<>> /\ o = <<>>
<1> SUFFICES ASSUME NEW h \in Seq(Nat), Len(h) = 2,
                    NEW a \in Seq(Nat), NEW o \in Seq(Nat), NEW m \in Seq(Nat),
                    Begins(h \o a \o o, m)
             PROVE  /\ m[1] = h[1] /\ m[2] = h[2]
                    /\ Len(m) = 2 => a = <<>> /\ o = <<>>
  OBVIOUS
<1> DEFINE w == h \o a \o o
<1>1. /\ Len(w) = Len(h) + Len(a) + Len(o)
      /\ \A k \in 1 .. Len(h) : w[k] = h[k]
  <2>1. Joined(h, a, o, w)
    BY Parts, Zenon
  <2> QED
    BY <2>1, Zenon DEF Joined
<1>2. Begins(w, m)
  OBVIOUS
<1> HIDE DEF w
<1>3. Len(w) <= Len(m) /\ \A k \in 1 .. Len(w) : w[k] = m[k]
  BY <1>2 DEF Begins
<1>4. Len(a) \in Nat /\ Len(o) \in Nat /\ Len(m) \in Nat
  OBVIOUS
<1>5. 1 \in 1 .. Len(h) /\ 2 \in 1 .. Len(h) /\ 1 \in 1 .. Len(w) /\ 2 \in 1 .. Len(w)
  BY <1>1, <1>4
<1>6. w[1] = h[1] /\ w[2] = h[2]
  BY <1>1, <1>5, Zenon
<1>7. w[1] = m[1] /\ w[2] = m[2]
  BY <1>3, <1>5, Zenon
<1>8. Len(m) = 2 => Len(a) = 0 /\ Len(o) = 0
  BY <1>1, <1>3, <1>4
<1>9. Len(m) = 2 => a = <<>> /\ o = <<>>
  BY <1>8
<1> QED
  BY <1>6, <1>7, <1>9, Zenon

\* The next piece of a header makes h of it.
Reads(c, h) ==
  /\ pc = "poll" /\ state[c] \in {"UNINITIALIZED", "INITIALIZED"}
  /\ \E n \in Pieces(c) : h = header[c] \o SubSeq(chan[c], 1, n) /\ Consume(c, n)
  /\ UNCHANGED <<clientVars, back, executed>>

\* The header of a connection that waits for one, as read so far.
LEMMA HeaderRead ==
  ASSUME IInv, NEW c \in Clients, NEW h, Reads(c, h)
  PROVE  /\ h \in Seq(Nat) /\ Len(h) <= 2
         /\ chan' \in [Clients -> Seq(Nat)] /\ chan'[c] \in Seq(Nat)
         /\ \A d \in Clients : d # c => chan'[d] = chan[d]
         /\ h \o chan'[c] \o out'[c] = InFlight(c) /\ InFlight(c) # <<>>
         /\ Up /\ Serves(c) /\ ~Responding(c) /\ ~Executing(c)
         /\ Expected(c) /\ Begins(InFlight(c), msg[c]) /\ msg[c] \in Seq(Nat)
         /\ client[c] # "start" /\ (closed[c] # "no" => out[c] = <<>>)
         /\ Len(h) = 2 =>
              /\ h[1] \in Nat /\ h[2] \in Nat
              /\ msg[c][1] = h[1] /\ msg[c][2] = h[2]
              /\ Len(msg[c]) = 2 => chan'[c] = <<>> /\ out[c] = <<>>
<1>0. TypeOK /\ Framed(c) /\ Formed(c) /\ ClientSide(c)
  BY DEF IInv, Inv
<1>a. /\ pc = "poll" /\ state[c] \in {"UNINITIALIZED", "INITIALIZED"} /\ UNCHANGED out
  BY DEF Reads, clientVars
<1>b. PICK n \in Pieces(c) : h = header[c] \o SubSeq(chan[c], 1, n) /\ Consume(c, n)
  BY DEF Reads
<1>1. /\ header[c] \in Seq(Nat) /\ Len(header[c]) <= 2 /\ chan[c] \in Seq(Nat)
      /\ out[c] \in Seq(Nat) /\ msg[c] \in Seq(Nat)
  BY <1>0, Types
<1>2. n \in 1 .. Len(chan[c]) /\ n <= 2 - Len(header[c]) /\ Len(header[c]) # 2
  <2>1. n \in 1 .. Asked(c) /\ n <= Len(chan[c])
    BY DEF Pieces
  <2>2. Asked(c) = 2 - Len(header[c])
    BY <1>a DEF Asked
  <2>3. Len(chan[c]) \in Nat /\ Len(header[c]) \in Nat
    BY <1>1
  <2>4. n \in 1 .. 2 - Len(header[c])
    BY <2>1, <2>2, Zenon
  <2>5. \A l \in Nat : n \in 1 .. 2 - l => n \in Nat /\ n >= 1 /\ n <= 2 - l /\ l # 2
    OBVIOUS
  <2>6. n \in Nat /\ n >= 1 /\ n <= 2 - Len(header[c]) /\ Len(header[c]) # 2
    BY <2>3, <2>4, <2>5, Zenon
  <2> QED
    BY <2>1, <2>3, <2>6
<1>3. Up /\ Serves(c) /\ ~Responding(c) /\ ~Executing(c)
  BY <1>a DEF Up, Serves, Responding, Executing
<1>4. BeingRead(c) = header[c]
  BY <1>2, <1>a DEF BeingRead, Refused
<1> DEFINE f == SubSeq(chan[c], 1, n)
<1>5. /\ f \in Seq(Nat) /\ Len(f) = n
      /\ chan' \in [Clients -> Seq(Nat)] /\ chan'[c] \in Seq(Nat)
      /\ Len(chan'[c]) = Len(chan[c]) - n
      /\ \A d \in Clients : d # c => chan'[d] = chan[d]
      /\ (BeingRead(c) \o f) \o chan'[c] \o out[c] = InFlight(c)
  BY <1>0, <1>2, <1>b, Received
<1> HIDE DEF f
<1>6. h \in Seq(Nat) /\ Len(h) = Len(header[c]) + n
  <2>1. h = header[c] \o f
    BY <1>b DEF f
  <2>2. header[c] \o f \in Seq(Nat) /\ Len(header[c] \o f) = Len(header[c]) + Len(f)
    BY <1>1, <1>5, Front
  <2> QED
    BY <1>5, <2>1, <2>2
<1>7. Len(h) <= 2
  BY <1>1, <1>2, <1>6
<1>8. h \o chan'[c] \o out[c] = InFlight(c)
  BY <1>4, <1>5, <1>b DEF f
<1>9. InFlight(c) # <<>>
  <2>1. chan[c] # <<>>
    BY <1>1, <1>2
  <2> QED
    BY <1>0, <2>1, Flight
<1>10. Expected(c) /\ Begins(InFlight(c), msg[c])
  BY <1>0, <1>3, <1>9 DEF Framed, Formed
<1>11. client[c] # "start" /\ (closed[c] # "no" => out[c] = <<>>)
  BY <1>0, <1>a DEF ClientSide, Framed
<1>12. ASSUME Len(h) = 2
       PROVE  /\ h[1] \in Nat /\ h[2] \in Nat
              /\ msg[c][1] = h[1] /\ msg[c][2] = h[2]
              /\ Len(msg[c]) = 2 => chan'[c] = <<>> /\ out[c] = <<>>
  <2>1. Begins(h \o chan'[c] \o out[c], msg[c])
    BY <1>8, <1>10
  <2>2. /\ h \in Seq(Nat) /\ chan'[c] \in Seq(Nat) /\ out[c] \in Seq(Nat)
        /\ msg[c] \in Seq(Nat)
    BY <1>1, <1>5, <1>6
  <2>3. h[1] \in Nat /\ h[2] \in Nat
    <3>1. 1 \in 1 .. Len(h) /\ 2 \in 1 .. Len(h)
      <4>1. 1 \in 1 .. 2 /\ 2 \in 1 .. 2
        OBVIOUS
      <4> QED
        BY <1>12, <4>1, Zenon
    <3> QED
      BY <2>2, <3>1, ElementOfSeq, Zenon
  <2>4. \A a, o, m \in Seq(Nat) : Begins(h \o a \o o, m) =>
          /\ m[1] = h[1] /\ m[2] = h[2]
          /\ Len(m) = 2 => a = <<>> /\ o = <<>>
    BY <1>12, <2>2, HeaderWhole, Zenon
  <2> QED
    BY <2>1, <2>2, <2>3, <2>4, Zenon
<1> QED
  BY <1>a, <1>1, <1>3, <1>5, <1>6, <1>7, <1>8, <1>9, <1>10, <1>11, <1>12

\* Only the connection that is read changes.
LEMMA HeaderFrame ==
  ASSUME IInv, NEW c \in Clients, pc = "poll",
         UNCHANGED <<clientVars, back, executed>>,
         chan' \in [Clients -> Seq(Nat)],
         header' \in [Clients -> Seq(Nat)], Len(header'[c]) <= 2,
         state' \in [Clients -> States],
         buf_size' \in [Clients -> 0 .. MaxBody], buf_read' \in [Clients -> 0 .. MaxBody],
         buf_read'[c] <= buf_size'[c],
         \A d \in Clients : d # c =>
           /\ chan'[d] = chan[d] /\ header'[d] = header[d] /\ state'[d] = state[d]
           /\ buf_size'[d] = buf_size[d] /\ buf_read'[d] = buf_read[d],
         pc' \in {"poll", "body", "respond"}, reply' \in Seq(Nat),
         UNCHANGED <<pc, cur, reply>> \/ cur' = c,
         Inv(c)'
  PROVE  IInv'
<1>0. TypeOK /\ \A d \in Clients : Inv(d)
  BY DEF IInv
<1>1. UNCHANGED <<version, body, client, result, sentVars, out, closed, back, executed>>
  BY DEF clientVars
<1>2. TypeOK'
  <2>1. {msg, out, back} \subseteq [Clients -> Seq(Nat)]
    BY <1>0 DEF TypeOK, Channels, Units
  <2>2. {msg', out', chan', back', header'} \subseteq Channels
    BY <1>1, <2>1 DEF Channels, Units
  <2>3. \A d \in Clients : Len(header'[d]) <= 2 /\ buf_read'[d] <= buf_size'[d]
    BY <1>0 DEF TypeOK
  <2>4. cur' \in Clients /\ reply' \in Seq(Units)
    BY <1>0 DEF TypeOK, Units
  <2> QED
    BY <1>0, <1>1, <2>2, <2>3, <2>4 DEF TypeOK
<1>3. ASSUME NEW d \in Clients, d # c PROVE Inv(d)'
  <2>1. Same(d)
    BY <1>1, <1>3 DEF Same
  <2>2. UNCHANGED <<pc, cur, reply>> \/ (~Busy(d) /\ ~Busy(d)' /\ Up /\ Up')
    BY <1>3 DEF Busy, Up
  <2> QED
    BY <1>0, <2>1, <2>2, Untouched
<1> QED
  BY <1>2, <1>3 DEF IInv

\* A header that is not whole yet.
LEMMA HeaderPart ==
  ASSUME IInv, NEW c \in Clients, NEW h, Reads(c, h), Len(h) # 2,
         SetHeader(c, h), UNCHANGED <<state, buf_size, buf_read, pc, cur, reply>>
  PROVE  IInv'
<1>0. TypeOK /\ Inv(c)
  BY DEF IInv
<1>1. /\ pc = "poll" /\ state[c] \in {"UNINITIALIZED", "INITIALIZED"}
      /\ UNCHANGED <<version, body, client, result, sentVars, out, closed, back, executed>>
      /\ UNCHANGED <<clientVars, back, executed>>
  BY DEF Reads, clientVars
<1>2. /\ h \in Seq(Nat) /\ Len(h) <= 2
      /\ chan' \in [Clients -> Seq(Nat)] /\ chan'[c] \in Seq(Nat)
      /\ \A d \in Clients : d # c => chan'[d] = chan[d]
      /\ h \o chan'[c] \o out'[c] = InFlight(c)
      /\ Up /\ Serves(c) /\ ~Responding(c) /\ ~Executing(c)
      /\ client[c] # "start" /\ (closed[c] # "no" => out[c] = <<>>)
  BY HeaderRead
<1>3. /\ header' \in [Clients -> Seq(Nat)] /\ header'[c] = h
      /\ \A d \in Clients : d # c => header'[d] = header[d]
  <2>1. header \in [Clients -> Seq(Nat)]
    BY <1>0 DEF TypeOK, Channels, Units
  <2> QED
    BY <1>2, <2>1 DEF SetHeader
<1>4. /\ Up' = Up /\ Serves(c)' = Serves(c) /\ Greeted(c)' = Greeted(c)
      /\ Responding(c)' = Responding(c) /\ Executing(c)' = Executing(c)
  BY <1>1 DEF Up, Serves, Greeted, Responding, Executing
<1>5. InFlight(c)' = InFlight(c)
  <2>1. BeingRead(c)' = h
    BY <1>1, <1>3 DEF BeingRead, Refused
  <2> QED
    BY <1>2, <2>1 DEF InFlight
<1>6. Answer(c)' = Answer(c)
  BY <1>1, <1>4 DEF Answer
<1>7. Reading(c)'
  BY <1>1, <1>2, <1>4 DEF Reading
<1>8. Inv(c)'
  BY <1>0, <1>1, <1>2, <1>4, <1>5, <1>6, <1>7, Continues
<1>9. /\ state' \in [Clients -> States] /\ buf_size' \in [Clients -> 0 .. MaxBody]
      /\ buf_read' \in [Clients -> 0 .. MaxBody] /\ buf_read'[c] <= buf_size'[c]
      /\ reply' \in Seq(Nat) /\ pc' \in {"poll", "body", "respond"}
      /\ Len(header'[c]) <= 2
  BY <1>0, <1>1, <1>2, <1>3 DEF TypeOK, Units
<1> QED
  BY <1>1, <1>2, <1>3, <1>8, <1>9, HeaderFrame

\* The first message of a connection: only a matching version greets it, and a
\* program is told what was decided.
LEMMA HandshakeRead ==
  ASSUME IInv, NEW c \in Clients, NEW h, Reads(c, h), Len(h) = 2,
         state[c] = "UNINITIALIZED", handle_uninitialized_client(c, h),
         UNCHANGED <<buf_size, buf_read>>
  PROVE  IInv'
<1>0. /\ TypeOK /\ Reading(c) /\ Counted(c) /\ ClientSide(c)
      /\ c \in Programs => Told(c)
  BY DEF IInv, Inv
<1>1. /\ pc = "poll"
      /\ UNCHANGED <<version, body, client, result, sentVars, out, closed, back, executed>>
      /\ UNCHANGED <<clientVars, back, executed>>
  BY DEF Reads, clientVars
<1>2. /\ h \in Seq(Nat)
      /\ chan' \in [Clients -> Seq(Nat)] /\ chan'[c] \in Seq(Nat)
      /\ \A d \in Clients : d # c => chan'[d] = chan[d]
      /\ h \o chan'[c] \o out'[c] = InFlight(c) /\ InFlight(c) # <<>>
      /\ Up /\ Serves(c) /\ ~Responding(c) /\ Expected(c) /\ msg[c] \in Seq(Nat)
      /\ msg[c][1] = h[1] /\ msg[c][2] = h[2]
      /\ Len(msg[c]) = 2 => chan'[c] = <<>> /\ out[c] = <<>>
  BY HeaderRead
<1>3. /\ Len(msg[c]) = 2 /\ ~Greeted(c)
      /\ c \in Programs => h[1] = HANDSHAKE_REQUEST /\ h[2] = version[c]
  <2>1. ~Greeted(c)
    BY DEF Greeted
  <2>2. Len(msg[c]) = 2 /\ (c \in Programs => msg[c] = Handshake(version[c]))
    BY <1>2, <2>1 DEF Expected
  <2>3. c \in Programs => version[c] \in Nat
    BY <1>0, SessionAssumption DEF TypeOK, SessionAssumption
  <2> QED
    BY <1>2, <2>1, <2>2, <2>3, MessageParts
<1>4. chan'[c] = <<>> /\ out'[c] = <<>> /\ out[c] = <<>>
  BY <1>1, <1>2, <1>3
<1>5. h = InFlight(c)
  BY <1>2, <1>4, EmptyCat
<1>6. /\ pc' = "respond" /\ cur' = c
      /\ reply' \in {<<INVALID_REQUEST>>, <<HANDSHAKE_RESPONSE, 0>>, <<HANDSHAKE_RESPONSE, 1>>}
      /\ \/ state' = state /\ header' = [header EXCEPT ![c] = <<>>]
            /\ h[1] # HANDSHAKE_REQUEST
         \/ state' = state /\ header' = [header EXCEPT ![c] = h]
            /\ reply' = <<HANDSHAKE_RESPONSE, 1>>
         \/ /\ state' = [state EXCEPT ![c] = "INITIALIZED"]
            /\ header' = [header EXCEPT ![c] = <<>>]
            /\ h[1] = HANDSHAKE_REQUEST /\ h[2] = ServerVersion
            /\ reply' = <<HANDSHAKE_RESPONSE, 0>>
  BY DEF handle_uninitialized_client, Respond, SetHeader, SetState, ResetHeader,
         MatchingVersion
<1>7. reply' \in Seq(Nat) /\ reply' # <<>> /\ Len(reply') <= 2
  <2>1. <<INVALID_REQUEST>> \in Seq(Nat) /\ <<INVALID_REQUEST>> # <<>>
        /\ Len(<<INVALID_REQUEST>>) <= 2
    BY DEF INVALID_REQUEST
  <2>2. ASSUME NEW x \in {0, 1}
        PROVE  /\ <<HANDSHAKE_RESPONSE, x>> \in Seq(Nat) /\ <<HANDSHAKE_RESPONSE, x>> # <<>>
               /\ Len(<<HANDSHAKE_RESPONSE, x>>) <= 2
    BY DEF HANDSHAKE_RESPONSE
  <2>3. 0 \in {0, 1} /\ 1 \in {0, 1}
    OBVIOUS
  <2> QED
    BY <1>6, <2>1, <2>2, <2>3, Zenon
<1>8. /\ state' \in [Clients -> States] /\ header' \in [Clients -> Seq(Nat)]
      /\ \A d \in Clients : d # c => header'[d] = header[d] /\ state'[d] = state[d]
      /\ \/ state'[c] = "UNINITIALIZED" /\ header'[c] = <<>> /\ h[1] # HANDSHAKE_REQUEST
         \/ state'[c] = "UNINITIALIZED" /\ header'[c] = h
            /\ reply' = <<HANDSHAKE_RESPONSE, 1>>
         \/ state'[c] = "INITIALIZED" /\ header'[c] = <<>>
            /\ h[1] = HANDSHAKE_REQUEST /\ h[2] = ServerVersion
            /\ reply' = <<HANDSHAKE_RESPONSE, 0>>
  <2>1. /\ header \in [Clients -> Seq(Nat)] /\ state \in [Clients -> States]
        /\ "INITIALIZED" \in States
    BY <1>0 DEF TypeOK, Channels, Units, States
  <2>2. <<>> \in Seq(Nat)
    OBVIOUS
  <2> QED
    BY <1>2, <1>6, <2>1, <2>2
<1>9. /\ Up' /\ Responding(c)' /\ ~Executing(c)'
  BY <1>6 DEF Up, Responding, Executing
<1>10. Len(header'[c]) \in {0, 2}
  BY <1>8
<1>11. Reading(c)'
  BY <1>4, <1>6, <1>7, <1>8, <1>9, <1>10 DEF Reading
<1>12. BeingRead(c)' = header'[c]
  BY <1>8, <1>9 DEF BeingRead, Refused
<1>13. InFlight(c)' = header'[c]
  <2>1. header'[c] \in Seq(Nat)
    BY <1>8
  <2> QED
    BY <1>4, <1>12, <2>1, EmptyCat DEF InFlight
<1>14. InFlight(c)' = <<>> \/ (InFlight(c)' = InFlight(c) /\ Greeted(c)' = Greeted(c))
  <2>1. header'[c] = <<>> \/ (header'[c] = h /\ state'[c] = "UNINITIALIZED")
    BY <1>8
  <2>2. state'[c] = "UNINITIALIZED" => Greeted(c)' = Greeted(c)
    BY DEF Greeted
  <2>3. CASE header'[c] = <<>>
    BY <1>13, <2>3, Zenon
  <2>4. CASE header'[c] = h /\ state'[c] = "UNINITIALIZED"
    <3>1. InFlight(c)' = InFlight(c)
      BY <1>5, <1>13, <2>4, Zenon
    <3> QED
      BY <2>2, <2>4, <3>1, Zenon
  <2> QED
    BY <2>1, <2>3, <2>4, Zenon
<1>15. /\ executed[c] = 0 /\ asked[c] \in Nat
       /\ msg[c] = Handshake(ServerVersion) => c \in offered
       /\ h[1] = HANDSHAKE_REQUEST /\ h[2] = ServerVersion =>
            msg[c] = Handshake(ServerVersion)
  <2>1. executed[c] = 0 /\ (msg[c] = Handshake(ServerVersion) => c \in offered)
    BY <1>0 DEF Counted
  <2>2. ASSUME h[1] = HANDSHAKE_REQUEST, h[2] = ServerVersion
        PROVE  msg[c] = Handshake(ServerVersion)
    <3>1. ServerVersion \in Nat
      BY SessionAssumption DEF SessionAssumption
    <3>2. /\ msg[c] \in Seq(Nat) /\ Len(msg[c]) = 2
          /\ msg[c][1] = HANDSHAKE_REQUEST /\ msg[c][2] = ServerVersion
      BY <1>2, <1>3, <2>2
    <3> QED
      BY <3>1, <3>2 DEF Handshake, HANDSHAKE_REQUEST
  <2> QED
    BY <1>0, <2>1, <2>2 DEF TypeOK
<1>16. Counted(c)'
  BY <1>1, <1>8, <1>9, <1>15 DEF Counted, Greeted
<1>17. ASSUME c \in Programs
       PROVE  /\ reply' \in {<<HANDSHAKE_RESPONSE, 0>>, <<HANDSHAKE_RESPONSE, 1>>}
              /\ reply' = <<HANDSHAKE_RESPONSE, 0>> => state'[c] = "INITIALIZED"
              /\ Greeted(c)' \/ executed'[c] > 0 => version[c] = ServerVersion
  <2>1. <<HANDSHAKE_RESPONSE, 1>> # <<HANDSHAKE_RESPONSE, 0>>
    OBVIOUS
  <2>2. \/ state'[c] = "UNINITIALIZED" /\ reply' = <<HANDSHAKE_RESPONSE, 1>>
        \/ state'[c] = "INITIALIZED" /\ h[2] = ServerVersion
           /\ reply' = <<HANDSHAKE_RESPONSE, 0>>
    BY <1>3, <1>8, <1>17
  <2> QED
    BY <1>1, <1>3, <1>15, <1>17, <2>1, <2>2 DEF Greeted
<1>18. Inv(c)'
  <2>1. state'[c] \in {"UNINITIALIZED", "INITIALIZED", "REQUEST"} /\ ~(Len(reply') >= 3)
    BY <1>7, <1>8
  <2> QED
    BY <1>1, <1>2, <1>6, <1>7, <1>11, <1>14, <1>16, <1>17, <2>1, Responds
<1>19. /\ buf_size' \in [Clients -> 0 .. MaxBody] /\ buf_read' \in [Clients -> 0 .. MaxBody]
       /\ buf_read'[c] <= buf_size'[c] /\ Len(header'[c]) <= 2
  <2>1. 0 <= 2 /\ 2 <= 2
    OBVIOUS
  <2>2. Len(header'[c]) = 0 \/ Len(header'[c]) = 2
    BY <1>10, Zenon
  <2>3. Len(header'[c]) <= 2
    BY <2>1, <2>2, Zenon
  <2> QED
    BY <1>0, <2>3 DEF TypeOK
<1> QED
  BY <1>1, <1>2, <1>6, <1>7, <1>8, <1>18, <1>19, HeaderFrame

\* The header of a request: one of the wrong type, an empty one, and one whose
\* body is to come.
LEMMA RequestRead ==
  ASSUME IInv, NEW c \in Clients, NEW h, Reads(c, h), Len(h) = 2,
         state[c] = "INITIALIZED", handle_initialized_client(c, h)
  PROVE  IInv'
<1>0. /\ TypeOK /\ Reading(c) /\ Counted(c) /\ ClientSide(c) /\ Inv(c)
      /\ c \in Programs => Told(c)
  BY DEF IInv, Inv
<1>1. /\ pc = "poll"
      /\ UNCHANGED <<version, body, client, result, sentVars, out, closed, back, executed>>
      /\ UNCHANGED <<clientVars, back, executed>>
  BY DEF Reads, clientVars
<1>2. /\ h \in Seq(Nat)
      /\ chan' \in [Clients -> Seq(Nat)] /\ chan'[c] \in Seq(Nat)
      /\ \A d \in Clients : d # c => chan'[d] = chan[d]
      /\ h \o chan'[c] \o out'[c] = InFlight(c) /\ InFlight(c) # <<>>
      /\ Up /\ Serves(c) /\ ~Responding(c) /\ ~Executing(c)
      /\ Expected(c) /\ msg[c] \in Seq(Nat)
      /\ client[c] # "start" /\ (closed[c] # "no" => out[c] = <<>>)
      /\ h[1] \in Nat /\ h[2] \in Nat
      /\ msg[c][1] = h[1] /\ msg[c][2] = h[2]
      /\ Len(msg[c]) = 2 => chan'[c] = <<>> /\ out[c] = <<>>
  BY HeaderRead
<1>3. /\ header \in [Clients -> Seq(Nat)] /\ state \in [Clients -> States]
      /\ buf_size \in [Clients -> 0 .. MaxBody] /\ buf_read \in [Clients -> 0 .. MaxBody]
      /\ buf_read[c] <= buf_size[c] /\ reply \in Seq(Nat) /\ MaxBody \in Nat
      /\ 0 \in 0 .. MaxBody
  <2>1. /\ header \in [Clients -> Seq(Nat)] /\ state \in [Clients -> States]
        /\ buf_size \in [Clients -> 0 .. MaxBody] /\ buf_read \in [Clients -> 0 .. MaxBody]
        /\ buf_read[c] <= buf_size[c] /\ reply \in Seq(Nat)
    BY <1>0 DEF TypeOK, Channels, Units
  <2>2. MaxBody \in Nat
    BY SessionAssumption DEF SessionAssumption
  <2>3. 0 \in 0 .. MaxBody
    BY <2>2
  <2> QED
    BY <2>1, <2>2, <2>3
<1>4. Greeted(c)
  BY DEF Greeted
<1>5. /\ executed[c] \in Nat /\ asked[c] \in Nat
      /\ executed[c] <= asked[c] /\ (Asks(msg[c]) => executed[c] < asked[c])
  BY <1>0, <1>2, <1>4 DEF Counted, TypeOK
<1>6. c \in Programs =>
        /\ client[c] # "handshake" /\ version[c] = ServerVersion
        /\ msg[c] = Request(body[c]) /\ body[c] \in Nat
        /\ client[c] = "answer" => executed[c] = 0
  <2>1. SUFFICES ASSUME c \in Programs
                 PROVE  /\ client[c] # "handshake" /\ version[c] = ServerVersion
                        /\ msg[c] = Request(body[c]) /\ body[c] \in Nat
                        /\ client[c] = "answer" => executed[c] = 0
    OBVIOUS
  <2>3. version[c] = ServerVersion
    BY <1>0, <1>4, <2>1 DEF Told
  <2>4. msg[c] = Request(body[c])
    BY <1>2, <1>4, <2>1 DEF Expected
  <2>5. body[c] \in Nat
    <3>1. body[c] \in 0 .. MaxBody
      BY <1>0, <2>1 DEF TypeOK
    <3> QED
      BY <1>3, <3>1
  <2>6. msg[c][1] = DB_ACCESS_REQUEST /\ msg[c][2] = body[c]
    BY <2>4, <2>5, MessageParts
  <2>7. client[c] # "handshake"
    <3>1. version[c] \in Nat
      BY <1>0, <2>1, SessionAssumption DEF TypeOK, SessionAssumption
    <3>2. Handshake(version[c])[1] = HANDSHAKE_REQUEST
      BY <3>1, MessageParts
    <3> QED
      BY <1>0, <2>1, <2>6, <3>2 DEF Told, DB_ACCESS_REQUEST, HANDSHAKE_REQUEST
  <2>8. ASSUME client[c] = "answer" PROVE executed[c] = 0
    <3>1. asked[c] <= 1 /\ (body[c] = 0 => asked[c] = 0)
      BY <1>0, <2>1, <2>8 DEF Told
    <3>2. body[c] > 0 => Asks(msg[c])
      BY <2>6 DEF Asks
    <3> QED
      BY <1>5, <2>5, <3>1, <3>2
  <2> QED
    BY <2>3, <2>4, <2>5, <2>7, <2>8
<1>7. \/ msg[c] = <<HANDSHAKE_REQUEST, 0>> /\ Len(msg[c]) = 2 /\ h[1] = HANDSHAKE_REQUEST
         /\ c \notin Programs
      \/ /\ h[1] = DB_ACCESS_REQUEST /\ h[2] \in 0 .. MaxBody
         /\ Len(msg[c]) = h[2] + 2
         /\ c \in Programs => h[2] = body[c]
  <2>1. msg[c] \in {Request(n) : n \in 0 .. MaxBody} \cup {<<HANDSHAKE_REQUEST, 0>>}
    BY <1>2, <1>4 DEF Expected
  <2>2. CASE msg[c] = <<HANDSHAKE_REQUEST, 0>>
    <3>1. Len(msg[c]) = 2 /\ msg[c][1] = HANDSHAKE_REQUEST
      BY <2>2
    <3>2. c \in Programs => msg[c][1] = DB_ACCESS_REQUEST
      BY <1>6, MessageParts
    <3> QED
      BY <1>2, <2>2, <3>1, <3>2 DEF HANDSHAKE_REQUEST, DB_ACCESS_REQUEST
  <2>3. CASE msg[c] \in {Request(n) : n \in 0 .. MaxBody}
    <3>1. PICK n \in 0 .. MaxBody : msg[c] = Request(n)
      BY <2>3
    <3>2. n \in Nat
      BY <1>3
    <3>3. msg[c][1] = DB_ACCESS_REQUEST /\ msg[c][2] = n /\ Len(msg[c]) = n + 2
      BY <3>1, <3>2, MessageParts
    <3>4. c \in Programs => msg[c][2] = body[c]
      BY <1>6, MessageParts
    <3> QED
      BY <1>2, <3>3, <3>4
  <2> QED
    BY <2>1, <2>2, <2>3
<1>8. CASE /\ h[1] # DB_ACCESS_REQUEST \/ EmptyRequest(h[2])
           /\ pc' = "respond" /\ cur' = c
           /\ h[1] # DB_ACCESS_REQUEST => reply' = <<INVALID_REQUEST>>
           /\ h[1] = DB_ACCESS_REQUEST => reply' = <<DB_ACCESS_RESPONSE, 0, 0>>
           /\ SetHeader(c, <<>>)
           /\ UNCHANGED <<state, buf_size, buf_read>>
  <2>1. chan'[c] = <<>> /\ out[c] = <<>> /\ out'[c] = <<>>
    <3>1. CASE Len(msg[c]) = 2
      BY <1>1, <1>2, <3>1
    <3>2. CASE h[1] = DB_ACCESS_REQUEST /\ Len(msg[c]) = h[2] + 2
      <4>1. EmptyRequest(h[2])
        BY <1>8, <3>2
      <4>2. h[2] = 0
        BY <4>1 DEF EmptyRequest
      <4>3. Len(msg[c]) = 2
        BY <3>2, <4>2
      <4> QED
        BY <1>1, <1>2, <4>3
    <3> QED
      BY <1>7, <3>1, <3>2
  <2>2. reply' \in Seq(Nat) /\ reply' # <<>>
    <3>1. <<INVALID_REQUEST>> \in Seq(Nat) /\ <<INVALID_REQUEST>> # <<>>
      BY DEF INVALID_REQUEST
    <3>2. /\ <<DB_ACCESS_RESPONSE, 0, 0>> \in Seq(Nat)
          /\ <<DB_ACCESS_RESPONSE, 0, 0>> # <<>>
      BY DEF DB_ACCESS_RESPONSE
    <3> QED
      BY <1>8, <3>1, <3>2, Zenon
  <2>3. /\ header' \in [Clients -> Seq(Nat)] /\ header'[c] = <<>>
        /\ \A d \in Clients : d # c => header'[d] = header[d]
    <3>1. <<>> \in Seq(Nat)
      OBVIOUS
    <3> QED
      BY <1>3, <1>8, <3>1 DEF SetHeader
  <2>4. /\ Up' /\ Responding(c)' /\ ~Executing(c)'
    BY <1>8 DEF Up, Responding, Executing
  <2>5. Reading(c)'
    BY <1>8, <2>1, <2>2, <2>3, <2>4 DEF Reading
  <2>6. InFlight(c)' = <<>>
    BY <1>8, <2>1, <2>3, EmptyCat DEF InFlight, BeingRead, Refused
  <2>7. Counted(c)'
    BY <1>0, <1>1, <1>8, <2>4, <1>4, <1>5 DEF Counted, Greeted
  <2>8. ASSUME c \in Programs
        PROVE  /\ client[c] = "answer" => Done(c)'
               /\ client[c] # "handshake" /\ version[c] = ServerVersion
    <3>1. h[2] = 0 /\ body[c] = 0
      BY <1>7, <1>8, <2>8 DEF EmptyRequest
    <3> QED
      BY <1>1, <1>6, <2>8, <3>1 DEF Done
  <2>9. Inv(c)'
    <3>1. /\ UNCHANGED <<version, body, client, result, sentVars, out, closed, back>>
          /\ pc' = "respond" /\ cur' = c
          /\ state'[c] \in {"UNINITIALIZED", "INITIALIZED", "REQUEST"}
      BY <1>1, <1>8
    <3>2. c \in Programs =>
            /\ client[c] = "handshake" =>
                 /\ reply' \in {<<HANDSHAKE_RESPONSE, 0>>, <<HANDSHAKE_RESPONSE, 1>>}
                 /\ reply' = <<HANDSHAKE_RESPONSE, 0>> => state'[c] = "INITIALIZED"
            /\ client[c] = "answer" => (Len(reply') >= 3 /\ reply'[2] = 0 => Done(c)')
            /\ Greeted(c)' \/ executed'[c] > 0 => version[c] = ServerVersion
      BY <2>8, Zenon
    <3> QED
      BY <1>2, <2>2, <2>5, <2>6, <2>7, <3>1, <3>2, Responds
  <2>10. Len(header'[c]) <= 2
    BY <2>3
  <2> QED
    BY <1>1, <1>2, <1>3, <1>8, <2>2, <2>3, <2>9, <2>10, HeaderFrame
<1>9. CASE /\ h[1] = DB_ACCESS_REQUEST /\ ~EmptyRequest(h[2])
           /\ SetHeader(c, h) /\ SetState(c, "REQUEST")
           /\ buf_size' = [buf_size EXCEPT ![c] = h[2]]
           /\ buf_read' = [buf_read EXCEPT ![c] = 0]
           /\ pc' = "body" /\ cur' = c /\ UNCHANGED reply
  <2>1. h[2] \in 0 .. MaxBody /\ h[2] > 0
    BY <1>2, <1>7, <1>9 DEF EmptyRequest, HANDSHAKE_REQUEST, DB_ACCESS_REQUEST
  <2>2. /\ header' \in [Clients -> Seq(Nat)] /\ header'[c] = h
        /\ state' \in [Clients -> States] /\ state'[c] = "REQUEST"
        /\ buf_size' \in [Clients -> 0 .. MaxBody] /\ buf_size'[c] = h[2]
        /\ buf_read' \in [Clients -> 0 .. MaxBody] /\ buf_read'[c] = 0
        /\ \A d \in Clients : d # c =>
             /\ header'[d] = header[d] /\ state'[d] = state[d]
             /\ buf_size'[d] = buf_size[d] /\ buf_read'[d] = buf_read[d]
    <3>1. "REQUEST" \in States
      BY DEF States
    <3> QED
      BY <1>2, <1>3, <1>9, <2>1, <3>1 DEF SetHeader, SetState
  <2>3. /\ Up' = Up /\ Serves(c)' = Serves(c) /\ Greeted(c)' = Greeted(c)
        /\ Responding(c)' = Responding(c) /\ ~Responding(c)' /\ ~Executing(c)'
    BY <1>1, <1>9, <2>2 DEF Up, Serves, Greeted, Responding, Executing
  <2>4. h = <<DB_ACCESS_REQUEST, h[2]>>
    BY <1>2, <1>9
  <2>5. Reading(c)'
    BY <1>9, <2>1, <2>2, <2>3, <2>4 DEF Reading
  <2>6. InFlight(c)' = InFlight(c)
    <3>1. BeingRead(c)' = h \o Body(0)
      BY <2>2 DEF BeingRead, Refused
    <3>2. h \o Body(0) = h
      BY <1>2, EmptyCat, MessageParts
    <3> QED
      BY <1>2, <3>1, <3>2 DEF InFlight
  <2>7. Answer(c)' = Answer(c)
    BY <1>1, <1>2, <2>3 DEF Answer
  <2>8. /\ client'[c] = client[c] /\ result'[c] = result[c] /\ closed'[c] = closed[c]
        /\ msgs'[c] = msgs[c] /\ msg'[c] = msg[c]
        /\ (c \in offered') = (c \in offered) /\ asked'[c] = asked[c]
        /\ back'[c] = back[c]
        /\ executed'[c] = executed[c] /\ UNCHANGED <<version, body>>
        /\ closed[c] # "no" => out'[c] = <<>>
        /\ state'[c] \notin {"none", "lost", "UNINITIALIZED"}
        /\ ~(c \in Programs /\ client[c] = "handshake")
    BY <1>1, <1>2, <1>6, <2>2
  <2>9. Inv(c)'
    BY <1>0, <1>2, <2>3, <2>5, <2>6, <2>7, <2>8, Continues
  <2>10. Len(header'[c]) <= 2 /\ buf_read'[c] <= buf_size'[c]
    <3>1. 2 <= 2 /\ 0 <= h[2]
      BY <1>2
    <3> QED
      BY <2>2, <3>1, Zenon
  <2> QED
    BY <1>1, <1>2, <1>3, <1>9, <2>2, <2>9, <2>10, HeaderFrame
<1> QED
  BY <1>8, <1>9 DEF handle_initialized_client, Respond, ResetHeader

LEMMA ReceiveHeaderStep ==
  ASSUME IInv, NEW c \in Clients, ReceiveHeader(c)
  PROVE  IInv'
<1>1. PICK n \in Pieces(c) :
        /\ Consume(c, n)
        /\ \/ /\ Len(header[c] \o SubSeq(chan[c], 1, n)) # 2
              /\ SetHeader(c, header[c] \o SubSeq(chan[c], 1, n))
              /\ UNCHANGED <<state, buf_size, buf_read, pc, cur, reply>>
           \/ /\ Len(header[c] \o SubSeq(chan[c], 1, n)) = 2 /\ state[c] = "UNINITIALIZED"
              /\ handle_uninitialized_client(c, header[c] \o SubSeq(chan[c], 1, n))
              /\ UNCHANGED <<buf_size, buf_read>>
           \/ /\ Len(header[c] \o SubSeq(chan[c], 1, n)) = 2 /\ state[c] = "INITIALIZED"
              /\ handle_initialized_client(c, header[c] \o SubSeq(chan[c], 1, n))
  BY DEF ReceiveHeader
<1> DEFINE h == header[c] \o SubSeq(chan[c], 1, n)
<1>2. Reads(c, h)
  BY <1>1 DEF ReceiveHeader, Reads
<1> HIDE DEF h
<1>3. \/ Len(h) # 2 /\ SetHeader(c, h)
         /\ UNCHANGED <<state, buf_size, buf_read, pc, cur, reply>>
      \/ Len(h) = 2 /\ state[c] = "UNINITIALIZED" /\ handle_uninitialized_client(c, h)
         /\ UNCHANGED <<buf_size, buf_read>>
      \/ Len(h) = 2 /\ state[c] = "INITIALIZED" /\ handle_initialized_client(c, h)
  BY <1>1 DEF h
<1> QED
  BY <1>2, <1>3, HeaderPart, HandshakeRead, RequestRead

-----------------------------------------------------------------------------
(* The invariant, and what it is for. *)

LEMMA InitOK ==
  Init => IInv
<1> SUFFICES ASSUME Init PROVE IInv
  OBVIOUS
<1>1. cur \in Clients
  BY SessionAssumption DEF Init, SessionAssumption
<1>2. <<>> \in Seq(Nat) /\ Len(<<>>) = 0
  OBVIOUS
<1>3. MaxBody \in Nat /\ 0 \in 0 .. MaxBody
  BY SessionAssumption DEF SessionAssumption
<1>4. TypeOK
  <2>1. {msg, out, chan, back, header} \subseteq Channels
    BY <1>2 DEF Init, Channels, Units
  <2>2. /\ buf_size \in [Clients -> 0 .. MaxBody]
        /\ buf_read \in [Clients -> 0 .. MaxBody]
    BY <1>3 DEF Init
  <2>3. \A c \in Clients : Len(header[c]) <= 2 /\ buf_read[c] <= buf_size[c]
    BY <1>2 DEF Init
  <2> QED
    BY <1>1, <1>2, <2>1, <2>2, <2>3 DEF Init, TypeOK, States, Units
<1>5. ASSUME NEW c \in Clients PROVE Inv(c)
  <2>1. /\ client[c] = "start" /\ result[c] = "none" /\ asked[c] = 0 /\ msg[c] = <<>>
        /\ out[c] = <<>> /\ chan[c] = <<>> /\ back[c] = <<>> /\ closed[c] = "no"
        /\ state[c] = "none" /\ header[c] = <<>> /\ executed[c] = 0 /\ pc = "poll"
    BY DEF Init
  <2>2. ~Responding(c) /\ ~Executing(c) /\ ~Greeted(c)
    BY <2>1 DEF Responding, Executing, Greeted
  <2>3. InFlight(c) = <<>>
    <3>1. BeingRead(c) = <<>>
      BY <2>1 DEF BeingRead, Refused
    <3> QED
      BY <1>2, <2>1, <3>1, EmptyCat DEF InFlight
  <2>4. Reading(c)
    BY <2>1, <2>2 DEF Reading
  <2>5. Framed(c)
    <3>1. Whole(c)
      BY <2>1, <2>2, <2>3 DEF Whole
    <3>2. Begins(<<>>, <<>>)
      BY <1>2 DEF Begins
    <3> QED
      BY <2>1, <2>3, <3>1, <3>2 DEF Framed
  <2>6. Formed(c)
    BY <2>3 DEF Formed
  <2>7. ClientSide(c)
    BY <2>1, <2>2 DEF ClientSide
  <2>8. Counted(c)
    <3> DEFINE h == Handshake(ServerVersion)
    <3>1. Len(h) = 2
      BY DEF Handshake
    <3> HIDE DEF h
    <3>2. msg[c] # h
      BY <2>1, <3>1
    <3> USE DEF h
    <3> QED
      BY <2>1, <2>2, <3>2 DEF Counted
  <2>9. Told(c)
    BY <2>1, <2>2 DEF Told
  <2> QED
    BY <2>4, <2>5, <2>6, <2>7, <2>8, <2>9 DEF Inv
<1> QED
  BY <1>4, <1>5 DEF IInv

LEMMA Stutters ==
  ASSUME IInv, UNCHANGED vars
  PROVE  IInv'
<1>1. /\ UNCHANGED <<version, body, client, result, sentVars, out, closed, chan, back>>
      /\ UNCHANGED <<state, header, buf_size, buf_read, executed, pc, cur, reply>>
  BY DEF vars, clientVars, connVars, serverVars
<1>2. TypeOK'
  BY <1>1 DEF IInv, TypeOK
<1>3. ASSUME NEW c \in Clients PROVE Inv(c)'
  <2>1. Same(c)
    BY <1>1 DEF Same
  <2>2. UNCHANGED <<pc, cur, reply>> /\ Inv(c)
    BY <1>1 DEF IInv
  <2> QED
    BY <2>1, <2>2, Untouched
<1> QED
  BY <1>2, <1>3 DEF IInv

LEMMA NextStep ==
  ASSUME IInv, [Next]_vars
  PROVE  IInv'
<1>1. CASE Server
  <2>1. ASSUME NEW c \in Clients,
               \/ accept_new_client(c) \/ ReceiveHeader(c) \/ ReceiveBuf(c)
               \/ ReceiveNothing(c) \/ ReceiveFails(c)
        PROVE  IInv'
    BY <2>1, accept_new_clientStep, ReceiveHeaderStep, ReceiveBufStep,
       ReceiveNothingStep, ReceiveFailsStep
  <2> QED
    BY <1>1, <2>1, ExecuteStep, SendReplyStep, StallsStep DEF Server, Serve
<1>2. ASSUME NEW p \in Programs, Program(p) PROVE IInv'
  <2>1. p \in Clients
    BY DEF Clients
  <2> QED
    BY <1>2, <2>1, ConnectStep, ConnectFailsStep, TransmitStep, receive_handshakeStep,
       deserialize_responseStep, ServerGoneStep DEF Program
<1>3. ASSUME NEW o \in Others, Other(o) PROVE IInv'
  <2>1. o \in Clients
    BY DEF Clients
  <2> QED
    BY <1>3, <2>1, OtherSendsStep, OtherReadsStep, TransmitStep DEF Other
<1>4. ASSUME NEW c \in Clients, Kill(c) PROVE IInv'
  BY <1>4, KillStep
<1> QED
  BY <1>1, <1>2, <1>3, <1>4, ServerDiesStep, Stutters DEF Next

\* The state of every connection, its buffers, the bytes in flight and what
\* each side believes of the other fit one another at every step: what main(),
\* the handlers of server.c and main() of client.c rely on.
THEOREM Invariance == Spec => []IInv
<1>1. IInv /\ [Next]_vars => IInv'
  BY NextStep
<1> QED
  BY InitOK, <1>1, PTL DEF Spec

\* Every variable keeps to the code's declarations and the cursors to their
\* buffers, whatever pieces recv() returns (receive_from_client).
THEOREM TypeCorrect == Spec => []TypeOK
<1>1. IInv => TypeOK
  BY DEF IInv
<1> QED
  BY Invariance, <1>1, PTL

\* However a message is cut on its way, it is read whole and nothing of it is
\* left when it has been answered (receive_from_client, the cursor resets).
THEOREM Framing == Spec => []WholeMessages
<1>1. IInv => WholeMessages
  BY DEF IInv, Inv, Framed, WholeMessages, Serves
<1> QED
  BY Invariance, <1>1, PTL

\* What is carried out for a client are requests it sent after it had offered
\* the server's version, each at most once; nothing is for what was refused
\* (handle_uninitialized_client, handle_db_access_request).
THEOREM Authorised == Spec => []OnlyGreetedOnce
<1>1. IInv => OnlyGreetedOnce
  BY DEF IInv, Inv, Counted, OnlyGreetedOnce
<1> QED
  BY Invariance, <1>1, PTL

\* A program is told of success only if its request was carried out, once
\* (handle_db_access_request, deserialize_response).
THEOREM AnswersGenuine == Spec => []AnswerIsGenuine
<1>1. ASSUME IInv, NEW p \in Programs,
             Succeeds(p) \/ (Up /\ result[p] = "ok")
      PROVE  Done(p)
  <2>0. p \in Clients
    BY DEF Clients
  <2>1. Told(p) /\ TypeOK
    BY <1>1, <2>0 DEF IInv, Inv
  <2>2. CASE Succeeds(p)
    <3>1. client[p] = "answer" /\ Len(back[p]) >= 3 /\ back[p][2] = 0
      BY <2>2 DEF Succeeds
    <3>2. back[p] # <<>>
      BY <3>1
    <3>3. Answer(p) = back[p]
      BY <1>1, <2>0, <3>1, <3>2, Answered
    <3> QED
      BY <2>1, <3>1, <3>3 DEF Told
  <2>3. CASE Up /\ result[p] = "ok"
    BY <2>1, <2>3 DEF Told
  <2> QED
    BY <1>1, <2>2, <2>3
<1>2. IInv => AnswerIsGenuine
  BY <1>1 DEF AnswerIsGenuine
<1> QED
  BY Invariance, <1>2, PTL
=============================================================================
