------------------------------ MODULE Session ------------------------------
(***************************************************************************)
(* A conversation over TCP: client.c's handshake, one request and its      *)
(* answer, against the server's connection state machine, with messages    *)
(* that arrive in any pieces, clients killed at any step and a server that *)
(* may die.                                                                *)
(*                                                                         *)
(* A unit is a field: a message type, a version, a length, one block of a  *)
(* body.  The pollfd array is the business of module PollLoop; here the    *)
(* server serves any client that is readable.                              *)
(***************************************************************************)
EXTENDS Integers, Sequences, FiniteSets

CONSTANTS
  Programs,       \* runs of executable_src/client
  Others,         \* peers that speak the wire format but not that program
  ServerVersion,  \* the server's -v
  Versions,       \* what clients pass for -v
  MaxBody,        \* bound: units of a request's body
  MaxMsgs,        \* bound: messages one of Others sends
  MayDie,         \* may the server die of what is not modelled here
  Garbled         \* what client.c makes of a reply buffer nobody wrote:
                  \* success after an add, an error after other options

Clients == Programs \cup Others

ASSUME SessionAssumption ==
  /\ IsFiniteSet(Clients) /\ Clients # {} /\ Programs \cap Others = {}
  /\ Versions \subseteq Nat /\ ServerVersion \in Versions
  /\ MaxBody \in Nat /\ MaxMsgs \in Nat
  /\ MayDie \in BOOLEAN
  /\ Garbled # {} /\ Garbled \subseteq {"ok", "refused", "failed"}

\* enum proto_msg
HANDSHAKE_REQUEST == 0
HANDSHAKE_RESPONSE == 1
DB_ACCESS_REQUEST == 2
DB_ACCESS_RESPONSE == 3
INVALID_REQUEST == 4

Body(n) == [k \in 1 .. n |-> 7]
Handshake(v) == <<HANDSHAKE_REQUEST, v>>
Request(n) == <<DB_ACCESS_REQUEST, n>> \o Body(n)

VARIABLES
  version, body,   \* per program: its -v and the length of its request
  client,          \* per client: where it stands
  result,          \* per client: what it reported and exited with
  msgs,            \* per client: messages it has begun to send
  msg,             \* per client: the message it last gave to send_all
  offered,         \* history: clients that have offered the server's version
  asked,           \* history, per client: requests with a body it has sent
                   \* since then
  out,             \* per client: what send_all has not yet put through
  chan,            \* per client: what the server may recv
  back,            \* per client: what the client may recv
  closed,          \* per client: "no", "fin", "rst", or "broken": a fin, and
                   \* the server has sent since
  state,           \* client_connection.state, "none" before accept, "lost"
                   \* if accepted and never put into the array
  header,          \* what header_cursor has passed
  buf_size, buf_read,
  executed,        \* requests of this client carried out
  pc, cur, reply   \* the server's step, its client and its answer

sentVars == <<msgs, msg, offered, asked>>
clientVars == <<version, body, client, result, sentVars, out, closed>>
connVars == <<state, header, buf_size, buf_read>>
serverVars == <<executed, pc, cur, reply>>
vars == <<clientVars, chan, back, connVars, serverVars>>

Up == pc # "exit"
Connected(c) == state[c] \in {"UNINITIALIZED", "INITIALIZED", "REQUEST"}
Readable(c) == chan[c] # <<>> \/ closed[c] # "no"

Init ==
  /\ version \in [Programs -> Versions]
  /\ body \in [Programs -> 0 .. MaxBody]
  /\ client = [c \in Clients |-> "start"]
  /\ result = [c \in Clients |-> "none"]
  /\ msgs = [c \in Clients |-> 0]
  /\ msg = [c \in Clients |-> <<>>]
  /\ offered = {}
  /\ asked = [c \in Clients |-> 0]
  /\ out = [c \in Clients |-> <<>>]
  /\ chan = [c \in Clients |-> <<>>]
  /\ back = [c \in Clients |-> <<>>]
  /\ closed = [c \in Clients |-> "no"]
  /\ state = [c \in Clients |-> "none"]
  /\ header = [c \in Clients |-> <<>>]
  /\ buf_size = [c \in Clients |-> 0]
  /\ buf_read = [c \in Clients |-> 0]
  /\ executed = [c \in Clients |-> 0]
  /\ pc = "poll"
  /\ cur = CHOOSE c \in Clients : TRUE
  /\ reply = <<>>

-----------------------------------------------------------------------------
(* Clients. *)

\* A request that is to be carried out, not one answered on its header alone.
Asks(m) == m[1] = DB_ACCESS_REQUEST /\ m[2] > 0

\* send_all() of a message: it leaves in pieces (Transmit).
Begin(c, m, next) ==
  /\ out' = [out EXCEPT ![c] = m]
  /\ msg' = [msg EXCEPT ![c] = m]
  /\ msgs' = [msgs EXCEPT ![c] = @ + 1]
  /\ offered' = IF m = Handshake(ServerVersion) THEN offered \cup {c} ELSE offered
  /\ asked' = IF c \in offered /\ Asks(m) THEN [asked EXCEPT ![c] = @ + 1] ELSE asked
  /\ client' = [client EXCEPT ![c] = next]

\* exit(): the kernel closes the socket, with a reset if the client leaves
\* bytes unread.  What send_all had not put through is lost.
Exit(c, r) ==
  /\ client' = [client EXCEPT ![c] = "done"]
  /\ result' = [result EXCEPT ![c] = r]
  /\ out' = [out EXCEPT ![c] = <<>>]
  /\ closed' = [closed EXCEPT ![c] = IF back'[c] = <<>> THEN "fin" ELSE "rst"]

\* get_socket() and send_handshake().
Connect(c) ==
  /\ client[c] = "start"
  /\ Up
  /\ Begin(c, Handshake(version[c]), "handshake")
  /\ UNCHANGED <<version, body, result, closed, chan, back, connVars, serverVars>>

\* The socket cannot be made, or nobody listens.
ConnectFails(c) ==
  /\ client[c] = "start"
  /\ client' = [client EXCEPT ![c] = "done"]
  /\ result' = [result EXCEPT ![c] = "failed"]
  /\ UNCHANGED <<version, body, sentVars, out, closed, chan, back, connVars,
                 serverVars>>

Transmit(c) ==
  /\ Up
  /\ \E n \in 1 .. Len(out[c]) :
       /\ chan' = [chan EXCEPT ![c] = @ \o SubSeq(out[c], 1, n)]
       /\ out' = [out EXCEPT ![c] = SubSeq(@, n + 1, Len(@))]
  /\ UNCHANGED <<version, body, client, result, sentVars, closed, back,
                 connVars, serverVars>>

Waits(c) == client[c] \in {"handshake", "answer"} /\ out[c] = <<>>

\* receive_handshake(): the flag decides.  Some option errors are found only
\* now (print_usage), after which nothing is sent.
receive_handshake(c) ==
  /\ client[c] = "handshake" /\ Waits(c)
  /\ Len(back[c]) >= 2
  /\ back' = [back EXCEPT ![c] = SubSeq(@, 3, Len(@))]
  /\ \/ /\ back[c][1] = HANDSHAKE_RESPONSE /\ back[c][2] = 0
        /\ Begin(c, Request(body[c]), "answer")
        /\ UNCHANGED <<result, closed>>
     \/ /\ Exit(c, "failed")
        /\ UNCHANGED sentVars
  /\ UNCHANGED <<version, body, chan, connVars, serverVars>>

\* deserialize_response(): the fixed part, then as many rows as it says.
deserialize_response(c) ==
  /\ client[c] = "answer" /\ Waits(c)
  /\ Len(back[c]) >= 3
  /\ LET flag == back[c][2]
         rows == IF flag = 0 THEN back[c][3] ELSE 0
     IN  /\ Len(back[c]) >= 3 + rows
         /\ back' = [back EXCEPT ![c] = SubSeq(@, 4 + rows, Len(@))]
         /\ Exit(c, IF flag = 0 THEN "ok" ELSE "refused")
  /\ UNCHANGED <<version, body, sentVars, chan, connVars, serverVars>>

\* The server is gone.  send() fails, and so does recv() if the server left
\* bytes unread; an orderly end makes receive_all return 0, which is no error,
\* and the buffer is decoded as malloc() left it.
ServerGone(c) ==
  /\ ~Up
  /\ client[c] \in {"handshake", "answer"}
  /\ Len(back[c]) < (IF client[c] = "handshake" THEN 2 ELSE 3)
  /\ UNCHANGED back
  /\ \/ Exit(c, "failed")
     \/ /\ client[c] = "answer" /\ out[c] = <<>> /\ chan[c] = <<>>
        /\ \E r \in Garbled : Exit(c, r)
  /\ UNCHANGED <<version, body, sentVars, chan, connVars, serverVars>>

\* A signal ends the client wherever it stands.
Kill(c) ==
  /\ client[c] \notin {"start", "done"}
  /\ UNCHANGED back
  /\ Exit(c, "killed")
  /\ UNCHANGED <<version, body, sentVars, chan, connVars, serverVars>>

Program(p) ==
  \/ Connect(p) \/ ConnectFails(p) \/ Transmit(p)
  \/ receive_handshake(p) \/ deserialize_response(p) \/ ServerGone(p)

\* The others send messages of the length the server reads in their state,
\* one at a time, with any type, version and length, refused or not.
Messages(c) ==
  IF state[c] = "INITIALIZED"
  THEN {Request(n) : n \in 0 .. MaxBody} \cup {<<HANDSHAKE_REQUEST, 0>>}
  ELSE {Handshake(v) : v \in Versions} \cup {<<DB_ACCESS_REQUEST, 0>>}

OtherSends(o) ==
  /\ client[o] \in {"start", "idle"}
  /\ Up
  /\ msgs[o] < MaxMsgs
  /\ \E m \in Messages(o) : Begin(o, m, "answer")
  /\ UNCHANGED <<version, body, result, closed, chan, back, connVars, serverVars>>

OtherReads(o) ==
  /\ client[o] = "answer" /\ Waits(o)
  /\ back[o] # <<>>
  /\ back' = [back EXCEPT ![o] = <<>>]
  /\ client' = [client EXCEPT ![o] = "idle"]
  /\ UNCHANGED <<version, body, result, sentVars, out, closed, chan, connVars,
                 serverVars>>

Other(o) == OtherSends(o) \/ OtherReads(o) \/ Transmit(o)

-----------------------------------------------------------------------------
(* The server. *)

\* accept() may also fail, which main() passes over: nothing changes, and the
\* client waits.  If getnameinfo() or add_fd() fails the new descriptor is
\* forgotten: the client is connected and never listened to.
accept_new_client(c) ==
  /\ pc = "poll"
  /\ state[c] = "none" /\ client[c] # "start" /\ msg[c] # <<>>
  /\ \E s \in {"UNINITIALIZED", "lost"} : state' = [state EXCEPT ![c] = s]
  /\ UNCHANGED <<clientVars, chan, back, header, buf_size, buf_read, serverVars>>

\* receive_from_client(): the rest of the header, or of the body.
AskedWhole(c) == IF state[c] = "REQUEST" THEN buf_size[c] ELSE 2
Asked(c) ==
  IF state[c] = "REQUEST" THEN buf_size[c] - buf_read[c] ELSE 2 - Len(header[c])

Pieces(c) == {n \in 1 .. Asked(c) : n <= Len(chan[c])}
Consume(c, n) == chan' = [chan EXCEPT ![c] = SubSeq(@, n + 1, Len(@))]

ReceivesZero(c) ==
  \/ chan[c] = <<>> /\ closed[c] \in {"fin", "broken"}
  \/ Asked(c) = 0 /\ Readable(c)

Respond(c, r) == pc' = "respond" /\ cur' = c /\ reply' = r

SetHeader(c, h) == header' = [header EXCEPT ![c] = h]
SetState(c, s) == state' = [state EXCEPT ![c] = s]

\* Where header_cursor stands once a whole header h has been dealt with.
KeptHeader(h) == h
ResetHeader(h) == <<>>

AnyVersion(v) == TRUE
MatchingVersion(v) == v = ServerVersion

handle_uninitialized_client(c, h) ==
  \/ /\ h[1] # HANDSHAKE_REQUEST
     /\ Respond(c, <<INVALID_REQUEST>>)
     /\ SetHeader(c, ResetHeader(h))
     /\ UNCHANGED state
  \/ /\ h[1] = HANDSHAKE_REQUEST /\ ~MatchingVersion(h[2])
     /\ Respond(c, <<HANDSHAKE_RESPONSE, 1>>)
     /\ SetHeader(c, h)
     /\ UNCHANGED state
  \/ /\ h[1] = HANDSHAKE_REQUEST /\ MatchingVersion(h[2])
     /\ Respond(c, <<HANDSHAKE_RESPONSE, 0>>)
     /\ SetHeader(c, ResetHeader(h))
     /\ SetState(c, "INITIALIZED")

AlmostEmpty(n) == n <= 1
EmptyRequest(n) == n = 0

handle_initialized_client(c, h) ==
  \/ /\ h[1] # DB_ACCESS_REQUEST
     /\ Respond(c, <<INVALID_REQUEST>>)
     /\ SetHeader(c, ResetHeader(h))
     /\ UNCHANGED <<state, buf_size, buf_read>>
  \/ /\ h[1] = DB_ACCESS_REQUEST /\ EmptyRequest(h[2])   \* send_empty_response
     /\ Respond(c, <<DB_ACCESS_RESPONSE, 0, 0>>)
     /\ SetHeader(c, ResetHeader(h))
     /\ UNCHANGED <<state, buf_size, buf_read>>
  \/ /\ h[1] = DB_ACCESS_REQUEST /\ ~EmptyRequest(h[2])
     /\ SetHeader(c, h)
     /\ SetState(c, "REQUEST")
     /\ buf_size' = [buf_size EXCEPT ![c] = h[2]]
     /\ buf_read' = [buf_read EXCEPT ![c] = 0]
     /\ pc' = "body" /\ cur' = c
     /\ UNCHANGED reply

\* main(): a readable client that has not sent its whole header.
ReceiveHeader(c) ==
  /\ pc = "poll"
  /\ state[c] \in {"UNINITIALIZED", "INITIALIZED"}
  /\ \E n \in Pieces(c) :
       LET h == header[c] \o SubSeq(chan[c], 1, n)
       IN  /\ Consume(c, n)
           /\ \/ /\ Len(h) # 2
                 /\ SetHeader(c, h)
                 /\ UNCHANGED <<state, buf_size, buf_read, pc, cur, reply>>
              \/ /\ Len(h) = 2 /\ state[c] = "UNINITIALIZED"
                 /\ handle_uninitialized_client(c, h)
                 /\ UNCHANGED <<buf_size, buf_read>>
              \/ /\ Len(h) = 2 /\ state[c] = "INITIALIZED"
                 /\ handle_initialized_client(c, h)
  /\ UNCHANGED <<clientVars, back, executed>>

\* A piece of the body; the last one starts handle_db_access_request.
ReceiveBuf(c) ==
  /\ state[c] = "REQUEST"
  /\ pc = "poll" \/ (pc = "body" /\ cur = c)
  /\ \E n \in Pieces(c) :
       /\ Consume(c, n)
       /\ buf_read' = [buf_read EXCEPT ![c] = @ + n]
       /\ pc' = IF buf_read[c] + n = buf_size[c] THEN "execute" ELSE "poll"
  /\ cur' = c
  /\ UNCHANGED <<clientVars, back, state, header, buf_size, executed, reply>>

\* recv() returned 0: main() drops the connection; the second recv of
\* handle_initialized_client leaves that to a later round.
ReceiveNothing(c) ==
  /\ Connected(c)
  /\ ReceivesZero(c)
  /\ \/ pc = "poll" /\ SetState(c, "dropped")
     \/ pc = "body" /\ cur = c /\ UNCHANGED state
  /\ pc' = "poll"
  /\ UNCHANGED <<clientVars, chan, back, header, buf_size, buf_read, executed,
                 cur, reply>>

\* recv() returned -1, once what came before the reset is read: exit(1).
ReceiveFails(c) ==
  /\ Connected(c)
  /\ pc = "poll" \/ (pc = "body" /\ cur = c)
  /\ chan[c] = <<>> /\ closed[c] = "rst"
  /\ pc' = "exit"
  /\ UNCHANGED <<clientVars, chan, back, connVars, executed, cur, reply>>

\* deserialize_request_options() carries the request out, perhaps reports
\* that an employee is not there, perhaps lists one row.
Execute ==
  /\ pc = "execute"
  /\ executed' = [executed EXCEPT ![cur] = @ + 1]
  /\ \E r \in {<<DB_ACCESS_RESPONSE, 0, 0>>, <<DB_ACCESS_RESPONSE, 0, 1, 7>>,
               <<DB_ACCESS_RESPONSE, 1, 0>>} : Respond(cur, r)
  /\ UNCHANGED <<clientVars, chan, back, connVars>>

\* send_all() to the client, then the resets that end a request.  The first
\* send after a fin is lost, the next raises SIGPIPE, as any after a reset.
SendReply ==
  /\ pc = "respond"
  /\ IF closed[cur] \in {"rst", "broken"}
     THEN /\ pc' = "exit"
          /\ UNCHANGED <<back, closed, connVars>>
     ELSE /\ pc' = "poll"
          /\ IF closed[cur] = "no"
             THEN back' = [back EXCEPT ![cur] = @ \o reply] /\ UNCHANGED closed
             ELSE closed' = [closed EXCEPT ![cur] = "broken"] /\ UNCHANGED back
          /\ IF state[cur] = "REQUEST"
             THEN /\ SetState(cur, "INITIALIZED")
                  /\ SetHeader(cur, ResetHeader(header[cur]))
                  /\ buf_read' = [buf_read EXCEPT ![cur] = 0]
             ELSE UNCHANGED <<state, header, buf_read>>
          /\ UNCHANGED buf_size
  /\ reply' = <<>>
  /\ UNCHANGED <<version, body, client, result, sentVars, out, chan, executed,
                 cur>>

\* A request whose handling fails ends the process, as any signal may.
ServerDies ==
  /\ MayDie
  /\ Up
  /\ pc' = "exit"
  /\ UNCHANGED <<clientVars, chan, back, connVars, executed, cur, reply>>

\* What modules PollLoop and ConnectionMap show of the loop: recv() on a
\* socket poll() did not report blocks until that client sends, and a call on
\* the connection map may never return.
Stalls ==
  /\ pc = "poll"
  /\ pc' = "stalled"
  /\ UNCHANGED <<clientVars, chan, back, connVars, executed, cur, reply>>

Resumes ==
  /\ pc = "stalled"
  /\ pc' = "poll"
  /\ UNCHANGED <<clientVars, chan, back, connVars, executed, cur, reply>>

\* The server and the clients it has registered.
Serve ==
  \/ \E c \in Clients :
       \/ ReceiveHeader(c) \/ ReceiveBuf(c)
       \/ ReceiveNothing(c) \/ ReceiveFails(c)
  \/ Execute \/ SendReply

Server ==
  \/ Serve \/ Stalls \/ Resumes
  \/ \E c \in Clients : accept_new_client(c)

Next ==
  \/ Server \/ ServerDies
  \/ \E p \in Programs : Program(p)
  \/ \E o \in Others : Other(o)
  \/ \E c \in Clients : Kill(c)

Spec == Init /\ [][Next]_vars

\* The server and each program run unless blocked, and TCP delivers what has
\* been sent: one of the others may fall silent, but between two messages.
\* Nobody is owed an accept(), nor an end of a stall.
FairSpec ==
  /\ Spec
  /\ WF_vars(Serve)
  /\ \A p \in Programs : WF_vars(Program(p))
  /\ \A o \in Others : WF_vars(Transmit(o))

-----------------------------------------------------------------------------
(* What is checked. *)

Units == Nat
States == {"none", "lost", "UNINITIALIZED", "INITIALIZED", "REQUEST", "dropped"}
Channels == [Clients -> Seq(Units)]

\* Every variable ranges over what the code's declarations allow, and the
\* cursors stay inside their buffers (receive_from_client).
TypeOK ==
  /\ version \in [Programs -> Versions]
  /\ body \in [Programs -> 0 .. MaxBody]
  /\ client \in [Clients -> {"start", "handshake", "answer", "idle", "done"}]
  /\ result \in [Clients ->
                   {"none", "ok", "refused", "failed", "killed"}]
  /\ msgs \in [Clients -> Nat]
  /\ offered \subseteq Clients
  /\ asked \in [Clients -> Nat]
  /\ {msg, out, chan, back, header} \subseteq Channels
  /\ closed \in [Clients -> {"no", "fin", "rst", "broken"}]
  /\ state \in [Clients -> States]
  /\ buf_size \in [Clients -> 0 .. MaxBody]
  /\ buf_read \in [Clients -> 0 .. MaxBody]
  /\ executed \in [Clients -> Nat]
  /\ pc \in {"poll", "body", "execute", "respond", "stalled", "exit"}
  /\ cur \in Clients
  /\ reply \in Seq(Units)
  /\ \A c \in Clients : Len(header[c]) <= 2 /\ buf_read[c] <= buf_size[c]

\* What the server has read of a message it has not finished with, what has
\* arrived, and what is still to be put through.  The header of a refused
\* handshake stays where it is, so that nothing else is ever read.
Responding(c) == pc = "respond" /\ cur = c
Refused(c) ==
  state[c] = "UNINITIALIZED" /\ Len(header[c]) = 2 /\ ~Responding(c)
BeingRead(c) ==
  CASE Refused(c) -> <<>>
    [] state[c] = "REQUEST" -> header[c] \o Body(buf_read[c])
    [] OTHER -> header[c]
InFlight(c) == BeingRead(c) \o chan[c] \o out[c]
Answer(c) == IF Responding(c) THEN reply ELSE back[c]

Whole(c) ==
  IF client[c] \in {"handshake", "answer"} /\ Answer(c) = <<>>
  THEN InFlight(c) = msg[c]
  ELSE InFlight(c) = IF Responding(c) /\ InFlight(c) # <<>> THEN msg[c] ELSE <<>>

\* A message is never cut at the wrong place: however it is fragmented, what
\* a waiting client sent is, in order and with nothing else, in the buffers
\* of its connection and the channel until it is answered, and nothing of it
\* is left over afterwards (server.c receive_from_client and the cursor
\* resets of the handlers).
WholeMessages ==
  \A c \in Clients :
    (Up /\ closed[c] = "no" /\ state[c] # "dropped") => Whole(c)

\* Every request carried out is one that its client has sent, with a body,
\* after it had offered the server's version, and none is carried out twice:
\* a refused or invalid message earns no execution (server.c
\* handle_uninitialized_client, handle_initialized_client,
\* handle_db_access_request).
OnlyGreetedOnce == \A c \in Clients : executed[c] <= asked[c]

Done(p) == executed[p] = (IF body[p] = 0 THEN 0 ELSE 1)

\* An answer that says success, on its way or taken while the server runs,
\* is for a request that was carried out exactly once, or asked for nothing
\* (server.c handle_db_access_request, client.c deserialize_response).
Succeeds(p) == client[p] = "answer" /\ Len(back[p]) >= 3 /\ back[p][2] = 0
AnswerIsGenuine ==
  \A p \in Programs :
    Succeeds(p) \/ (Up /\ result[p] = "ok") => Done(p)

\* client.c reports success only of a request that was carried out: without
\* an answer it fails, "unable to receive response from server"
\* (client.c:397).
SuccessIsGenuine == \A p \in Programs : result[p] = "ok" => Done(p)

\* The run of a client that the server has registered ends, and so does every
\* run once the server has ended, whatever the other clients do, if messages
\* once begun are delivered and the server is not stuck for good: not in a
\* recv() for somebody silent, nor in a list without end (client.c main).
\* A client that is never accepted, or forgotten in accept_new_client, waits.
NeverStuck == <>[](pc # "stalled")
ProgramsFinish ==
  NeverStuck =>
    \A p \in Programs : (Connected(p) \/ ~Up) ~> (result[p] # "none")

\* The server is not ended by a client's end: "client has ended connection
\* early" (server.c:434) is to drop that client and no more.
SurvivesClients == ~MayDie => Up
=============================================================================
