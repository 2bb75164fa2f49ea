------------------------------ MODULE PollLoop ------------------------------
(***************************************************************************)
(* The server's main loop (executable_src/server/server.c): the array of   *)
(* pollfd slots, the map from client descriptors to connections, and the   *)
(* scan that accepts, reads and drops clients while both are edited.       *)
(*                                                                         *)
(* One action is one turn of the scan.  The process is single threaded and *)
(* its sockets are blocking, so between two of its steps only the kernel   *)
(* and the clients move; a recv on a socket with nothing to give has no    *)
(* step and holds up the whole process.                                    *)
(*                                                                         *)
(* What the bytes say is the business of module Session.  Here a message   *)
(* is a chunk, and its handler ends in one of the ways the code allows.    *)
(***************************************************************************)
EXTENDS Integers, FiniteSets

CONSTANTS
  ListenerFd,   \* the listening socket, opened before any client's
  FdLimit,      \* RLIMIT_NOFILE: descriptors are 0 .. FdLimit - 1
  InitSize,     \* slots of the first pollfd array (16 in the code)
  MaxBacklog,   \* clients waiting to be accepted (listen(listener, 10))
  Garbage,      \* what an uninitialised revents may read as
  MaxData       \* bound: unread chunks in one socket

ASSUME PollLoopAssumption ==
  /\ ListenerFd \in Nat
  /\ FdLimit \in Nat /\ ListenerFd < FdLimit
  /\ InitSize \in Nat \ {0}
  /\ MaxBacklog \in Nat \ {0}
  /\ Garbage \subseteq BOOLEAN /\ Garbage # {}
  /\ MaxData \in Nat \ {0}

\* accept() returns the lowest free descriptor and the server never closes
\* one, so clients are numbered upwards from the listener.
ClientFds == (ListenerFd + 1) .. (FdLimit - 1)
NoFd == -1

\* A socket as the kernel keeps it: unread chunks, and how the peer ended.
Sockets == [data : 0 .. MaxData, end : {"open", "fin", "rst"}]
Slots == [fd : {NoFd, ListenerFd} \cup ClientFds, revents : BOOLEAN]

VARIABLES
  pfds,                \* struct pollfd *pfds, slots 0 .. fd_size - 1
  fd_count, fd_size,
  client_connections,  \* descriptor -> conn_idx of its client_connection
  full,                \* connections whose handshake header is full: recv
                       \* asks for 0 bytes and gets 0
  i,                   \* the scan's index
  pc,                  \* "poll", "scan", "body" (second recv), "exit"
  next_fd,             \* what accept() will return
  backlog,             \* clients the kernel holds for accept()
  sock                 \* per client descriptor, the kernel's receive side

table == <<pfds, fd_count, fd_size, client_connections, full>>
vars == <<table, i, pc, next_fd, backlog, sock>>

Live == DOMAIN client_connections
Accepted == (ListenerFd + 1) .. (next_fd - 1)
Readable(fd) == sock[fd].data > 0 \/ sock[fd].end # "open"
Ready(fd) == IF fd = ListenerFd THEN backlog > 0 ELSE Readable(fd)

-----------------------------------------------------------------------------
(* The connection map, as the partial function it is for its callers:      *)
(* ConnectionMap has the buckets, and says when it is one.                 *)

connection_map_insert(m, fd, idx) ==
  [f \in DOMAIN m \cup {fd} |-> IF f = fd THEN idx ELSE m[f]]

connection_map_remove(m, fd) == [f \in DOMAIN m \ {fd} |-> m[f]]

(* add_fd doubles a full array.  realloc leaves the new half uninitialised *)
(* (fresh), and revents of the slot taken is whatever the slot held.       *)
SameArray(fresh) == pfds
Doubled(fresh) ==
  [k \in 0 .. 2 * fd_size - 1 |->
     IF k < fd_size THEN pfds[k] ELSE [fd |-> NoFd, revents |-> fresh[k]]]

add_fd(fd) ==
  /\ fd_count' = fd_count + 1
  /\ \/ /\ fd_count = fd_size
        /\ fd_size' = 2 * fd_size
        /\ \E fresh \in [fd_size .. 2 * fd_size - 1 -> Garbage] :
             pfds' = [Doubled(fresh) EXCEPT ![fd_count].fd = fd]
     \/ /\ fd_count # fd_size
        /\ fd_size' = fd_size
        /\ pfds' = [pfds EXCEPT ![fd_count].fd = fd]

(* remove_fd moves the last slot into the hole and tells the connection    *)
(* that moved; the vacated slot keeps its old contents.                    *)
MovedForgotten(m, fd, idx) == m
Moved(m, fd, idx) == [m EXCEPT ![fd] = idx]

remove_fd(conn_idx) ==
  LET last == fd_count - 1
  IN  /\ fd_count' = last
      /\ fd_size' = fd_size
      /\ pfds' = IF last = conn_idx THEN pfds
                 ELSE [pfds EXCEPT ![conn_idx] = pfds[last]]

Init ==
  /\ \E garbage \in [0 .. InitSize - 1 -> Garbage] :
       pfds = [k \in 0 .. InitSize - 1 |->
                 [fd |-> IF k = 0 THEN ListenerFd ELSE NoFd,
                  revents |-> garbage[k]]]
  /\ fd_count = 1
  /\ fd_size = InitSize
  /\ client_connections = [f \in {} |-> 0]
  /\ full = {}
  /\ i = 0
  /\ pc = "poll"
  /\ next_fd = ListenerFd + 1
  /\ backlog = 0
  /\ sock = [f \in ClientFds |-> [data |-> 0, end |-> "open"]]

-----------------------------------------------------------------------------
(* The clients and the kernel. *)

Up == pc # "exit"

ClientConnects ==
  /\ Up
  /\ backlog < MaxBacklog
  /\ backlog' = backlog + 1
  /\ UNCHANGED <<table, i, pc, next_fd, sock>>

ClientSends(fd) ==
  /\ Up
  /\ fd \in Accepted
  /\ sock[fd].end = "open"
  /\ sock[fd].data < MaxData
  /\ sock' = [sock EXCEPT ![fd].data = @ + 1]
  /\ UNCHANGED <<table, i, pc, next_fd, backlog>>

\* The peer closes (fin), or dies with our bytes unread (rst).
ClientEnds(fd) ==
  /\ Up
  /\ fd \in Accepted
  /\ sock[fd].end = "open"
  /\ \E how \in {"fin", "rst"} : sock' = [sock EXCEPT ![fd].end = how]
  /\ UNCHANGED <<table, i, pc, next_fd, backlog>>

-----------------------------------------------------------------------------
(* The server. *)

\* The slots poll() is told about.
AllButTheLast == {0} \cup (1 .. fd_count - 2)
Polled == 0 .. fd_count - 1

\* poll() with no timeout: sleeps until a slot is ready, then overwrites the
\* revents of the slots in use, and of those only.
Poll ==
  /\ pc = "poll"
  /\ \E k \in Polled : Ready(pfds[k].fd)
  /\ pfds' = [k \in DOMAIN pfds |->
                IF k \in Polled
                THEN [pfds[k] EXCEPT !.revents = Ready(pfds[k].fd)]
                ELSE pfds[k]]
  /\ i' = 0
  /\ pc' = "scan"
  /\ UNCHANGED <<fd_count, fd_size, client_connections, full, next_fd,
                 backlog, sock>>

\* poll() returns -1, on a signal for instance: exit(1).
PollFails ==
  /\ pc = "poll"
  /\ pc' = "exit"
  /\ UNCHANGED <<table, i, next_fd, backlog, sock>>

EndScan ==
  /\ pc = "scan"
  /\ i >= fd_count
  /\ pc' = "poll"
  /\ UNCHANGED <<table, i, next_fd, backlog, sock>>

\* The scan stands on a slot; POLLIN tells whether it is acted upon.
AtSlot == pc = "scan" /\ i < fd_count
Skip ==
  /\ AtSlot
  /\ ~pfds[i].revents
  /\ i' = i + 1
  /\ UNCHANGED <<table, pc, next_fd, backlog, sock>>

AtListener == AtSlot /\ pfds[i].revents /\ pfds[i].fd = ListenerFd
Accepting ==
  /\ AtListener
  /\ backlog > 0
  /\ next_fd < FdLimit
  /\ backlog' = backlog - 1
  /\ next_fd' = next_fd + 1
  /\ i' = i + 1

\* The client may have sent, closed or reset before it is accepted.
accept_new_client ==
  /\ Accepting
  /\ add_fd(next_fd)
  /\ client_connections' =
       connection_map_insert(client_connections, next_fd, fd_count)
  /\ \E s \in Sockets : sock' = [sock EXCEPT ![next_fd] = s]
  /\ UNCHANGED <<full, pc>>

\* getnameinfo() fails after accept(): the descriptor stays open, unpolled.
AcceptUnnamed ==
  /\ Accepting
  /\ UNCHANGED <<table, pc, sock>>

\* accept() fails with EMFILE and leaves the client where it was.
AcceptFails ==
  /\ AtListener
  /\ next_fd = FdLimit
  /\ i' = i + 1
  /\ UNCHANGED <<table, pc, next_fd, backlog, sock>>

AtClient == AtSlot /\ pfds[i].revents /\ pfds[i].fd # ListenerFd
Fd == pfds[i].fd

\* A lookup that fails, or a recv that returns -1: exit(1).
Reset(fd) == sock[fd].end = "rst" /\ sock[fd].data = 0
ReceiveFails ==
  /\ AtClient
  /\ Fd \in Live => Reset(Fd)
  /\ pc' = "exit"
  /\ UNCHANGED <<table, i, next_fd, backlog, sock>>

\* recv() gives 0: the peer is done, or the header buffer had no room.
ZeroOnceEnded(fd) == sock[fd].end = "fin"
ReturnsZero(fd) ==
  /\ ~Reset(fd)
  /\ \/ sock[fd].data = 0 /\ sock[fd].end = "fin"
     \/ fd \in full /\ Readable(fd)

\* client_fd is read back through conn_idx; the connection that fills the
\* hole is looked up while the dropped one is still in the map.
handle_client_disconnect ==
  /\ AtClient
  /\ Fd \in Live
  /\ ReturnsZero(Fd)
  /\ LET conn_idx == client_connections[Fd]
         client_fd == pfds[conn_idx].fd
         last == fd_count - 1
         moved == pfds[last].fd
     IN  /\ remove_fd(conn_idx)
         /\ IF last = conn_idx \/ moved \in Live
            THEN /\ client_connections' = connection_map_remove(
                      IF last = conn_idx THEN client_connections
                      ELSE Moved(client_connections, moved, conn_idx),
                      client_fd)
                 /\ full' = full \ {Fd}
                 /\ i' = i + 1
                 /\ pc' = pc
            ELSE /\ pc' = "exit"
                 /\ UNCHANGED <<client_connections, full, i>>
  /\ UNCHANGED <<next_fd, backlog, sock>>

\* recv() returns bytes, perhaps not all there are; those that came before
\* a reset can still be read.
Receives(fd) ==
  \E n \in 1 .. sock[fd].data : sock' = [sock EXCEPT ![fd].data = @ - n]

\* Then the handler leaves the connection waiting for more, refuses its
\* handshake, goes on to read the body at once, or fails: exit(1).
HandleMessage ==
  /\ AtClient
  /\ Fd \in Live \ full
  /\ Receives(Fd)
  /\ \/ i' = i + 1 /\ UNCHANGED <<full, pc>>
     \/ i' = i + 1 /\ full' = full \cup {Fd} /\ UNCHANGED pc
     \/ pc' = "body" /\ UNCHANGED <<full, i>>
     \/ pc' = "exit" /\ UNCHANGED <<full, i>>
  /\ UNCHANGED <<pfds, fd_count, fd_size, client_connections, next_fd, backlog>>

\* The recv of handle_initialized_client, made without polling.  A 0 here
\* drops nobody: the next poll will find the end of the stream again.
ReceiveBody ==
  /\ pc = "body"
  /\ Readable(Fd)
  /\ \/ /\ Reset(Fd)
        /\ pc' = "exit"
        /\ UNCHANGED <<i, sock>>
     \/ /\ Receives(Fd) \/ (ReturnsZero(Fd) /\ UNCHANGED sock)
        /\ pc' = "scan"
        /\ i' = i + 1
     \/ /\ Receives(Fd)   \* the whole request, whose handling fails
        /\ pc' = "exit"
        /\ UNCHANGED i
  /\ UNCHANGED <<table, next_fd, backlog>>

Server ==
  \/ Poll \/ EndScan \/ Skip
  \/ accept_new_client \/ AcceptUnnamed \/ AcceptFails
  \/ ReceiveFails \/ handle_client_disconnect
  \/ HandleMessage \/ ReceiveBody

Client(fd) == ClientSends(fd) \/ ClientEnds(fd)

Next == Server \/ PollFails \/ ClientConnects \/ \E fd \in ClientFds : Client(fd)

Spec == Init /\ [][Next]_vars

\* The process runs whenever it is not blocked, though poll() need never fail,
\* and a connected client does not stay silent for ever: client.c writes as
\* soon as it is connected and its end is a close.
ServerFairness == WF_vars(Server)
ClientFairness == \A fd \in ClientFds : WF_vars(Client(fd))
FairSpec == Spec /\ ServerFairness /\ ClientFairness

-----------------------------------------------------------------------------
(* What is checked. *)

\* Every variable ranges over what the declarations in server.c allow.
TypeOK ==
  /\ fd_size \in Nat \ {0}
  /\ fd_count \in 1 .. fd_size
  /\ pfds \in [0 .. fd_size - 1 -> Slots]
  /\ Live \subseteq ClientFds
  /\ client_connections \in [Live -> Nat]
  /\ full \subseteq ClientFds
  /\ i \in Nat
  /\ pc \in {"poll", "scan", "body", "exit"}
  /\ next_fd \in (ListenerFd + 1) .. FdLimit
  /\ backlog \in 0 .. MaxBacklog
  /\ sock \in [ClientFds -> Sockets]

\* The array and the map describe the same clients: slot 0 is the listener,
\* every other slot in use belongs to a connection whose conn_idx is that
\* slot, and every connection's conn_idx is such a slot.  Dropping a client
\* reads its descriptor back through conn_idx, so after one wrong index the
\* next disconnect drops somebody else (server.c remove_fd).
Registered ==
  /\ pfds[0].fd = ListenerFd
  /\ \A k \in 1 .. fd_count - 1 :
       pfds[k].fd \in Live /\ client_connections[pfds[k].fd] = k
  /\ \A fd \in Live :
       client_connections[fd] \in 1 .. fd_count - 1
         /\ pfds[client_connections[fd]].fd = fd

\* Nobody is dropped but the client whose recv returned 0, and no client is
\* dropped with bytes the server still owes it a reading of, a refused
\* handshake apart (server.c main, handle_client_disconnect).
DropsOnlyTheEnded ==
  [][\A fd \in Live \ DOMAIN client_connections' :
       ReturnsZero(fd) /\ (fd \notin full => sock[fd].data = 0)]_vars

\* The scan comes to every connected client whose socket has something for it
\* and reads there, although a disconnect during the scan moves a ready slot
\* behind the index and it is passed over in that round (server.c main,
\* remove_fd).
ReadableIsServed ==
  \A fd \in ClientFds :
    (fd \in Live /\ Readable(fd)) ~>
       \/ pc = "exit" \/ fd \notin Live \/ ~Readable(fd)
       \/ AtClient /\ Fd = fd

\* A client is read from only after poll() found it ready: "check if socket
\* is ready to be read from" (server.c:188).
ReadyOnly == AtClient => Readable(Fd)

\* With no client connected, one that waits is accepted ("We are accepting a
\* new client", server.c:193).
PendingIsAccepted ==
  (backlog = MaxBacklog /\ Live = {}) ~> (pc = "exit" \/ backlog < MaxBacklog)
=============================================================================
