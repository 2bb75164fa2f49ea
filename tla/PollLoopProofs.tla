--------------------------- MODULE PollLoopProofs ---------------------------
(***************************************************************************)
(* For every descriptor limit, array size and number of clients: the types *)
(* of the poll loop's variables, the agreement of the pollfd array with    *)
(* the connection map, and that only the client whose recv returned 0 is   *)
(* dropped.                                                                *)
(***************************************************************************)
EXTENDS PollLoop, TLAPS

\* Every connection's descriptor was returned by an earlier accept(), so the
\* next one is in nobody's slot.
NeverReused == \A fd \in Live : fd < next_fd

\* Neither TypeOK nor Registered is inductive alone: fd_count stays positive
\* because a dropped client has a slot of its own, and the slot and the map
\* entry of a new client disturb nobody's because its descriptor is fresh.
IInv == TypeOK /\ Registered /\ NeverReused

-----------------------------------------------------------------------------
\* The invariant holds of a server that has only its listener.
LEMMA InitIInv == Init => IInv
BY PollLoopAssumption
DEF Init, IInv, TypeOK, Registered, NeverReused, Live, Slots, Sockets, NoFd,
    ClientFds

\* Actions that leave the array, the map and next_fd as they are.
LEMMA TableUnchanged ==
  ASSUME IInv,
         UNCHANGED <<fd_count, fd_size, client_connections, next_fd>>,
         pfds' \in [0 .. fd_size - 1 -> Slots],
         \A k \in 0 .. fd_count - 1 : pfds'[k].fd = pfds[k].fd,
         full' \subseteq ClientFds,
         i' \in Nat,
         pc' \in {"poll", "scan", "body", "exit"},
         backlog' \in 0 .. MaxBacklog,
         sock' \in [ClientFds -> Sockets]
  PROVE  IInv'
<1>1. TypeOK'
  BY DEF IInv, TypeOK, Live
<1>2. Registered'
  <2>1. Live' = Live
    BY DEF Live
  <2>2. fd_count \in Nat /\ fd_count >= 1
    BY DEF IInv, TypeOK
  <2>3. pfds'[0].fd = ListenerFd
    BY <2>2 DEF IInv, Registered
  <2>4. \A k \in 1 .. fd_count - 1 : pfds'[k].fd = pfds[k].fd
    BY <2>2
  <2> QED
    BY <2>1, <2>2, <2>3, <2>4 DEF IInv, Registered
<1>3. NeverReused'
  BY DEF IInv, NeverReused, Live
<1> QED
  BY <1>1, <1>2, <1>3 DEF IInv

\* Reading from a socket leaves a socket.
LEMMA ReceivesType ==
  ASSUME TypeOK, NEW fd \in ClientFds, Receives(fd)
  PROVE  sock' \in [ClientFds -> Sockets]
<1>1. PICK n \in 1 .. sock[fd].data :
        sock' = [sock EXCEPT ![fd].data = @ - n]
  BY DEF Receives
<1>2. /\ sock[fd] \in Sockets
      /\ sock[fd].data - n \in 0 .. MaxData
  BY PollLoopAssumption DEF TypeOK, Sockets
<1>3. [sock[fd] EXCEPT !.data = @ - n] \in Sockets
  BY <1>2 DEF Sockets
<1> QED
  BY <1>1, <1>3 DEF TypeOK

\* A slot other than the listener's, found ready, is a live client's.
LEMMA AtClientLive ==
  ASSUME IInv, AtClient
  PROVE  /\ i \in 1 .. fd_count - 1
         /\ Fd \in Live /\ Fd \in ClientFds
         /\ client_connections[Fd] = i
BY DEF IInv, TypeOK, Registered, AtClient, AtSlot, Fd, Live

\* What add_fd does to the array: the new descriptor follows those in use.
LEMMA AddFd ==
  ASSUME IInv, NEW fd \in ClientFds, add_fd(fd)
  PROVE  /\ fd_count' = fd_count + 1
         /\ fd_size' \in Nat \ {0} /\ fd_count' \in 1 .. fd_size'
         /\ pfds' \in [0 .. fd_size' - 1 -> Slots]
         /\ pfds'[fd_count].fd = fd
         /\ \A k \in 0 .. fd_count - 1 : pfds'[k].fd = pfds[k].fd
<1> USE DEF IInv, TypeOK
<1>1. CASE fd_count = fd_size
  <2>1. PICK fresh \in [fd_size .. 2 * fd_size - 1 -> Garbage] :
          pfds' = [Doubled(fresh) EXCEPT ![fd_count].fd = fd]
    BY <1>1 DEF add_fd
  <2>2. Doubled(fresh) \in [0 .. 2 * fd_size - 1 -> Slots]
    BY PollLoopAssumption DEF Doubled, Slots
  <2>3. \A k \in 0 .. fd_count - 1 : Doubled(fresh)[k] = pfds[k]
    BY <1>1 DEF Doubled
  <2>4. fd_size' = 2 * fd_size /\ fd_count' = fd_count + 1
    BY <1>1 DEF add_fd
  <2>5. fd_count \in 0 .. 2 * fd_size - 1
    BY <1>1
  <2>6. pfds' \in [0 .. 2 * fd_size - 1 -> Slots]
    BY <2>1, <2>2, <2>5 DEF Slots
  <2>7. pfds'[fd_count].fd = fd
    BY <2>1, <2>2, <2>5 DEF Slots
  <2>8. \A k \in 0 .. fd_count - 1 : pfds'[k].fd = pfds[k].fd
    BY <1>1, <2>1, <2>2, <2>3
  <2> QED
    BY <1>1, <2>4, <2>6, <2>7, <2>8
<1>2. CASE fd_count # fd_size
  <2>1. /\ fd_size' = fd_size /\ fd_count' = fd_count + 1
        /\ pfds' = [pfds EXCEPT ![fd_count].fd = fd]
    BY <1>2 DEF add_fd
  <2>2. fd_count \in 0 .. fd_size - 1
    BY <1>2
  <2>3. pfds' \in [0 .. fd_size - 1 -> Slots]
    BY <2>1, <2>2 DEF Slots
  <2>4. pfds'[fd_count].fd = fd
    BY <2>1, <2>2 DEF Slots
  <2>5. \A k \in 0 .. fd_count - 1 : pfds'[k].fd = pfds[k].fd
    BY <2>1, <2>2
  <2> QED
    BY <1>2, <2>1, <2>2, <2>3, <2>4, <2>5
<1> QED
  BY <1>1, <1>2

-----------------------------------------------------------------------------
\* A new client gets the next slot and an entry that says so.
LEMMA AcceptIInv == IInv /\ accept_new_client => IInv'
<1> SUFFICES ASSUME IInv, accept_new_client PROVE IInv'
  OBVIOUS
<1>0. /\ backlog > 0 /\ backlog' = backlog - 1
      /\ next_fd < FdLimit /\ next_fd' = next_fd + 1
      /\ i' = i + 1 /\ full' = full /\ pc' = pc
      /\ add_fd(next_fd)
      /\ client_connections' =
           connection_map_insert(client_connections, next_fd, fd_count)
  BY DEF accept_new_client, Accepting
<1>1. /\ next_fd \in ClientFds /\ next_fd \notin Live
      /\ next_fd' \in (ListenerFd + 1) .. FdLimit
  BY <1>0, PollLoopAssumption DEF IInv, TypeOK, NeverReused, ClientFds
<1>2. /\ fd_count \in Nat /\ fd_count >= 1
      /\ fd_count' = fd_count + 1
      /\ fd_size' \in Nat \ {0} /\ fd_count' \in 1 .. fd_size'
      /\ pfds' \in [0 .. fd_size' - 1 -> Slots]
      /\ pfds'[fd_count].fd = next_fd
      /\ \A k \in 0 .. fd_count - 1 : pfds'[k].fd = pfds[k].fd
  <2>1. fd_count \in Nat /\ fd_count >= 1
    BY DEF IInv, TypeOK
  <2> QED
    BY <1>0, <1>1, <2>1, AddFd
<1>kept. \A k \in 0 .. fd_count - 1 : pfds'[k].fd = pfds[k].fd
  BY <1>2
<1>count. fd_count \in Nat /\ fd_count >= 1
  BY <1>2
<1>3. /\ Live' = Live \cup {next_fd}
      /\ client_connections'[next_fd] = fd_count
      /\ \A fd \in Live : client_connections'[fd] = client_connections[fd]
      /\ client_connections' \in [Live' -> Nat]
  BY <1>0, <1>1, <1>2 DEF connection_map_insert, Live, IInv, TypeOK
<1>4. TypeOK'
  <2>1. PICK s \in Sockets : sock' = [sock EXCEPT ![next_fd] = s]
    BY DEF accept_new_client
  <2>2. sock' \in [ClientFds -> Sockets]
    BY <2>1 DEF IInv, TypeOK
  <2>3. backlog' \in 0 .. MaxBacklog /\ i' \in Nat
    BY <1>0, PollLoopAssumption DEF IInv, TypeOK
  <2> QED
    BY <1>0, <1>1, <1>2, <1>3, <2>2, <2>3 DEF IInv, TypeOK
<1>5. Registered'
  <2>1. pfds'[0].fd = ListenerFd
    <3>1. pfds'[0].fd = pfds[0].fd
      BY <1>kept, <1>count
    <3> QED
      BY <3>1 DEF IInv, Registered
  <2>2. \A k \in 1 .. fd_count' - 1 :
          pfds'[k].fd \in Live' /\ client_connections'[pfds'[k].fd] = k
    <3> SUFFICES ASSUME NEW k \in 1 .. fd_count' - 1
                 PROVE pfds'[k].fd \in Live'
                         /\ client_connections'[pfds'[k].fd] = k
      OBVIOUS
    <3>1. CASE k = fd_count
      BY <1>2, <1>3, <3>1
    <3>2. CASE k \in 1 .. fd_count - 1
      <4>1. pfds'[k].fd = pfds[k].fd
        BY <1>kept, <1>count, <3>2
      <4>2. pfds[k].fd \in Live /\ client_connections[pfds[k].fd] = k
        BY <3>2 DEF IInv, Registered
      <4> QED
        BY <1>3, <4>1, <4>2
    <3> QED
      BY <1>2, <3>1, <3>2
  <2>3. \A fd \in Live' :
          client_connections'[fd] \in 1 .. fd_count' - 1
            /\ pfds'[client_connections'[fd]].fd = fd
    <3> SUFFICES ASSUME NEW fd \in Live'
                 PROVE client_connections'[fd] \in 1 .. fd_count' - 1
                         /\ pfds'[client_connections'[fd]].fd = fd
      OBVIOUS
    <3>1. CASE fd = next_fd
      BY <1>2, <1>3, <3>1
    <3>2. CASE fd \in Live
      <4>1. /\ client_connections[fd] \in 1 .. fd_count - 1
            /\ pfds[client_connections[fd]].fd = fd
        BY <3>2 DEF IInv, Registered
      <4>2. pfds'[client_connections[fd]].fd = fd
        BY <1>kept, <1>count, <4>1
      <4>3. client_connections[fd] \in 1 .. fd_count' - 1
        BY <1>0, <1>2, <4>1
      <4> QED
        BY <1>3, <3>2, <4>2, <4>3
    <3> QED
      BY <1>3, <3>1, <3>2
  <2> QED
    BY <2>1, <2>2, <2>3 DEF Registered
<1>6. NeverReused'
  BY <1>0, <1>1, <1>3 DEF IInv, TypeOK, NeverReused, ClientFds
<1> QED
  BY <1>4, <1>5, <1>6 DEF IInv

\* The dropped client's slot is the one the scan stands on; the client in
\* the last slot, when it is another, takes that slot and is told so.
LEMMA DisconnectIInv ==
  IInv /\ handle_client_disconnect =>
    IInv' /\ Live' = Live \ {Fd} /\ ReturnsZero(Fd)
<1> SUFFICES ASSUME IInv, handle_client_disconnect
             PROVE  IInv' /\ Live' = Live \ {Fd} /\ ReturnsZero(Fd)
  OBVIOUS
<1> DEFINE last == fd_count - 1
           moved == pfds[last].fd
<1>1. /\ i \in 1 .. last /\ Fd \in Live /\ Fd \in ClientFds
      /\ client_connections[Fd] = i /\ pfds[i].fd = Fd
  BY AtClientLive DEF handle_client_disconnect, Fd
<1>2. /\ fd_count \in Nat /\ fd_size \in Nat /\ fd_count <= fd_size
      /\ last \in 1 .. fd_count - 1 /\ last \in 0 .. fd_size - 1
  BY <1>1 DEF IInv, TypeOK
<1>3. moved \in Live /\ client_connections[moved] = last
  BY <1>2 DEF IInv, Registered
<1>4. /\ fd_count' = last /\ fd_size' = fd_size
      /\ pfds' = IF last = i THEN pfds ELSE [pfds EXCEPT ![i] = pfds[last]]
      /\ client_connections' = connection_map_remove(
            IF last = i THEN client_connections
            ELSE Moved(client_connections, moved, i), Fd)
      /\ full' = full \ {Fd} /\ i' = i + 1
      /\ UNCHANGED <<pc, next_fd, backlog, sock>>
  BY <1>1, <1>3 DEF handle_client_disconnect, remove_fd
<1>5. /\ Live' = Live \ {Fd}
      /\ client_connections' \in [Live' -> Nat]
      /\ \A fd \in Live' : client_connections'[fd] =
            IF last # i /\ fd = moved THEN i ELSE client_connections[fd]
  BY <1>1, <1>2, <1>3, <1>4 DEF connection_map_remove, Moved, Live, IInv, TypeOK
<1>6. /\ pfds' \in [0 .. fd_size - 1 -> Slots]
      /\ \A k \in 0 .. last - 1 :
            pfds'[k].fd = IF k = i THEN moved ELSE pfds[k].fd
  BY <1>1, <1>2, <1>4 DEF IInv, TypeOK
<1>7. TypeOK'
  BY <1>1, <1>2, <1>4, <1>5, <1>6 DEF IInv, TypeOK
<1>8. Registered'
  <2>1. pfds'[0].fd = ListenerFd
    BY <1>1, <1>2, <1>6 DEF IInv, Registered
  <2>2. \A k \in 1 .. last - 1 :
          pfds'[k].fd \in Live' /\ client_connections'[pfds'[k].fd] = k
    <3> SUFFICES ASSUME NEW k \in 1 .. last - 1
                 PROVE pfds'[k].fd \in Live'
                         /\ client_connections'[pfds'[k].fd] = k
      OBVIOUS
    <3>1. CASE k = i
      <4>1. moved # Fd
        BY <1>1, <1>2, <1>3, <3>1
      <4> QED
        BY <1>2, <1>3, <1>5, <1>6, <3>1, <4>1
    <3>2. CASE k # i
      <4>1. /\ pfds'[k].fd = pfds[k].fd /\ pfds[k].fd \in Live
            /\ client_connections[pfds[k].fd] = k
        BY <1>2, <1>6, <3>2 DEF IInv, Registered
      <4>2. pfds[k].fd # Fd /\ pfds[k].fd # moved
        BY <1>1, <1>2, <1>3, <3>2, <4>1
      <4> QED
        BY <1>5, <4>1, <4>2
    <3> QED
      BY <3>1, <3>2
  <2>3. \A fd \in Live' :
          client_connections'[fd] \in 1 .. last - 1
            /\ pfds'[client_connections'[fd]].fd = fd
    <3> SUFFICES ASSUME NEW fd \in Live'
                 PROVE client_connections'[fd] \in 1 .. last - 1
                         /\ pfds'[client_connections'[fd]].fd = fd
      OBVIOUS
    <3>1. /\ fd \in Live /\ fd # Fd
          /\ client_connections[fd] \in 1 .. last
          /\ pfds[client_connections[fd]].fd = fd
      BY <1>2, <1>5 DEF IInv, Registered
    <3>2. client_connections[fd] # i
      BY <1>1, <3>1
    <3>3. CASE last # i /\ fd = moved
      BY <1>1, <1>2, <1>5, <1>6, <3>3
    <3>4. CASE ~(last # i /\ fd = moved)
      <4>1. client_connections[fd] # last
        BY <1>2, <3>1, <3>2, <3>4
      <4>2. client_connections[fd] \in 1 .. last - 1
        BY <1>2, <3>1, <4>1
      <4> QED
        BY <1>2, <1>5, <1>6, <3>1, <3>2, <3>4, <4>2
    <3> QED
      BY <3>3, <3>4
  <2> QED
    BY <1>4, <2>1, <2>2, <2>3 DEF Registered
<1>9. NeverReused'
  BY <1>4, <1>5 DEF IInv, NeverReused
<1> QED
  BY <1>5, <1>7, <1>8, <1>9 DEF IInv, handle_client_disconnect

-----------------------------------------------------------------------------
\* Every other step leaves the array and the map alone.
LEMMA OthersIInv ==
  ASSUME IInv, [Next]_vars,
         ~accept_new_client, ~handle_client_disconnect
  PROVE  IInv' /\ Live' = Live
<1> DEFINE Same == UNCHANGED <<fd_count, fd_size, client_connections, next_fd>>
           Rest == /\ full' \subseteq ClientFds
                   /\ i' \in Nat
                   /\ pc' \in {"poll", "scan", "body", "exit"}
                   /\ backlog' \in 0 .. MaxBacklog
                   /\ sock' \in [ClientFds -> Sockets]
<1>t. TypeOK
  BY DEF IInv
<1>r. ASSUME UNCHANGED pfds, Same, Rest
      PROVE  IInv' /\ Live' = Live
  <2>1. pfds' \in [0 .. fd_size - 1 -> Slots]
    BY <1>r, <1>t DEF TypeOK
  <2> QED
    BY <1>r, <2>1, TableUnchanged DEF Live
<1>1. CASE ClientConnects
  BY <1>1, <1>t, <1>r, PollLoopAssumption
  DEF ClientConnects, TypeOK, table
<1>2. ASSUME NEW fd \in ClientFds, ClientSends(fd)
      PROVE  IInv' /\ Live' = Live
  <2>1. sock[fd] \in Sockets /\ sock[fd].data + 1 \in 0 .. MaxData
    BY <1>2, <1>t, PollLoopAssumption DEF ClientSends, TypeOK, Sockets
  <2>2. [sock[fd] EXCEPT !.data = @ + 1] \in Sockets
    BY <2>1 DEF Sockets
  <2>3. sock' \in [ClientFds -> Sockets]
    BY <1>2, <1>t, <2>2 DEF ClientSends, TypeOK
  <2> QED
    BY <1>2, <1>t, <1>r, <2>3 DEF ClientSends, TypeOK, table
<1>3. ASSUME NEW fd \in ClientFds, ClientEnds(fd)
      PROVE  IInv' /\ Live' = Live
  <2>1. PICK how \in {"fin", "rst"} : sock' = [sock EXCEPT ![fd].end = how]
    BY <1>3 DEF ClientEnds
  <2>2. [sock[fd] EXCEPT !.end = how] \in Sockets
    BY <1>t DEF TypeOK, Sockets
  <2>3. sock' \in [ClientFds -> Sockets]
    BY <1>t, <2>1, <2>2 DEF TypeOK
  <2> QED
    BY <1>3, <1>t, <1>r, <2>3 DEF ClientEnds, TypeOK, table
<1>4. CASE Poll
  <2>1. /\ pfds' \in [0 .. fd_size - 1 -> Slots]
        /\ \A k \in 0 .. fd_count - 1 : pfds'[k].fd = pfds[k].fd
    <3>1. \A k \in 0 .. fd_size - 1 :
            /\ [pfds[k] EXCEPT !.revents = Ready(pfds[k].fd)] \in Slots
            /\ [pfds[k] EXCEPT !.revents = Ready(pfds[k].fd)].fd = pfds[k].fd
      <4>1. \A fd : Ready(fd) \in BOOLEAN
        <5>1. \A fd : Readable(fd) \in BOOLEAN
          BY Zenon DEF Readable
        <5>2. (backlog > 0) \in BOOLEAN
          BY <1>t DEF TypeOK
        <5> QED
          BY Zenon, <5>1, <5>2 DEF Ready
      <4>2. \A s \in Slots, b \in BOOLEAN :
              /\ [s EXCEPT !.revents = b] \in Slots
              /\ [s EXCEPT !.revents = b].fd = s.fd
        BY DEF Slots
      <4> QED
        BY <1>t, <4>1, <4>2 DEF TypeOK
    <3>2. /\ DOMAIN pfds = 0 .. fd_size - 1 /\ fd_count <= fd_size
          /\ fd_count \in Nat /\ fd_size \in Nat
          /\ \A k \in 0 .. fd_size - 1 : pfds[k] \in Slots
      BY <1>t DEF TypeOK
    <3>3. pfds' = [k \in DOMAIN pfds |->
                     IF k \in Polled
                     THEN [pfds[k] EXCEPT !.revents = Ready(pfds[k].fd)]
                     ELSE pfds[k]]
      BY <1>4 DEF Poll
    <3> QED
      BY <3>1, <3>2, <3>3
  <2>2. Same /\ Rest
    BY <1>4, <1>t DEF Poll, TypeOK
  <2> QED
    BY <2>1, <2>2, TableUnchanged DEF Live
<1>5. CASE PollFails
  BY <1>5, <1>t, <1>r DEF PollFails, TypeOK, table
<1>6. CASE EndScan
  BY <1>6, <1>t, <1>r DEF EndScan, TypeOK, table
<1>7. CASE Skip
  BY <1>7, <1>t, <1>r DEF Skip, TypeOK, table
<1>8. CASE AcceptFails
  BY <1>8, <1>t, <1>r DEF AcceptFails, TypeOK, table
<1>9. CASE AcceptUnnamed
  <2>0. /\ UNCHANGED <<pfds, fd_count, fd_size, client_connections, full, pc,
                        sock>>
        /\ next_fd' = next_fd + 1 /\ next_fd < FdLimit
        /\ backlog' = backlog - 1 /\ backlog > 0 /\ i' = i + 1
    BY <1>9 DEF AcceptUnnamed, Accepting, table
  <2>1. /\ TypeOK' /\ UNCHANGED <<pfds, fd_count, client_connections>>
        /\ next_fd' = next_fd + 1
    <3>1. /\ next_fd' \in (ListenerFd + 1) .. FdLimit
          /\ backlog' \in 0 .. MaxBacklog /\ i' \in Nat
      BY <2>0, <1>t, PollLoopAssumption DEF TypeOK
    <3> QED
      BY <2>0, <3>1, <1>t DEF TypeOK, Live
  <2>2. Registered' /\ Live' = Live
    BY <2>1 DEF IInv, Registered, Live
  <2>3. NeverReused'
    BY <1>t, <2>1, <2>2, PollLoopAssumption
    DEF IInv, NeverReused, TypeOK, ClientFds
  <2> QED
    BY <2>1, <2>2, <2>3 DEF IInv
<1>10. CASE ReceiveFails
  BY <1>10, <1>t, <1>r DEF ReceiveFails, TypeOK, table
<1>11. CASE HandleMessage
  <2>1. Fd \in ClientFds /\ Receives(Fd)
    BY <1>11, AtClientLive DEF HandleMessage
  <2>2. sock' \in [ClientFds -> Sockets]
    BY <1>t, <2>1, ReceivesType
  <2>3. UNCHANGED <<pfds, fd_count, fd_size, client_connections, next_fd,
                    backlog>>
    BY <1>11 DEF HandleMessage
  <2>4. /\ full' \subseteq ClientFds /\ i' \in Nat
        /\ pc' \in {"poll", "scan", "body", "exit"}
    BY <1>11, <1>t, <2>1 DEF HandleMessage, TypeOK
  <2> QED
    BY <1>t, <1>r, <2>2, <2>3, <2>4 DEF TypeOK
<1>12. CASE ReceiveBody
  <2>1. sock' \in [ClientFds -> Sockets]
    <3>1. CASE Receives(Fd)
      <4>1. PICK n \in 1 .. sock[Fd].data :
              sock' = [sock EXCEPT ![Fd].data = @ - n]
        BY <3>1 DEF Receives
      <4>2. CASE Fd \in ClientFds
        BY <1>t, <3>1, <4>2, ReceivesType
      <4>3. CASE Fd \notin ClientFds
        BY <1>t, <4>1, <4>3 DEF TypeOK
      <4> QED
        BY <4>2, <4>3
    <3>2. CASE UNCHANGED sock
      BY <1>t, <3>2 DEF TypeOK
    <3> QED
      BY <1>12, <3>1, <3>2 DEF ReceiveBody
  <2>2. i' \in Nat /\ pc' \in {"poll", "scan", "body", "exit"}
    BY <1>12, <1>t DEF ReceiveBody, TypeOK
  <2>3. UNCHANGED <<pfds, fd_count, fd_size, client_connections, full,
                    next_fd, backlog>>
    BY <1>12 DEF ReceiveBody, table
  <2> QED
    BY <1>t, <1>r, <2>1, <2>2, <2>3 DEF TypeOK
<1>13. CASE UNCHANGED vars
  BY <1>13, <1>t, <1>r DEF vars, table, TypeOK
<1> QED
  BY <1>1, <1>2, <1>3, <1>4, <1>5, <1>6, <1>7, <1>8, <1>9, <1>10, <1>11,
     <1>12, <1>13
  DEF Next, Server, Client

\* The invariant is inductive.
LEMMA NextIInv == IInv /\ [Next]_vars => IInv'
BY AcceptIInv, DisconnectIInv, OthersIInv

\* It holds of every reachable state.
THEOREM Invariance == Spec => []IInv
<1>1. Init => IInv
  BY InitIInv
<1>2. IInv /\ [Next]_vars => IInv'
  BY NextIInv
<1> QED
  BY <1>1, <1>2, PTL DEF Spec

\* fd_count never passes fd_size, so no step of the scan leaves the array,
\* and every variable keeps its type (server.c add_fd, remove_fd).
THEOREM TypeCorrect == Spec => []TypeOK
<1>1. IInv => TypeOK
  BY DEF IInv
<1> QED
  BY <1>1, Invariance, PTL

\* The array and the connection map always describe the same clients
\* (server.c accept_new_client, handle_client_disconnect).
THEOREM ArrayMatchesMap == Spec => []Registered
<1>1. IInv => Registered
  BY DEF IInv
<1> QED
  BY <1>1, Invariance, PTL

\* No step drops a client other than one whose recv returned 0 with nothing
\* left to read, refused handshakes apart (server.c main).
THEOREM DropsCorrect == Spec => DropsOnlyTheEnded
<1> DEFINE Drop == \A fd \in Live \ DOMAIN client_connections' :
                     ReturnsZero(fd) /\ (fd \notin full => sock[fd].data = 0)
<1>1. IInv /\ [Next]_vars => [Drop]_vars
  <2> SUFFICES ASSUME IInv, [Next]_vars PROVE Drop
    OBVIOUS
  <2>1. CASE accept_new_client
    BY <2>1 DEF accept_new_client, connection_map_insert, Live
  <2>2. CASE handle_client_disconnect
    <3>1. Live' = Live \ {Fd} /\ ReturnsZero(Fd)
      BY <2>2, DisconnectIInv
    <3>2. Fd \notin full => sock[Fd].data = 0
      BY <3>1 DEF ReturnsZero
    <3> QED
      BY <3>1, <3>2 DEF Live
  <2>3. CASE ~accept_new_client /\ ~handle_client_disconnect
    BY <2>3, OthersIInv DEF Live
  <2> QED
    BY <2>1, <2>2, <2>3
<1> QED
  BY <1>1, Invariance, PTL DEF Spec, DropsOnlyTheEnded
=============================================================================
