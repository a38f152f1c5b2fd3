-------------------------- MODULE ZygoteServerProofs --------------------------
(***************************************************************************)
(* Proofs about ZygoteServer, for any set of connections, size of the      *)
(* table and faults.                                                       *)
(***************************************************************************)
EXTENDS ZygoteServer, SubsequencesProofs

-----------------------------------------------------------------------------
(* Type correctness.                                                       *)

LEMMA InitTypeOK == Init => TypeOK
  BY DEF Init, TypeOK, ConnState, ChildState, PC, Reason, Event, NoEvent, Tag

LEMMA NoEventIsEvent == NoEvent \in Event /\ NoEvent.tag = "Server"
  BY DEF Event, NoEvent, Tag

(* remove_client_socket and what it returns to leave the loop well typed.  *)
LEMMA RemoveClientSocketType ==
  ASSUME TypeOK, NEW fd, RemoveClientSocket(fd)
  PROVE  /\ conn' \in [Clients -> ConnState]
         /\ client_fd' \in [Clients -> ClientFd \cup {NoFd}]
         /\ client_sockets' \in SUBSET ClientFd
         /\ epoll_set' \in SUBSET (ClientFd \X Clients)
         /\ pc' \in PC /\ batch' \in SUBSET Event /\ current' \in Event
         /\ reason' \in Reason
<1>. USE NoEventIsEvent DEF TypeOK, ConnState, PC, Reason
<1>1. CASE fd \in client_sockets
  BY <1>1 DEF RemoveClientSocket, EventHandled
<1>2. CASE fd \notin client_sockets
  BY <1>2 DEF RemoveClientSocket, Stop, tables
<1>. QED
  BY <1>1, <1>2

LEMMA CheckHangUpType ==
  ASSUME TypeOK, CheckHangUp
  PROVE  /\ conn' \in [Clients -> ConnState]
         /\ client_fd' \in [Clients -> ClientFd \cup {NoFd}]
         /\ client_sockets' \in SUBSET ClientFd
         /\ epoll_set' \in SUBSET (ClientFd \X Clients)
         /\ pc' \in PC /\ batch' \in SUBSET Event /\ current' \in Event
         /\ reason' \in Reason
<1>1. CASE current.hup
  BY <1>1, RemoveClientSocketType DEF CheckHangUp
<1>2. CASE ~ current.hup
  BY <1>2, NoEventIsEvent DEF CheckHangUp, EventHandled, tables, TypeOK, PC
<1>. QED
  BY <1>1, <1>2

(* epoll_wait's batch consists of events.                                  *)
LEMMA ReadyType == TypeOK => Ready \in SUBSET Event
<1>. SUFFICES ASSUME TypeOK PROVE Ready \in SUBSET Event
  OBVIOUS
<1>1. ClientEvents \in SUBSET Event
  <2>. SUFFICES ASSUME NEW e \in epoll_set
       PROVE  [tag |-> "Client", fd |-> e[1], of |-> e[2],
               err |-> Broken(e[2]), hup |-> peer_closed[e[2]]] \in Event
    BY DEF ClientEvents
  <2>1. e[1] \in ClientFd /\ e[2] \in Clients
    BY DEF TypeOK
  <2>2. Broken(e[2]) \in BOOLEAN /\ peer_closed[e[2]] \in BOOLEAN
    BY <2>1 DEF Broken, TypeOK
  <2>. QED
    BY <2>1, <2>2 DEF Event, Tag
<1>2. ServerEvents \in SUBSET Event /\ SignalEvents \in SUBSET Event
  BY DEF ServerEvents, SignalEvents, NoEvent, Event, Tag
<1>. QED
  BY <1>1, <1>2 DEF Ready

LEMMA NextTypeOK == TypeOK /\ [Next]_vars => TypeOK'
<1>. SUFFICES ASSUME TypeOK, [Next]_vars PROVE TypeOK'
  OBVIOUS
<1>. USE DEF TypeOK
<1>1. CASE UNCHANGED vars
  BY <1>1 DEF vars, peers, tables, loop
<1>2. CASE Environment
  <2>. USE DEF peers, tables, loop, ConnState, ChildState
  <2>1. ASSUME NEW c \in Clients, Connect(c) PROVE TypeOK'
    BY <2>1 DEF Connect, Service!Connect
  <2>2. ASSUME NEW c \in Clients, SendRequest(c) PROVE TypeOK'
    <3>1. PICK request \in Requests : Service!Send(c, request)
      BY <2>2 DEF SendRequest
    <3>2. request \in Request
      BY ProtocolAssumption
    <3>3. sent' \in [Clients -> Seq(Request)]
      BY <3>1, <3>2 DEF Service!Send
    <3>. QED
      BY <2>2, <3>1, <3>3 DEF SendRequest, Service!Send
  <2>3. ASSUME NEW c \in Clients, ReadReply(c) PROVE TypeOK'
    BY <2>3 DEF ReadReply
  <2>4. ASSUME NEW c \in Clients, CloseConnection(c) PROVE TypeOK'
    BY <2>4 DEF CloseConnection, Service!Close
  <2>5. ASSUME NEW c \in Clients, ShutDownSending(c) PROVE TypeOK'
    BY <2>5 DEF ShutDownSending
  <2>6. ASSUME NEW p \in Pids, ChildExits(p) PROVE TypeOK'
    BY <2>6 DEF ChildExits, Service!ChildExits, SignalSet
  <2>7. CASE Terminate
    BY <2>7, ServerAssumption DEF Terminate, SignalSet
  <2>. QED
    BY <1>2, <2>1, <2>2, <2>3, <2>4, <2>5, <2>6, <2>7 DEF Environment
<1>3. CASE Wait \/ NextEvent \/ EventError \/ BatchDone
  <2>1. CASE Wait
    BY <2>1, ReadyType DEF Wait, peers, tables, PC
  <2>2. CASE NextEvent
    BY <2>2 DEF NextEvent, Handler, peers, tables, PC, Event, Tag
  <2>3. CASE EventError
    BY <2>3, NoEventIsEvent DEF EventError, Stop, peers, tables, PC, Reason
  <2>4. CASE BatchDone
    BY <2>4 DEF BatchDone, Continue, peers, tables, PC
  <2>. QED
    BY <1>3, <2>1, <2>2, <2>3, <2>4
<1>4. ASSUME NEW c \in Clients, HandleClient(c) PROVE TypeOK'
  <2>1. ASSUME NEW request, Receive(c, request)
        PROVE  taken' \in [Clients -> Nat]
    BY <2>1 DEF Receive
  <2>2. ASSUME NEW request \in Answerable, NEW pid \in Pids \cup {NoPid},
               SendReply(c, request, pid)
        PROVE  replies' \in [Clients -> Seq(Reply)] /\ unread' \in [Clients -> Nat]
    <3>1. [request |-> request, pid |-> pid] \in Reply
      BY DEF Reply
    <3>. QED
      BY <2>2, <3>1 DEF SendReply
  <2>3. CASE NothingToRead(c)
    BY <2>3, CheckHangUpType DEF NothingToRead
  <2>4. CASE ReadError(c)
    BY <2>4, RemoveClientSocketType DEF ReadError
  <2>5. CASE HandleWrong(c)
    BY <2>1, <2>5 DEF HandleWrong, tables, loop
  <2>6. CASE HandleGarbage(c)
    BY <2>1, <2>6, CheckHangUpType DEF HandleGarbage
  <2>7. CASE HandleQuery(c)
    <3>1. PICK request \in {"IdentityQuery", "Stat"} :
            Receive(c, request) /\ SendReply(c, request, NoPid)
      BY <2>7 DEF HandleQuery
    <3>. QED
      BY <2>1, <2>2, <2>7, <3>1 DEF HandleQuery, Answerable, tables, loop
  <2>8. CASE HandleQueryFails(c)
    BY <2>1, <2>8, RemoveClientSocketType DEF HandleQueryFails
  <2>9. CASE HandleSpawn(c)
    <3>1. PICK request \in Forking, p \in Pids :
            /\ Receive(c, request)
            /\ child' = [child EXCEPT ![p] = "running"]
            /\ IF CanSend(c)
               THEN SendReply(c, request, p) /\ UNCHANGED <<conn, tables, loop>>
               ELSE RemoveClientSocket(current.fd) /\ UNCHANGED <<replies, unread>>
      BY <2>9 DEF HandleSpawn
    <3>2. child' \in [Pids -> ChildState]
      BY <3>1 DEF ChildState
    <3>3. CASE CanSend(c)
      BY <2>1, <2>2, <2>9, <3>1, <3>2, <3>3 DEF HandleSpawn, Answerable, tables, loop
    <3>4. CASE ~ CanSend(c)
      BY <2>1, <2>9, <3>1, <3>2, <3>4, RemoveClientSocketType DEF HandleSpawn
    <3>. QED
      BY <3>3, <3>4
  <2>10. CASE HandleSpawnFails(c)
    BY <2>1, <2>10, RemoveClientSocketType DEF HandleSpawnFails
  <2>11. CASE HandleExit(c)
    BY <2>1, <2>2, <2>11, NoEventIsEvent
       DEF HandleExit, Answerable, Stop, tables, PC, Reason
  <2>. QED
    BY <1>4, <2>3, <2>4, <2>5, <2>6, <2>7, <2>8, <2>9, <2>10, <2>11 DEF HandleClient
<1>5. ASSUME NEW c \in Clients, AcceptClient(c) \/ RefuseClient(c) PROVE TypeOK'
  <2>1. CASE AcceptClient(c)
    BY <2>1 DEF AcceptClient, loop, ConnState
  <2>2. CASE RefuseClient(c)
    BY <2>2, NoEventIsEvent DEF RefuseClient, EventHandled, tables, ConnState, PC
  <2>. QED
    BY <1>5, <2>1, <2>2
<1>6. CASE AcceptDone \/ AcceptFails
  BY <1>6, NoEventIsEvent
     DEF AcceptDone, AcceptFails, EventHandled, Stop, peers, tables, PC, Reason
<1>7. CASE ReadSigchld \/ ReadTermination \/ SignalsDone \/ ReapDone
  BY <1>7, NoEventIsEvent
     DEF ReadSigchld, ReadTermination, SignalsDone, ReapDone, Continue, Stop,
         EventHandled, peers, tables, PC, Reason
<1>8. ASSUME NEW p \in Pids, Reap(p) PROVE TypeOK'
  BY <1>8 DEF Reap, tables, loop, ChildState
<1>. QED
  BY <1>1, <1>2, <1>3, <1>4, <1>5, <1>6, <1>7, <1>8 DEF Next, ServeStep

(* Every reachable state of the event loop is well typed.                  *)
THEOREM TypeCorrect == Spec => []TypeOK
  BY InitTypeOK, NextTypeOK, PTL DEF Spec

-----------------------------------------------------------------------------
(* Children that exit.                                                     *)

LEMMA InitNoChildForgotten == Init => NoChildForgotten
  BY DEF Init, NoChildForgotten, Zombies

(* Outside the waitid loop a step that makes no zombie and reads no signal *)
(* forgets no child.                                                       *)
LEMMA QuietStepForgetsNone ==
  ASSUME NoChildForgotten, Zombies' \subseteq Zombies,
         pending \subseteq pending',
         pc \notin {"reap", "stopped"} \/ pc' = pc
  PROVE  NoChildForgotten'
  BY DEF NoChildForgotten

LEMMA NextNoChildForgotten ==
  TypeOK /\ NoChildForgotten /\ [Next]_vars => NoChildForgotten'
<1>. SUFFICES ASSUME TypeOK, NoChildForgotten, [Next]_vars PROVE NoChildForgotten'
  OBVIOUS
<1>1. ASSUME UNCHANGED child PROVE Zombies' \subseteq Zombies
  BY <1>1 DEF Zombies
<1>2. CASE UNCHANGED vars
  BY <1>1, <1>2, QuietStepForgetsNone DEF vars, peers, loop
<1>3. CASE Environment
  <2>1. CASE \E p \in Pids : ChildExits(p)
    BY <2>1 DEF ChildExits, NoChildForgotten
  <2>2. CASE Terminate
    BY <1>1, <2>2, QuietStepForgetsNone DEF Terminate, peers, loop
  <2>3. ASSUME NEW c \in Clients,
               \/ Connect(c) \/ SendRequest(c) \/ ReadReply(c)
               \/ CloseConnection(c) \/ ShutDownSending(c)
        PROVE  UNCHANGED <<child, pending, pc>>
    BY <2>3 DEF Connect, Service!Connect, SendRequest, Service!Send, ReadReply,
                CloseConnection, Service!Close, ShutDownSending, peers, loop
  <2>. QED
    BY <1>1, <1>3, <2>1, <2>2, <2>3, QuietStepForgetsNone DEF Environment
<1>4. CASE Wait \/ NextEvent \/ EventError \/ BatchDone \/ AcceptDone \/ AcceptFails
  BY <1>1, <1>4, QuietStepForgetsNone
     DEF Wait, NextEvent, EventError, BatchDone, AcceptDone, AcceptFails, peers
<1>5. ASSUME NEW c \in Clients, HandleClient(c) PROVE NoChildForgotten'
  <2>1. pc = "client" /\ pending' = pending
    BY <1>5 DEF HandleClient, NothingToRead, ReadError, HandleWrong, HandleGarbage,
                HandleQuery, HandleQueryFails, HandleSpawn, HandleSpawnFails,
                HandleExit, Receive, Reading
  <2>2. CASE HandleSpawn(c)
    <3>1. PICK p \in Pids : child[p] = "none" /\ child' = [child EXCEPT ![p] = "running"]
      BY <2>2 DEF HandleSpawn
    <3>. QED
      BY <2>1, <3>1, QuietStepForgetsNone DEF TypeOK, Zombies
  <2>3. CASE ~ HandleSpawn(c)
    <3>1. UNCHANGED child
      BY <1>5, <2>3
         DEF HandleClient, NothingToRead, ReadError, HandleWrong, HandleGarbage,
             HandleQuery, HandleQueryFails, HandleSpawnFails, HandleExit
    <3>. QED
      BY <1>1, <2>1, <3>1, QuietStepForgetsNone
  <2>. QED
    BY <2>2, <2>3
<1>6. ASSUME NEW c \in Clients, AcceptClient(c) \/ RefuseClient(c)
      PROVE  NoChildForgotten'
  BY <1>1, <1>6, QuietStepForgetsNone DEF AcceptClient, RefuseClient
<1>7. CASE ReadSigchld \/ ReadTermination \/ SignalsDone \/ ReapDone
  <2>1. CASE ReadSigchld
    BY <2>1 DEF ReadSigchld, Continue, NoChildForgotten
  <2>2. CASE ReadTermination \/ SignalsDone
    BY <1>1, <2>2, QuietStepForgetsNone DEF ReadTermination, SignalsDone, peers
  <2>3. CASE ReapDone
    BY <1>1, <2>3 DEF ReapDone, NoChildForgotten, peers
  <2>. QED
    BY <1>7, <2>1, <2>2, <2>3
<1>8. ASSUME NEW p \in Pids, Reap(p) PROVE NoChildForgotten'
  BY <1>8 DEF Reap, loop, NoChildForgotten
<1>. QED
  BY <1>2, <1>3, <1>4, <1>5, <1>6, <1>7, <1>8 DEF Next, ServeStep

(* However many children one SIGCHLD stands for, none of them is forgotten *)
(* by handle_signalfd_events.                                              *)
THEOREM NoneForgotten == Spec => []NoChildForgotten
<1>1. TypeOK /\ NoChildForgotten /\ [Next]_vars => NoChildForgotten'
  BY NextNoChildForgotten
<1>. QED
  BY <1>1, InitNoChildForgotten, TypeCorrect, PTL DEF Spec

-----------------------------------------------------------------------------
(* Events, descriptors and the table of clients.                           *)

LEMMA ClientSocketsFinite ==
  ASSUME TypeOK
  PROVE  /\ IsFiniteSet(client_sockets)
         /\ Cardinality(client_sockets) \in Nat
<1>1. IsFiniteSet(ClientFd)
  BY FS_Interval, ProtocolAssumption DEF ClientFd
<1>2. IsFiniteSet(client_sockets)
  BY <1>1, FS_Subset DEF TypeOK
<1>. QED
  BY <1>2, FS_CardinalityType

LEMMA InitServerInv == Init => ServerInv
<1>. SUFFICES ASSUME Init PROVE ServerInv
  OBVIOUS
<1>1. Service!Open = {}
  BY DEF Init, Service!Open
<1>2. TablesAgree
  BY <1>1, FS_EmptySet, ProtocolAssumption DEF Init, TablesAgree
<1>. QED
  BY <1>2, NoEventIsEvent
     DEF Init, ServerInv, EventsAreFresh, EventsNameClients, OneEventPerClient,
         HangUpsAreTrue

(* Steps that leave the tables alone, take events out of the batch at      *)
(* most, and start no handler.                                             *)
LEMMA UndisturbedStep ==
  ASSUME ServerInv, Service!Open' = Service!Open, UNCHANGED tables,
         batch' \subseteq batch,
         current' \in {current, NoEvent},
         pc' = "client" => pc = "client" /\ current' = current,
         \A c \in Clients : peer_closed[c] => peer_closed'[c]
  PROVE  ServerInv'
<1>. USE NoEventIsEvent DEF ServerInv
<1>1. TablesAgree'
  <2>1. \A c \in Clients : conn'[c] = "open" <=> conn[c] = "open"
    BY DEF Service!Open
  <2>. QED
    BY <2>1 DEF TablesAgree, tables
<1>2. EventsAreFresh'
  BY DEF EventsAreFresh, tables
<1>3. EventsNameClients'
  BY DEF EventsNameClients
<1>4. OneEventPerClient'
  BY DEF OneEventPerClient
<1>5. HangUpsAreTrue'
  BY DEF HangUpsAreTrue, EventsNameClients
<1>. QED
  BY <1>1, <1>2, <1>3, <1>4, <1>5

(* serve returns.                                                          *)
LEMMA StopStep ==
  ASSUME ServerInv, NEW why, Stop(why), UNCHANGED <<conn, peer_closed, tables>>
  PROVE  ServerInv'
<1>1. Service!Open' = Service!Open
  BY DEF Service!Open
<1>. QED
  BY <1>1, UndisturbedStep DEF Stop

(* While an event of a client is handled, its descriptor is the client's.  *)
LEMMA CurrentIsOpen ==
  ASSUME TypeOK, ServerInv, pc = "client"
  PROVE  /\ current.of \in Clients
         /\ client_fd[current.of] = current.fd
         /\ current.fd \in client_sockets
         /\ conn[current.of] = "open"
         /\ \A c \in Clients : client_fd[c] = current.fd => c = current.of
<1>1. current.tag = "Client" /\ client_fd[current.of] = current.fd
  BY DEF ServerInv, EventsAreFresh
<1>2. current.of \in Clients /\ current.fd \in ClientFd
  BY <1>1 DEF ServerInv, EventsNameClients
<1>3. current.fd # NoFd
  BY <1>2, ProtocolAssumption DEF ClientFd, NoFd
<1>. QED
  BY <1>1, <1>2, <1>3 DEF ServerInv, TablesAgree, Service!Open

(* remove_client_socket is called with the descriptor of the client whose  *)
(* event is handled, finds it, and removes that client and no other.       *)
LEMMA RemoveCurrent ==
  ASSUME TypeOK, ServerInv, pc = "client", RemoveClientSocket(current.fd)
  PROVE  /\ conn' = [conn EXCEPT ![current.of] = "dropped"]
         /\ client_fd' = [client_fd EXCEPT ![current.of] = NoFd]
         /\ client_sockets' = client_sockets \ {current.fd}
         /\ epoll_set' = {e \in epoll_set : e[1] # current.fd}
         /\ EventHandled
<1>1. /\ current.of \in Clients /\ current.fd \in client_sockets
      /\ \A c \in Clients : client_fd[c] = current.fd <=> c = current.of
  BY CurrentIsOpen
<1>2. /\ epoll_set' = {e \in epoll_set : e[1] # current.fd}
      /\ client_sockets' = client_sockets \ {current.fd}
      /\ client_fd' = [c \in Clients |-> IF client_fd[c] = current.fd THEN NoFd
                                                                   ELSE client_fd[c]]
      /\ conn' = [c \in Clients |-> IF client_fd[c] = current.fd THEN "dropped"
                                                              ELSE conn[c]]
      /\ EventHandled
  BY <1>1 DEF RemoveClientSocket
<1>3. client_fd' = [client_fd EXCEPT ![current.of] = NoFd]
  BY <1>1, <1>2 DEF TypeOK
<1>4. conn' = [conn EXCEPT ![current.of] = "dropped"]
  BY <1>1, <1>2 DEF TypeOK
<1>. QED
  BY <1>2, <1>3, <1>4

LEMMA RemoveStep ==
  ASSUME TypeOK, ServerInv, pc = "client", RemoveClientSocket(current.fd),
         UNCHANGED peer_closed
  PROVE  ServerInv'
<1>. DEFINE of == current.of
<1>1. /\ of \in Clients /\ conn[of] = "open" /\ client_fd[of] = current.fd
      /\ \A c \in Clients : client_fd[c] = current.fd => c = of
  BY CurrentIsOpen
<1>2. /\ conn' = [conn EXCEPT ![of] = "dropped"]
      /\ client_fd' = [client_fd EXCEPT ![of] = NoFd]
      /\ client_sockets' = client_sockets \ {current.fd}
      /\ epoll_set' = {e \in epoll_set : e[1] # current.fd}
      /\ pc' = "events" /\ current' = NoEvent /\ batch' = batch
  BY RemoveCurrent DEF EventHandled
<1>3. Service!Open' = Service!Open \ {of}
  BY <1>1, <1>2 DEF Service!Open, TypeOK
<1>4. TablesAgree'
  <2>1. Cardinality(client_sockets') <= MaxClients
    <3>1. /\ IsFiniteSet(client_sockets) /\ Cardinality(client_sockets) \in Nat
          /\ Cardinality(client_sockets) <= MaxClients
      BY ClientSocketsFinite DEF ServerInv, TablesAgree
    <3>2. Cardinality(client_sockets \ {current.fd})
            = IF current.fd \in client_sockets THEN Cardinality(client_sockets) - 1
                                               ELSE Cardinality(client_sockets)
      BY <3>1, FS_RemoveElement
    <3>. QED
      BY <1>2, <3>1, <3>2, ProtocolAssumption
  <2>2. client_sockets' = {client_fd'[c] : c \in Service!Open'}
    BY <1>1, <1>2, <1>3 DEF ServerInv, TablesAgree, TypeOK, Service!Open
  <2>3. epoll_set' = {<<client_fd'[c], c>> : c \in Service!Open'}
    <3>1. epoll_set = {<<client_fd[c], c>> : c \in Service!Open}
      BY DEF ServerInv, TablesAgree
    <3>2. \A c \in Service!Open : client_fd[c] # current.fd <=> c # of
      BY <1>1 DEF Service!Open
    <3>3. epoll_set' = {<<client_fd[c], c>> : c \in Service!Open \ {of}}
      BY <1>2, <3>1, <3>2
    <3>4. \A c \in Service!Open \ {of} : client_fd'[c] = client_fd[c]
      BY <1>2 DEF TypeOK, Service!Open
    <3>. QED
      BY <1>3, <3>3, <3>4
  <2>4. \A c \in Clients : conn'[c] = "open" <=> client_fd'[c] # NoFd
    BY <1>1, <1>2 DEF ServerInv, TablesAgree, TypeOK
  <2>5. \A c, d \in Service!Open' : client_fd'[c] = client_fd'[d] => c = d
    BY <1>1, <1>2, <1>3 DEF ServerInv, TablesAgree, TypeOK, Service!Open
  <2>. QED
    BY <2>1, <2>2, <2>3, <2>4, <2>5 DEF TablesAgree
<1>5. \A e \in batch : e.tag = "Client" => e.of \in Clients /\ e.of # of
  BY DEF ServerInv, OneEventPerClient, EventsNameClients
<1>6. EventsAreFresh'
  BY <1>2, <1>5 DEF ServerInv, EventsAreFresh, TypeOK
<1>. QED
  BY <1>2, <1>4, <1>6, NoEventIsEvent
     DEF ServerInv, EventsNameClients, OneEventPerClient, HangUpsAreTrue

LEMMA CheckHangUpStep ==
  ASSUME TypeOK, ServerInv, pc = "client", CheckHangUp, UNCHANGED peer_closed
  PROVE  ServerInv'
<1>1. CASE current.hup
  BY <1>1, RemoveStep DEF CheckHangUp
<1>2. CASE ~ current.hup
  <2>1. EventHandled /\ UNCHANGED <<tables, conn>>
    BY <1>2 DEF CheckHangUp
  <2>2. Service!Open' = Service!Open
    BY <2>1 DEF Service!Open
  <2>. QED
    BY <2>1, <2>2, UndisturbedStep DEF EventHandled
<1>. QED
  BY <1>1, <1>2

(* A new client gets a number no open connection has, so no event that is  *)
(* still to be handled names it.                                           *)
LEMMA AcceptStep ==
  ASSUME TypeOK, ServerInv, NEW c \in Clients, AcceptClient(c)
  PROVE  ServerInv'
<1>1. PICK fd \in ClientFd :
        /\ \A d \in Clients : client_fd[d] # fd
        /\ client_fd' = [client_fd EXCEPT ![c] = fd]
        /\ client_sockets' = client_sockets \cup {fd}
        /\ epoll_set' = epoll_set \cup {<<fd, c>>}
  BY DEF AcceptClient
<1>2. /\ conn[c] = "backlog" /\ conn' = [conn EXCEPT ![c] = "open"]
      /\ Cardinality(client_sockets) # MaxClients
      /\ pc = "accept" /\ UNCHANGED <<pc, batch, current, peer_closed>>
  BY DEF AcceptClient, loop
<1>3. client_fd[c] = NoFd /\ fd # NoFd
  BY <1>2, ProtocolAssumption DEF ServerInv, TablesAgree, ClientFd, NoFd
<1>4. Service!Open' = Service!Open \cup {c} /\ c \notin Service!Open
  BY <1>2 DEF Service!Open, TypeOK
<1>5. \A d \in Service!Open : client_fd'[d] = client_fd[d] /\ d # c
  BY <1>1, <1>4 DEF Service!Open, TypeOK
<1>6. client_fd'[c] = fd
  BY <1>1 DEF TypeOK
<1>7. TablesAgree'
  <2>1. Cardinality(client_sockets') <= MaxClients
    <3>1. /\ IsFiniteSet(client_sockets) /\ Cardinality(client_sockets) \in Nat
          /\ Cardinality(client_sockets) <= MaxClients
      BY ClientSocketsFinite DEF ServerInv, TablesAgree
    <3>2. Cardinality(client_sockets \cup {fd})
            = IF fd \in client_sockets THEN Cardinality(client_sockets)
                                       ELSE Cardinality(client_sockets) + 1
      BY <3>1, FS_AddElement
    <3>. QED
      BY <1>1, <1>2, <3>1, <3>2, ProtocolAssumption
  <2>2. client_sockets' = {client_fd'[d] : d \in Service!Open'}
    BY <1>1, <1>4, <1>5, <1>6 DEF ServerInv, TablesAgree
  <2>3. epoll_set' = {<<client_fd'[d], d>> : d \in Service!Open'}
    BY <1>1, <1>4, <1>5, <1>6 DEF ServerInv, TablesAgree
  <2>4. \A d \in Clients : conn'[d] = "open" <=> client_fd'[d] # NoFd
    BY <1>1, <1>2, <1>3 DEF ServerInv, TablesAgree, TypeOK
  <2>5. \A d, e \in Service!Open' : client_fd'[d] = client_fd'[e] => d = e
    BY <1>1, <1>4, <1>5, <1>6 DEF ServerInv, TablesAgree, Service!Open
  <2>. QED
    BY <2>1, <2>2, <2>3, <2>4, <2>5 DEF TablesAgree
<1>8. EventsAreFresh'
  <2>1. ASSUME NEW e \in batch, e.tag = "Client" PROVE client_fd'[e.of] = e.fd
    <3>1. e.of \in Clients /\ e.fd \in ClientFd /\ client_fd[e.of] = e.fd
      BY <2>1 DEF ServerInv, EventsNameClients, EventsAreFresh
    <3>2. e.of # c
      BY <1>3, <3>1, ProtocolAssumption DEF ClientFd, NoFd
    <3>. QED
      BY <1>1, <3>1, <3>2 DEF TypeOK
  <2>. QED
    BY <1>2, <2>1 DEF EventsAreFresh
<1>. QED
  BY <1>2, <1>7, <1>8
     DEF ServerInv, EventsNameClients, OneEventPerClient, HangUpsAreTrue

(* epoll_wait reports the epoll set as it is.                              *)
LEMMA WaitStep ==
  ASSUME TypeOK, ServerInv, Wait
  PROVE  ServerInv'
<1>1. /\ batch' = Ready /\ pc' = "events"
      /\ UNCHANGED <<conn, peer_closed, tables, current>>
  BY DEF Wait, peers
<1>2. Service!Open' = Service!Open
  BY <1>1 DEF Service!Open
<1>3. ASSUME NEW e \in Ready, e.tag = "Client"
      PROVE  /\ e.of \in Clients /\ e.fd \in ClientFd /\ client_fd[e.of] = e.fd
             /\ e = [tag |-> "Client", fd |-> client_fd[e.of], of |-> e.of,
                     err |-> Broken(e.of), hup |-> peer_closed[e.of]]
  <2>1. e \in ClientEvents
    BY <1>3 DEF Ready, ServerEvents, SignalEvents, NoEvent
  <2>2. PICK s \in epoll_set :
          e = [tag |-> "Client", fd |-> s[1], of |-> s[2],
               err |-> Broken(s[2]), hup |-> peer_closed[s[2]]]
    BY <2>1 DEF ClientEvents
  <2>3. PICK c \in Service!Open : s = <<client_fd[c], c>>
    BY DEF ServerInv, TablesAgree
  <2>4. c \in Clients /\ s[1] = client_fd[c] /\ s[2] = c /\ s[1] \in ClientFd
    BY <2>3 DEF Service!Open, TypeOK
  <2>. QED
    BY <2>2, <2>4
<1>4. TablesAgree'
  BY <1>1, <1>2 DEF ServerInv, TablesAgree, tables
<1>5. EventsAreFresh'
  BY <1>1, <1>3 DEF EventsAreFresh, tables
<1>6. EventsNameClients' /\ HangUpsAreTrue'
  BY <1>1, <1>3 DEF ServerInv, EventsNameClients, HangUpsAreTrue
<1>7. OneEventPerClient'
  BY <1>1, <1>3 DEF OneEventPerClient
<1>. QED
  BY <1>4, <1>5, <1>6, <1>7 DEF ServerInv

(* An event leaves the batch when its handler starts.                      *)
LEMMA NextEventStep ==
  ASSUME TypeOK, ServerInv, NextEvent
  PROVE  ServerInv'
<1>1. PICK e \in batch : /\ batch' = batch \ {e} /\ current' = e
                         /\ pc' = Handler(e.tag)
  BY DEF NextEvent
<1>2. UNCHANGED <<conn, peer_closed, tables>>
  BY DEF NextEvent, peers
<1>3. Service!Open' = Service!Open
  BY <1>2 DEF Service!Open
<1>4. pc' = "client" => e.tag = "Client"
  BY <1>1 DEF Handler, TypeOK, Event, Tag
<1>5. TablesAgree'
  BY <1>2, <1>3 DEF ServerInv, TablesAgree, tables
<1>6. EventsAreFresh'
  BY <1>1, <1>2, <1>4 DEF ServerInv, EventsAreFresh, tables
<1>7. OneEventPerClient'
  BY <1>1, <1>4 DEF ServerInv, OneEventPerClient
<1>8. EventsNameClients' /\ HangUpsAreTrue'
  BY <1>1, <1>2 DEF ServerInv, EventsNameClients, HangUpsAreTrue
<1>. QED
  BY <1>5, <1>6, <1>7, <1>8 DEF ServerInv

LEMMA HandleClientStep ==
  ASSUME TypeOK, ServerInv, NEW c \in Clients, HandleClient(c)
  PROVE  ServerInv'
<1>1. pc = "client" /\ peer_closed' = peer_closed
  BY DEF HandleClient, NothingToRead, ReadError, HandleWrong, HandleGarbage,
         HandleQuery, HandleQueryFails, HandleSpawn, HandleSpawnFails, HandleExit,
         Receive, Reading
<1>2. CASE UNCHANGED <<conn, tables, loop>>
  <2>1. Service!Open' = Service!Open
    BY <1>2 DEF Service!Open
  <2>. QED
    BY <1>1, <1>2, <2>1, UndisturbedStep DEF loop
<1>3. CASE CheckHangUp
  BY <1>1, <1>3, CheckHangUpStep
<1>4. CASE RemoveClientSocket(current.fd)
  BY <1>1, <1>4, RemoveStep
<1>5. CASE HandleExit(c)
  BY <1>1, <1>5, StopStep DEF HandleExit
<1>. QED
  BY <1>2, <1>3, <1>4, <1>5
     DEF HandleClient, NothingToRead, ReadError, HandleWrong, HandleGarbage,
         HandleQuery, HandleQueryFails, HandleSpawn, HandleSpawnFails

LEMMA NextServerInv == TypeOK /\ ServerInv /\ [Next]_vars => ServerInv'
<1>. SUFFICES ASSUME TypeOK, ServerInv, [Next]_vars PROVE ServerInv'
  OBVIOUS
<1>1. CASE UNCHANGED vars
  <2>1. Service!Open' = Service!Open
    BY <1>1 DEF vars, peers, Service!Open
  <2>. QED
    BY <1>1, <2>1, UndisturbedStep DEF vars, peers, loop
<1>2. CASE Environment
  <2>1. UNCHANGED <<tables, loop>>
    BY <1>2 DEF Environment, Connect, SendRequest, ReadReply, CloseConnection,
                ShutDownSending, ChildExits, Terminate
  <2>2. Service!Open' = Service!Open
    BY <1>2 DEF Environment, Connect, Service!Connect, SendRequest, Service!Send,
                ReadReply, CloseConnection, Service!Close, ShutDownSending,
                ChildExits, Service!ChildExits, Terminate, peers, Service!Open, TypeOK
  <2>3. \A c \in Clients : peer_closed[c] => peer_closed'[c]
    BY <1>2 DEF Environment, Connect, Service!Connect, SendRequest, Service!Send,
                ReadReply, CloseConnection, Service!Close, ShutDownSending,
                ChildExits, Service!ChildExits, Terminate, peers, TypeOK
  <2>. QED
    BY <2>1, <2>2, <2>3, UndisturbedStep DEF loop
<1>3. CASE Wait \/ NextEvent
  BY <1>3, WaitStep, NextEventStep
<1>4. CASE EventError \/ AcceptFails \/ ReadTermination
  BY <1>4, StopStep DEF EventError, AcceptFails, ReadTermination, peers
<1>5. CASE \E c \in Clients : HandleClient(c) \/ AcceptClient(c)
  BY <1>5, HandleClientStep, AcceptStep
<1>6. ASSUME NEW c \in Clients, RefuseClient(c) PROVE ServerInv'
  <2>1. Service!Open' = Service!Open
    BY <1>6 DEF RefuseClient, Service!Open, TypeOK
  <2>. QED
    BY <1>6, <2>1, UndisturbedStep DEF RefuseClient, EventHandled
<1>7. CASE \/ BatchDone \/ AcceptDone \/ ReadSigchld \/ SignalsDone \/ ReapDone
           \/ \E p \in Pids : Reap(p)
  <2>1. UNCHANGED <<conn, peer_closed, tables>>
    BY <1>7 DEF BatchDone, AcceptDone, ReadSigchld, SignalsDone, ReapDone, Reap, peers
  <2>2. Service!Open' = Service!Open
    BY <2>1 DEF Service!Open
  <2>3. /\ batch' = batch /\ current' \in {current, NoEvent}
        /\ pc' = "client" => pc = "client" /\ current' = current
    BY <1>7 DEF BatchDone, AcceptDone, ReadSigchld, SignalsDone, ReapDone, Reap,
                EventHandled, Continue, loop
  <2>. QED
    BY <2>1, <2>2, <2>3, UndisturbedStep
<1>. QED
  BY <1>1, <1>2, <1>3, <1>4, <1>5, <1>6, <1>7 DEF Next, ServeStep

(* The inductive invariant of the event loop: the tables agree, and every  *)
(* event that is handled or waits in the batch names the connection it was *)
(* reported for.                                                           *)
THEOREM LoopInvariant == Spec => []ServerInv
<1>1. TypeOK /\ ServerInv /\ [Next]_vars => ServerInv'
  BY NextServerInv
<1>. QED
  BY <1>1, InitServerInv, TypeCorrect, PTL DEF Spec

(* check_epoll_events never acts on a descriptor number that has come to   *)
(* mean another connection, for any number of clients and any batch.       *)
THEOREM EventsStayFresh == Spec => []EventsAreFresh
<1>1. ServerInv => EventsAreFresh
  BY DEF ServerInv
<1>. QED
  BY <1>1, LoopInvariant, PTL

(* client_sockets, the epoll set and the descriptors agree, and the table  *)
(* never holds more than BUFFER_SIZE_CLIENT_SOCKETS clients.               *)
THEOREM TablesStayConsistent == Spec => []TablesAgree
<1>1. ServerInv => TablesAgree
  BY DEF ServerInv
<1>. QED
  BY <1>1, LoopInvariant, PTL

-----------------------------------------------------------------------------
(* The event loop implements the service.                                  *)

LEMMA InitRefines == Init => Service!Init
  BY DEF Init, Service!Init, stopped

(* The table holds as many descriptors as connections are open.            *)
LEMMA TableCountsOpen ==
  ASSUME TypeOK, ServerInv
  PROVE  Cardinality(Service!Open) = Cardinality(client_sockets)
<1>. DEFINE f == [c \in Service!Open |-> client_fd[c]]
<1>1. IsFiniteSet(Service!Open)
  BY FS_Subset, ProtocolAssumption DEF Service!Open
<1>2. f \in Bijection(Service!Open, client_sockets)
  BY DEF ServerInv, TablesAgree, Bijection, Injection, Surjection, IsInjective
<1>3. ExistsBijection(Service!Open, client_sockets)
  BY <1>2 DEF ExistsBijection
<1>. QED
  BY <1>1, <1>3, FS_Bijection

(* What the handlers read from is the connection of the event, and it is   *)
(* open.                                                                   *)
LEMMA ReadingIsOpen ==
  ASSUME TypeOK, ServerInv, NEW c \in Clients, Reading(c)
  PROVE  c = current.of /\ conn[c] = "open" /\ pc = "client"
  BY CurrentIsOpen DEF Reading

LEMMA RemoveRefines ==
  ASSUME TypeOK, ServerInv, NEW c \in Clients, Reading(c),
         RemoveClientSocket(current.fd)
  PROVE  conn' = [conn EXCEPT ![c] = "dropped"] /\ ~ stopped /\ ~ stopped'
  BY ReadingIsOpen, RemoveCurrent DEF EventHandled, stopped

(* A hang-up that was reported is true, so the peer has closed.            *)
LEMMA CheckHangUpRefines ==
  ASSUME TypeOK, ServerInv, NEW c \in Clients, Reading(c), CheckHangUp
  PROVE  /\ \/ conn' = conn
            \/ peer_closed[c] /\ conn' = [conn EXCEPT ![c] = "dropped"]
         /\ ~ stopped /\ ~ stopped'
<1>1. CASE current.hup
  <2>1. peer_closed[c]
    BY <1>1, ReadingIsOpen DEF ServerInv, HangUpsAreTrue, EventsAreFresh
  <2>. QED
    BY <1>1, <2>1, RemoveRefines DEF CheckHangUp
<1>2. CASE ~ current.hup
  BY <1>2, ReadingIsOpen DEF CheckHangUp, EventHandled, stopped
<1>. QED
  BY <1>1, <1>2

LEMMA ReceiveRefines ==
  ASSUME TypeOK, ServerInv, NEW c \in Clients, NEW request, Receive(c, request)
  PROVE  Service!Take(c, request) /\ Reading(c)
  BY ReadingIsOpen DEF Receive, Service!Take, Unhandled, stopped

LEMMA HandleClientRefines ==
  ASSUME TypeOK, ServerInv, NEW c \in Clients, HandleClient(c)
  PROVE  Service!Next \/ UNCHANGED Service!service
<1>1. CASE NothingToRead(c)
  <2>1. /\ Reading(c) /\ CheckHangUp
        /\ UNCHANGED <<peer_closed, sent, taken, replies, child>>
    BY <1>1 DEF NothingToRead
  <2>2. Service!Drop(c) \/ UNCHANGED Service!service
    BY <2>1, CheckHangUpRefines, ReadingIsOpen DEF Service!Drop, Service!service, stopped
  <2>. QED
    BY <2>2 DEF Service!Next
<1>2. CASE ReadError(c)
  <2>1. /\ Reading(c) /\ RemoveClientSocket(current.fd) /\ peer_closed[c]
        /\ UNCHANGED <<peer_closed, sent, taken, replies, child>>
    BY <1>2 DEF ReadError, Broken
  <2>2. Service!Drop(c)
    BY <2>1, RemoveRefines, ReadingIsOpen DEF Service!Drop, stopped
  <2>. QED
    BY <2>2 DEF Service!Next
<1>3. CASE HandleWrong(c)
  <2>1. Service!Ignore(c)
    BY <1>3, ReceiveRefines DEF HandleWrong, loop, Service!Ignore, stopped
  <2>. QED
    BY <2>1 DEF Service!Next
<1>4. CASE HandleGarbage(c)
  <2>1. Service!Ignore(c)
    BY <1>4, ReceiveRefines, CheckHangUpRefines
       DEF HandleGarbage, Service!Ignore, stopped
  <2>. QED
    BY <2>1 DEF Service!Next
<1>5. CASE HandleQuery(c)
  <2>1. Service!Answer(c)
    BY <1>5, ReceiveRefines DEF HandleQuery, SendReply, loop, Service!Answer, stopped
  <2>. QED
    BY <2>1 DEF Service!Next
<1>6. CASE HandleQueryFails(c)
  <2>1. PICK request \in {"IdentityQuery", "Stat"} : Receive(c, request)
    BY <1>6 DEF HandleQueryFails
  <2>2. request \in Service!Answerable \ {"Exit"}
    BY DEF Service!Answerable
  <2>3. Service!Fail(c)
    BY <1>6, <2>1, <2>2, ReceiveRefines, RemoveRefines
       DEF HandleQueryFails, Service!Fail, stopped
  <2>. QED
    BY <2>3 DEF Service!Next
<1>7. CASE HandleSpawn(c)
  <2>1. PICK request \in Forking, p \in Pids :
          /\ Receive(c, request) /\ child[p] = "none"
          /\ child' = [child EXCEPT ![p] = "running"]
          /\ IF CanSend(c)
             THEN SendReply(c, request, p) /\ UNCHANGED <<conn, tables, loop>>
             ELSE RemoveClientSocket(current.fd) /\ UNCHANGED <<replies, unread>>
    BY <1>7 DEF HandleSpawn
  <2>2. Service!Take(c, request) /\ Reading(c) /\ UNCHANGED <<peer_closed, sent>>
    BY <1>7, <2>1, ReceiveRefines DEF HandleSpawn
  <2>3. CASE CanSend(c)
    <3>1. Service!Spawn(c)
      BY <2>1, <2>2, <2>3 
         DEF SendReply, loop, Service!Spawn, Forking, Service!Forking, stopped
    <3>. QED
      BY <3>1 DEF Service!Next
  <2>4. CASE ~ CanSend(c)
    <3>1. request \in Service!Answerable \ {"Exit"} /\ request \in Service!Forking
      BY DEF Forking, Service!Forking, Service!Answerable
    <3>2. Service!Fail(c)
      BY <2>1, <2>2, <2>4, <3>1, RemoveRefines DEF Service!Fail, stopped
    <3>. QED
      BY <3>2 DEF Service!Next
  <2>. QED
    BY <2>3, <2>4
<1>8. CASE HandleSpawnFails(c)
  <2>1. PICK request \in Forking : Receive(c, request)
    BY <1>8 DEF HandleSpawnFails
  <2>2. request \in Service!Answerable \ {"Exit"}
    BY DEF Forking, Service!Forking, Service!Answerable
  <2>3. Service!Fail(c)
    BY <1>8, <2>1, <2>2, ReceiveRefines, RemoveRefines
       DEF HandleSpawnFails, Service!Fail, stopped
  <2>. QED
    BY <2>3 DEF Service!Next
<1>9. CASE HandleExit(c)
  <2>1. Service!Exit(c)
    BY <1>9, ReceiveRefines DEF HandleExit, SendReply, Stop, Service!Exit, stopped
  <2>. QED
    BY <2>1 DEF Service!Next
<1>. QED
  BY <1>1, <1>2, <1>3, <1>4, <1>5, <1>6, <1>7, <1>8, <1>9 DEF HandleClient

(* The instance has a copy of the definition of Cardinality.               *)
LEMMA SameCardinality == Service!Cardinality(Service!Open) = Cardinality(Service!Open)
  BY DEF Service!Cardinality, Cardinality

LEMMA AcceptRefines ==
  ASSUME TypeOK, ServerInv, NEW c \in Clients, AcceptClient(c) \/ RefuseClient(c)
  PROVE  Service!Accept(c) \/ Service!Refuse(c)
<1>1. /\ Cardinality(Service!Open) = Cardinality(client_sockets)
      /\ Cardinality(client_sockets) \in Nat
      /\ Cardinality(client_sockets) <= MaxClients
  BY TableCountsOpen, ClientSocketsFinite DEF ServerInv, TablesAgree
<1>2. CASE AcceptClient(c)
  <2>1. Cardinality(Service!Open) < MaxClients
    BY <1>1, <1>2, ProtocolAssumption DEF AcceptClient
  <2>2. /\ pc = "accept" /\ pc' = pc /\ conn[c] = "backlog"
        /\ conn' = [conn EXCEPT ![c] = "open"]
        /\ UNCHANGED <<peer_closed, sent, taken, replies, child>>
    BY <1>2 DEF AcceptClient, loop
  <2>. QED
    BY <1>2, <2>1, <2>2, SameCardinality DEF Service!Accept, stopped
<1>3. CASE RefuseClient(c)
  <2>1. Cardinality(Service!Open) = MaxClients
    BY <1>1, <1>3 DEF RefuseClient
  <2>2. /\ pc = "accept" /\ pc' = "events" /\ conn[c] = "backlog"
        /\ conn' = [conn EXCEPT ![c] = "refused"]
        /\ UNCHANGED <<peer_closed, sent, taken, replies, child>>
    BY <1>3 DEF RefuseClient, EventHandled
  <2>. QED
    BY <2>1, <2>2, SameCardinality DEF Service!Refuse, stopped
<1>. QED
  BY <1>2, <1>3

LEMMA NextRefines ==
  TypeOK /\ ServerInv /\ [Next]_vars => [Service!Next]_(Service!service)
<1>. SUFFICES ASSUME TypeOK, ServerInv, [Next]_vars
              PROVE  Service!Next \/ UNCHANGED Service!service
  OBVIOUS
<1>1. CASE UNCHANGED vars
  BY <1>1 DEF vars, peers, loop, Service!service, stopped
<1>2. CASE Environment
  <2>1. ASSUME NEW c \in Clients, Connect(c) \/ CloseConnection(c)
        PROVE  Service!Next
    BY <2>1 DEF Connect, CloseConnection, Service!Next
  <2>2. ASSUME NEW c \in Clients, SendRequest(c) PROVE Service!Next
    BY <2>2 DEF SendRequest, Service!Next
  <2>3. ASSUME NEW p \in Pids, ChildExits(p) PROVE Service!Next
    BY <2>3 DEF ChildExits, Service!Next
  <2>4. ASSUME NEW c \in Clients, ReadReply(c) \/ ShutDownSending(c)
        PROVE  UNCHANGED Service!service
    BY <2>4 DEF ReadReply, ShutDownSending, peers, loop, Service!service, stopped
  <2>5. CASE Terminate
    BY <2>5 DEF Terminate, peers, loop, Service!service, stopped
  <2>. QED
    BY <1>2, <2>1, <2>2, <2>3, <2>4, <2>5 DEF Environment
<1>3. CASE Wait \/ BatchDone \/ AcceptDone \/ ReadSigchld \/ SignalsDone \/ ReapDone
  BY <1>3 DEF Wait, BatchDone, AcceptDone, ReadSigchld, SignalsDone, ReapDone,
              Continue, EventHandled, peers, Service!service, stopped
<1>4. CASE NextEvent
  BY <1>4 DEF NextEvent, Handler, peers, Service!service, stopped, TypeOK, Event, Tag
<1>5. CASE EventError \/ AcceptFails \/ ReadTermination
  <2>1. Service!Stop
    BY <1>5 DEF EventError, AcceptFails, ReadTermination, Stop, peers,
                Service!Stop, stopped
  <2>. QED
    BY <2>1 DEF Service!Next
<1>6. CASE \E c \in Clients : HandleClient(c)
  BY <1>6, HandleClientRefines
<1>7. CASE \E c \in Clients : AcceptClient(c) \/ RefuseClient(c)
  BY <1>7, AcceptRefines DEF Service!Next
<1>8. ASSUME NEW p \in Pids, Reap(p) PROVE Service!Next
  <2>1. Service!Collect(p)
    BY <1>8 DEF Reap, loop, Service!Collect, stopped
  <2>. QED
    BY <2>1 DEF Service!Next
<1>. QED
  BY <1>1, <1>2, <1>3, <1>4, <1>5, <1>6, <1>7, <1>8 DEF Next, ServeStep

(* The event loop implements the service of ZygoteService, for any number  *)
(* of clients and requests, whatever the batches and the order in which    *)
(* check_epoll_events handles their events.                                *)
THEOREM Implementation == Spec => ImplementsService
<1>1. TypeOK /\ ServerInv /\ [Next]_vars => [Service!Next]_(Service!service)
  BY NextRefines
<1>. QED
  BY <1>1, InitRefines, TypeCorrect, LoopInvariant, PTL
     DEF Spec, ImplementsService, Service!Spec

-----------------------------------------------------------------------------
(* Every answer is for the request whose turn it is.  Only what the service *)
(* does matters here, so the steps are those of ZygoteService.             *)

Asked(c) == {n \in 1 .. taken[c] : sent[c][n] \in Answerable}

LEMMA AskedType ==
  ASSUME TypeOK, NEW c \in Clients
  PROVE  /\ Asked(c) \in SUBSET Int /\ IsFiniteSet(Asked(c))
         /\ \A n \in Asked(c) : n < taken[c] + 1
         /\ Expected(c) \in Seq({sent[c][n] : n \in Asked(c)})
<1>1. taken[c] \in Nat
  BY DEF TypeOK
<1>2. IsFiniteSet(1 .. taken[c])
  BY <1>1, FS_Interval
<1>3. Asked(c) \in SUBSET (1 .. taken[c])
  BY DEF Asked
<1>4. IsFiniteSet(Asked(c))
  BY <1>2, <1>3, FS_Subset
<1>5. Asked(c) \in SUBSET Int /\ \A n \in Asked(c) : n < taken[c] + 1
  BY <1>1, <1>3
<1>6. Select(sent[c], Asked(c)) \in Seq({sent[c][n] : n \in Asked(c)})
  BY <1>4, <1>5, SelectElements
<1>. QED
  BY <1>4, <1>5, <1>6 DEF Expected, Asked

(* What is sent later changes nothing about what is expected by now.       *)
LEMMA ExpectedKept ==
  ASSUME TypeOK, NEW c \in Clients, taken'[c] = taken[c],
         \A n \in 1 .. taken[c] : sent'[c][n] = sent[c][n]
  PROVE  Expected(c)' = Expected(c)
<1>1. Asked(c)' = Asked(c)
  BY DEF Asked
<1>2. \A n \in Asked(c) : sent'[c][n] = sent[c][n]
  BY DEF Asked
<1>3. Asked(c) \in SUBSET Int /\ IsFiniteSet(Asked(c))
  BY AskedType
<1>4. Select(sent'[c], Asked(c)) = Select(sent[c], Asked(c))
  BY <1>2, <1>3, SelectAgrees
<1>. QED
  BY <1>1, <1>4 DEF Expected, Asked

(* A request that is taken is expected to be answered next, anything else  *)
(* is not.                                                                 *)
LEMMA ExpectedTaken ==
  ASSUME TypeOK, NEW c \in Clients, NEW request, Service!Take(c, request), sent' = sent
  PROVE  IF request \in Answerable
         THEN Expected(c)' = Append(Expected(c), request)
         ELSE Expected(c)' = Expected(c)
<1>1. /\ taken[c] \in Nat /\ taken'[c] = taken[c] + 1
      /\ sent[c][taken[c] + 1] = request
  BY DEF Service!Take, TypeOK
<1>2. CASE request \in Answerable
  <2>1. Asked(c)' = Asked(c) \cup {taken[c] + 1}
    BY <1>1, <1>2 DEF Asked
  <2>2. Select(sent[c], Asked(c) \cup {taken[c] + 1})
          = Append(Select(sent[c], Asked(c)), sent[c][taken[c] + 1])
    <3>1. taken[c] + 1 \in Int
      BY <1>1
    <3>2. /\ Asked(c) \in SUBSET Int /\ IsFiniteSet(Asked(c))
          /\ \A n \in Asked(c) : n < taken[c] + 1
      BY AskedType
    <3>. QED
      BY <3>1, <3>2, SelectAppend, Zenon
  <2>. QED
    BY <1>1, <1>2, <2>1, <2>2 DEF Expected, Asked
<1>3. CASE request \notin Answerable
  <2>1. Asked(c)' = Asked(c)
    BY <1>1, <1>3 DEF Asked
  <2>. QED
    BY <1>3, <2>1 DEF Expected, Asked
<1>. QED
  BY <1>2, <1>3

(* An answer that is sent is behind those sent before.                     *)
LEMMA AnsweredNext ==
  ASSUME TypeOK, NEW c \in Clients, NEW request, NEW pid,
         replies' = [replies EXCEPT
                       ![c] = Append(@, [request |-> request, pid |-> pid])]
  PROVE  Answered(c)' = Append(Answered(c), request)
<1>1. replies[c] \in Seq(Reply)
  BY DEF TypeOK
<1>2. replies'[c] = Append(replies[c], [request |-> request, pid |-> pid])
  BY DEF TypeOK
<1>3. /\ DOMAIN replies[c] = 1 .. Len(replies[c]) /\ Len(replies[c]) \in Nat
      /\ DOMAIN replies'[c] = 1 .. Len(replies[c]) + 1
  BY <1>1, <1>2
<1>4. Len(Answered(c)) = Len(replies[c])
  BY <1>3 DEF Answered
<1>5. Append(Answered(c), request)
        = [i \in 1 .. Len(replies[c]) + 1 |->
             IF i = Len(replies[c]) + 1 THEN request ELSE replies[c][i].request]
  BY <1>3, <1>4 DEF Answered
<1>6. \A i \in 1 .. Len(replies[c]) + 1 :
        replies'[c][i] = IF i = Len(replies[c]) + 1
                         THEN [request |-> request, pid |-> pid] ELSE replies[c][i]
  BY <1>1, <1>2, <1>3
<1>. QED
  BY <1>3, <1>5, <1>6 DEF Answered

(* The last of the requests is the one whose answer may be missing.        *)
LEMMA ButLast ==
  ASSUME NEW S, NEW s \in Seq(S), NEW e
  PROVE  SubSeq(Append(s, e), 1, Len(Append(s, e)) - 1) = s
<1>1. Len(Append(s, e)) - 1 = Len(s) /\ Len(s) \in Nat
  OBVIOUS
<1>2. SubSeq(Append(s, e), 1, Len(s)) = [i \in 1 .. Len(s) |-> Append(s, e)[i]]
  BY <1>1
<1>3. \A i \in 1 .. Len(s) : Append(s, e)[i] = s[i]
  BY <1>1
<1>. QED
  BY <1>1, <1>2, <1>3

LEMMA InitAnswersInv == Init => AnswersInv
<1>. SUFFICES ASSUME Init PROVE AnswersInv
  OBVIOUS
<1>1. \A c \in Clients : taken[c] = 0 /\ replies[c] = <<>> /\ sent[c] = <<>>
  BY DEF Init
<1>2. TakenWereSent /\ PidsNameChildren /\ OwnProcesses
  BY <1>1 DEF TakenWereSent, PidsNameChildren, OwnProcesses
<1>3. ASSUME NEW c \in Clients
      PROVE  InOrder(c)
  <2>1. Cardinality({}) = 0
    BY FS_EmptySet
  <2>2. {n \in 1 .. taken[c] : sent[c][n] \in Answerable} = {}
    BY <1>1
  <2>3. Expected(c) = [n \in 1 .. 0 |-> sent[c][Nth({}, n)]]
    BY <2>1, <2>2, Zenon DEF Expected, Select
  <2>5. Expected(c) = <<>>
    BY <2>3
  <2>4. Answered(c) = <<>>
    BY <1>1 DEF Answered
  <2>. QED
    BY <2>4, <2>5 DEF InOrder
<1>. QED
  BY <1>2, <1>3 DEF AnswersInv, AnswersInOrder

(* A step that takes nothing and answers nothing: the connection at most   *)
(* comes to be open before anything was taken from it, or ends.            *)
LEMMA QuietConnection ==
  ASSUME TypeOK, AnswersInv, NEW c \in Clients,
         taken'[c] = taken[c], replies'[c] = replies[c],
         \A n \in 1 .. taken[c] : sent'[c][n] = sent[c][n],
         \/ conn'[c] = conn[c] \/ conn'[c] # "open" \/ conn[c] = "backlog",
         stopped => stopped'
  PROVE  InOrder(c)'
<1>1. InOrder(c) /\ taken[c] \in Nat
  BY DEF AnswersInv, AnswersInOrder, TypeOK
<1>2. Expected(c)' = Expected(c) /\ Answered(c)' = Answered(c)
  BY ExpectedKept DEF Answered
<1>3. CASE conn[c] = "backlog" /\ conn'[c] = "open"
  <2>1. taken[c] = 0
    BY <1>3 DEF AnswersInv, TakenWereSent
  <2>2. Asked(c) = {}
    BY <2>1 DEF Asked
  <2>3. Expected(c) \in Seq({sent[c][n] : n \in Asked(c)})
    BY AskedType
  <2>4. Expected(c) = <<>>
    BY <2>2, <2>3
  <2>5. SubSeq(Expected(c), 1, Len(Expected(c)) - 1) = <<>>
    BY <2>4
  <2>. QED
    BY <1>1, <1>2, <2>4, <2>5 DEF InOrder
<1>4. CASE ~(conn[c] = "backlog" /\ conn'[c] = "open")
  BY <1>1, <1>2, <1>4 DEF InOrder
<1>. QED
  BY <1>3, <1>4

(* A request that is taken from a connection in order leaves it in order:  *)
(* it is answered, needs no answer, or is the last one.                    *)
LEMMA TakingKeepsOrder ==
  ASSUME TypeOK, AnswersInv, NEW c \in Clients, NEW request,
         Service!Take(c, request), sent' = sent,
         \/ request \in Answerable /\ Answered(c)' = Append(Answered(c), request)
         \/ request \notin Answerable /\ Answered(c)' = Answered(c)
         \/ /\ request \in Answerable /\ Answered(c)' = Answered(c)
            /\ conn'[c] # "open" \/ stopped'
  PROVE  InOrder(c)'
<1>1. Answered(c) = Expected(c)
  BY DEF Service!Take, AnswersInv, AnswersInOrder, InOrder
<1>2. IF request \in Answerable
      THEN Expected(c)' = Append(Expected(c), request)
      ELSE Expected(c)' = Expected(c)
  BY ExpectedTaken
<1>3. SubSeq(Append(Expected(c), request), 1, Len(Append(Expected(c), request)) - 1)
        = Expected(c)
  BY AskedType, ButLast
<1>. QED
  BY <1>1, <1>2, <1>3 DEF InOrder

(* The connections that a step does not touch.                             *)
LEMMA OthersInOrder ==
  ASSUME TypeOK, AnswersInv, NEW c \in Clients, NEW d \in Clients, c # d,
         \/ taken' = taken \/ \E n : taken' = [taken EXCEPT ![c] = n],
         \/ replies' = replies \/ \E r : replies' = [replies EXCEPT ![c] = r],
         \/ conn' = conn \/ \E s : conn' = [conn EXCEPT ![c] = s],
         sent' = sent, stopped => stopped'
  PROVE  InOrder(d)'
<1>1. taken'[d] = taken[d] /\ replies'[d] = replies[d] /\ conn'[d] = conn[d]
  BY DEF TypeOK
<1>. QED
  BY <1>1, QuietConnection

(* A process that was forked stays forked.                                 *)
LEMMA RepliesKept ==
  ASSUME TypeOK, AnswersInv, replies' = replies,
         \A p \in Pids : child[p] # "none" => child'[p] # "none"
  PROVE  OwnProcesses' /\ PidsNameChildren'
<1>1. OwnProcesses /\ PidsNameChildren
  BY DEF AnswersInv, AnswersInOrder
<1>2. PidsNameChildren'
  BY <1>1 DEF PidsNameChildren
<1>3. OwnProcesses'
  BY <1>1, <1>2 DEF OwnProcesses, PidsNameChildren
<1>. QED
  BY <1>2, <1>3

(* A process that is forked now is named by no answer before.              *)
LEMMA ReplyAdded ==
  ASSUME TypeOK, AnswersInv, NEW c \in Clients, NEW request, NEW pid,
         replies' = [replies EXCEPT
                       ![c] = Append(@, [request |-> request, pid |-> pid])],
         IF request \in Forking
         THEN pid \in Pids /\ child[pid] = "none"
              /\ child' = [child EXCEPT ![pid] = "running"]
         ELSE pid = NoPid /\ child' = child
  PROVE  OwnProcesses' /\ PidsNameChildren'
<1>. DEFINE n == Len(replies[c]) + 1
<1>1. OwnProcesses /\ PidsNameChildren /\ NoPid \notin Pids
  BY ProtocolAssumption DEF AnswersInv, AnswersInOrder
<1>2. \A d \in Clients : replies[d] \in Seq(Reply)
  BY DEF TypeOK
<1>3. \A p \in Pids : child[p] # "none" => child'[p] # "none"
  BY DEF TypeOK
<1>4. n \notin DOMAIN replies[c] /\ DOMAIN replies'[c] = DOMAIN replies[c] \cup {n}
  BY <1>2 DEF TypeOK
<1>5. /\ replies'[c][n].request = request /\ replies'[c][n].pid = pid
      /\ \A i \in DOMAIN replies[c] : replies'[c][i] = replies[c][i]
      /\ \A d \in Clients \ {c} : replies'[d] = replies[d]
  BY <1>2 DEF TypeOK
<1>. HIDE DEF n
<1>6. \A d \in Clients : \A i \in DOMAIN replies'[d] :
        \/ i \in DOMAIN replies[d] /\ replies'[d][i] = replies[d][i]
        \/ d = c /\ i = n
  BY <1>4, <1>5
<1>7. IF request \in Forking THEN pid \in Pids /\ child'[pid] # "none" ELSE pid = NoPid
  BY DEF TypeOK
<1>8. PidsNameChildren'
  BY <1>1, <1>3, <1>5, <1>6, <1>7 DEF PidsNameChildren
<1>9. \A d \in Clients : \A i \in DOMAIN replies[d] :
        replies[d][i].pid = pid => request \notin Forking /\ replies[d][i].request \notin Forking
  BY <1>1 DEF PidsNameChildren
<1>10. ASSUME NEW d \in Clients, NEW e \in Clients,
              NEW i \in DOMAIN replies'[d], NEW j \in DOMAIN replies'[e],
              replies'[d][i].request \in Forking,
              replies'[d][i].pid = replies'[e][j].pid
       PROVE  <<d, i>> = <<e, j>> /\ child'[replies'[d][i].pid] # "none"
  <2>1. child'[replies'[d][i].pid] # "none"
    BY <1>8, <1>10 DEF PidsNameChildren
  <2>2. CASE i \in DOMAIN replies[d] /\ replies'[d][i] = replies[d][i]
             /\ j \in DOMAIN replies[e] /\ replies'[e][j] = replies[e][j]
    BY <1>1, <1>10, <2>1, <2>2 DEF OwnProcesses
  <2>3. CASE (d = c /\ i = n) \/ (e = c /\ j = n)
    BY <1>5, <1>6, <1>9, <1>10, <2>1, <2>3
  <2>. QED
    BY <1>6, <2>2, <2>3
<1>11. OwnProcesses'
  BY <1>10 DEF OwnProcesses
<1>. QED
  BY <1>8, <1>11

(* The server's own steps on a connection.                                 *)
LEMMA TakeKeepsAnswers ==
  ASSUME TypeOK, AnswersInv, NEW c \in Clients, NEW request,
         Service!Take(c, request), sent' = sent, InOrder(c)',
         \/ conn' = conn \/ conn' = [conn EXCEPT ![c] = "dropped"],
         \/ replies' = replies
         \/ \E r : replies' = [replies EXCEPT ![c] = r],
         OwnProcesses' /\ PidsNameChildren'
  PROVE  AnswersInv'
<1>1. /\ taken[c] < Len(sent[c]) /\ taken' = [taken EXCEPT ![c] = @ + 1]
      /\ conn[c] = "open" /\ ~ stopped
  BY DEF Service!Take
<1>2. TakenWereSent'
  <2>. SUFFICES ASSUME NEW d \in Clients
       PROVE  /\ taken'[d] <= Len(sent'[d])
              /\ conn'[d] \in {"none", "backlog", "refused"} => taken'[d] = 0
    BY DEF TakenWereSent
  <2>1. /\ taken[d] <= Len(sent[d]) /\ taken[d] \in Nat /\ Len(sent[d]) \in Nat
        /\ conn[d] \in {"none", "backlog", "refused"} => taken[d] = 0
    BY DEF AnswersInv, TakenWereSent, TypeOK
  <2>2. CASE d = c
    BY <1>1, <2>1, <2>2 DEF TypeOK
  <2>3. CASE d # c
    BY <1>1, <2>1, <2>3 DEF TypeOK
  <2>. QED
    BY <2>2, <2>3
<1>3. ASSUME NEW d \in Clients, d # c
      PROVE  InOrder(d)'
  BY <1>1, <1>3, OthersInOrder
<1>. QED
  BY <1>2, <1>3 DEF AnswersInv, AnswersInOrder

(* Whatever the service does on a connection, its answers stay in order.   *)
LEMMA ConnectionStep ==
  ASSUME TypeOK, AnswersInv, NEW c \in Clients,
         \/ Service!Ignore(c) \/ Service!Answer(c) \/ Service!Spawn(c)
         \/ Service!Fail(c) \/ Service!Exit(c)
  PROVE  AnswersInv'
<1>. USE DEF Answerable, Forking, Service!Answerable, Service!Forking
<1>1. CASE Service!Ignore(c)
  <2>1. PICK request \in {"Wrong", "Garbage"} : Service!Take(c, request)
    BY <1>1 DEF Service!Ignore
  <2>2. /\ UNCHANGED <<sent, replies, child>> /\ request \notin Answerable
        /\ conn' = conn \/ conn' = [conn EXCEPT ![c] = "dropped"]
    BY <1>1 DEF Service!Ignore
  <2>3. Answered(c)' = Answered(c)
    BY <2>2 DEF Answered
  <2>4. InOrder(c)'
    BY <2>1, <2>2, <2>3, TakingKeepsOrder
  <2>5. OwnProcesses' /\ PidsNameChildren'
    BY <2>2, RepliesKept
  <2>. QED
    BY <2>1, <2>2, <2>4, <2>5, TakeKeepsAnswers
<1>2. CASE Service!Answer(c)
  <2>1. PICK request \in {"IdentityQuery", "Stat"} :
          /\ Service!Take(c, request)
          /\ replies' = [replies EXCEPT
                           ![c] = Append(@, [request |-> request, pid |-> NoPid])]
    BY <1>2 DEF Service!Answer
  <2>2. UNCHANGED <<conn, sent, child>> /\ request \in Answerable /\ request \notin Forking
    BY <1>2 DEF Service!Answer
  <2>3. Answered(c)' = Append(Answered(c), request)
    BY <2>1, AnsweredNext
  <2>4. InOrder(c)'
    BY <2>1, <2>2, <2>3, TakingKeepsOrder
  <2>5. OwnProcesses' /\ PidsNameChildren'
    BY <2>1, <2>2, ReplyAdded
  <2>. QED
    BY <2>1, <2>2, <2>4, <2>5, TakeKeepsAnswers
<1>3. CASE Service!Spawn(c)
  <2>1. PICK request \in Forking, p \in Pids :
          /\ Service!Take(c, request)
          /\ child[p] = "none" /\ child' = [child EXCEPT ![p] = "running"]
          /\ replies' = [replies EXCEPT
                           ![c] = Append(@, [request |-> request, pid |-> p])]
    BY <1>3 DEF Service!Spawn
  <2>2. UNCHANGED <<conn, sent>> /\ request \in Answerable
    BY <1>3 DEF Service!Spawn
  <2>3. Answered(c)' = Append(Answered(c), request)
    BY <2>1, AnsweredNext
  <2>4. InOrder(c)'
    BY <2>1, <2>2, <2>3, TakingKeepsOrder
  <2>5. OwnProcesses' /\ PidsNameChildren'
    BY <2>1, <2>2, ReplyAdded
  <2>. QED
    BY <2>1, <2>2, <2>4, <2>5, TakeKeepsAnswers
<1>4. CASE Service!Fail(c)
  <2>1. PICK request \in Answerable \ {"Exit"} :
          /\ Service!Take(c, request)
          /\ \/ child' = child
             \/ \E p \in Pids : child[p] = "none" /\ child' = [child EXCEPT ![p] = "running"]
    BY <1>4 DEF Service!Fail
  <2>2. conn' = [conn EXCEPT ![c] = "dropped"] /\ UNCHANGED <<sent, replies>>
    BY <1>4 DEF Service!Fail
  <2>3. Answered(c)' = Answered(c) /\ conn'[c] # "open"
    BY <2>2 DEF Answered, TypeOK
  <2>4. InOrder(c)'
    BY <2>1, <2>2, <2>3, TakingKeepsOrder
  <2>5. \A p \in Pids : child[p] # "none" => child'[p] # "none"
    BY <2>1 DEF TypeOK
  <2>6. OwnProcesses' /\ PidsNameChildren'
    BY <2>2, <2>5, RepliesKept
  <2>. QED
    BY <2>1, <2>2, <2>4, <2>6, TakeKeepsAnswers
<1>5. CASE Service!Exit(c)
  <2>1. /\ Service!Take(c, "Exit") /\ stopped' /\ UNCHANGED <<conn, sent, child>>
        /\ \/ replies' = [replies EXCEPT
                            ![c] = Append(@, [request |-> "Exit", pid |-> NoPid])]
           \/ replies' = replies
    BY <1>5 DEF Service!Exit
  <2>2. \/ Answered(c)' = Append(Answered(c), "Exit")
        \/ Answered(c)' = Answered(c)
    BY <2>1, AnsweredNext DEF Answered
  <2>3. InOrder(c)'
    BY <2>1, <2>2, TakingKeepsOrder
  <2>4. OwnProcesses' /\ PidsNameChildren'
    <3>1. CASE replies' = replies
      BY <2>1, <3>1, RepliesKept
    <3>2. CASE replies' # replies
      BY <2>1, <3>2, ReplyAdded
    <3>. QED
      BY <3>1, <3>2
  <2>. QED
    BY <2>1, <2>3, <2>4, TakeKeepsAnswers
<1>. QED
  BY <1>1, <1>2, <1>3, <1>4, <1>5

(* A step that neither takes nor answers.                                  *)
LEMMA QuietStep ==
  ASSUME TypeOK, AnswersInv, UNCHANGED <<taken, replies>>,
         \A c \in Clients :
           /\ Len(sent'[c]) >= Len(sent[c])
           /\ \A n \in 1 .. taken[c] : sent'[c][n] = sent[c][n]
           /\ \/ conn'[c] = conn[c]
              \/ conn[c] \in {"none", "backlog"}
              \/ conn[c] = "open" /\ conn'[c] = "dropped",
         \A c \in Clients : conn[c] = "none" => conn'[c] # "open",
         stopped => stopped',
         \A p \in Pids : child[p] # "none" => child'[p] # "none"
  PROVE  AnswersInv'
<1>1. ASSUME NEW c \in Clients
      PROVE  InOrder(c)'
  <2>1. \/ conn'[c] = conn[c] \/ conn'[c] # "open" \/ conn[c] = "backlog"
    OBVIOUS
  <2>. QED
    BY <2>1, QuietConnection
<1>2. TakenWereSent'
  <2>. SUFFICES ASSUME NEW c \in Clients
       PROVE  /\ taken[c] <= Len(sent'[c])
              /\ conn'[c] \in {"none", "backlog", "refused"} => taken[c] = 0
    BY DEF TakenWereSent
  <2>1. /\ taken[c] <= Len(sent[c])
        /\ conn[c] \in {"none", "backlog", "refused"} => taken[c] = 0
    BY DEF AnswersInv, TakenWereSent
  <2>2. Len(sent[c]) \in Nat /\ taken[c] \in Nat
    BY DEF TypeOK
  <2>. QED
    BY <2>1, <2>2
<1>3. OwnProcesses' /\ PidsNameChildren'
  BY RepliesKept
<1>. QED
  BY <1>1, <1>2, <1>3 DEF AnswersInv, AnswersInOrder

LEMMA NextAnswersInv ==
  TypeOK /\ TypeOK' /\ AnswersInv /\ [Service!Next]_(Service!service) => AnswersInv'
<1>. SUFFICES ASSUME TypeOK, TypeOK', AnswersInv,
                     Service!Next \/ UNCHANGED Service!service
              PROVE  AnswersInv'
  OBVIOUS
<1>0. /\ \A c \in Clients : Len(sent[c]) \in Nat
      /\ \A c \in Clients : sent'[c] = sent[c] => Len(sent'[c]) >= Len(sent[c])
  BY DEF TypeOK
<1>1. CASE UNCHANGED Service!service
  BY <1>0, <1>1, QuietStep DEF Service!service
<1>2. ASSUME NEW c \in Clients,
             \/ Service!Connect(c) \/ Service!Accept(c) \/ Service!Refuse(c)
             \/ Service!Drop(c) \/ Service!Close(c)
      PROVE  AnswersInv'
  <2>1. UNCHANGED <<sent, taken, replies, child, stopped>>
    BY <1>2 DEF Service!Connect, Service!Accept, Service!Refuse, Service!Drop, Service!Close
  <2>2. \A d \in Clients :
          /\ \/ conn'[d] = conn[d]
             \/ conn[d] \in {"none", "backlog"}
             \/ conn[d] = "open" /\ conn'[d] = "dropped"
          /\ conn[d] = "none" => conn'[d] # "open"
    BY <1>2 DEF Service!Connect, Service!Accept, Service!Refuse, Service!Drop,
                Service!Close, TypeOK
  <2>. QED
    BY <1>0, <2>1, <2>2, QuietStep
<1>3. ASSUME NEW c \in Clients, NEW request \in Requests, Service!Send(c, request)
      PROVE  AnswersInv'
  <2>1. /\ sent' = [sent EXCEPT ![c] = Append(@, request)]
        /\ UNCHANGED <<conn, taken, replies, child, stopped>>
    BY <1>3 DEF Service!Send
  <2>2. ASSUME NEW d \in Clients
        PROVE  /\ Len(sent'[d]) >= Len(sent[d])
               /\ \A n \in 1 .. taken[d] : sent'[d][n] = sent[d][n]
    <3>1. sent[d] \in Seq(Request) /\ taken[d] \in Nat /\ taken[d] <= Len(sent[d])
      BY DEF TypeOK, AnswersInv, TakenWereSent
    <3>2. sent'[d] = IF d = c THEN Append(sent[d], request) ELSE sent[d]
      BY <2>1 DEF TypeOK
    <3>. QED
      BY <3>1, <3>2
  <2>. QED
    BY <2>1, <2>2, QuietStep
<1>4. ASSUME NEW c \in Clients,
             \/ Service!Ignore(c) \/ Service!Answer(c) \/ Service!Spawn(c)
             \/ Service!Fail(c) \/ Service!Exit(c)
      PROVE  AnswersInv'
  BY <1>4, ConnectionStep
<1>5. ASSUME NEW p \in Pids, Service!ChildExits(p) \/ Service!Collect(p)
      PROVE  AnswersInv'
  <2>1. UNCHANGED <<conn, sent, taken, replies, stopped>>
    BY <1>5 DEF Service!ChildExits, Service!Collect
  <2>2. \A q \in Pids : child[q] # "none" => child'[q] # "none"
    BY <1>5 DEF Service!ChildExits, Service!Collect, TypeOK
  <2>. QED
    BY <1>0, <2>1, <2>2, QuietStep
<1>6. CASE Service!Stop
  <2>1. stopped' /\ UNCHANGED <<conn, sent, taken, replies, child>>
    BY <1>6 DEF Service!Stop
  <2>. QED
    BY <1>0, <2>1, QuietStep
<1>. QED
  BY <1>1, <1>2, <1>3, <1>4, <1>5, <1>6 DEF Service!Next

(* Whatever the batches: a connection that is open has got the answer to   *)
(* every request dispatch_message_handler took from it, in their order, a  *)
(* connection that ended misses at most the last, and the pid in a         *)
(* SpawnResponse is that of a process handle_spawn forked for that request *)
(* alone.                                                                  *)
THEOREM AnswersStayInOrder == Spec => []AnswersInOrder
<1>1. TypeOK /\ TypeOK' /\ ServerInv /\ AnswersInv /\ [Next]_vars => AnswersInv'
  BY NextRefines, NextAnswersInv
<1>2. AnswersInv => AnswersInOrder
  BY DEF AnswersInv
<1>. QED
  BY <1>1, <1>2, InitAnswersInv, TypeCorrect, LoopInvariant, PTL DEF Spec

=============================================================================
