----------------------------- MODULE ZygoteServer -----------------------------
(***************************************************************************)
(* The event loop of src/zygote/src/server.rs in the process that serves:  *)
(* epoll_wait hands check_epoll_events a batch of events, each event runs  *)
(* a loop of system calls until one would block, and meanwhile the peers   *)
(* connect, send, read and close, and the children exit.  One action is    *)
(* one turn of such a loop: one message received, handled and answered,    *)
(* one connection accepted, one signal read, one child collected.          *)
(*                                                                         *)
(* What a forked child does next is in ServerDescriptors; it leaves this   *)
(* process's state alone.                                                  *)
(***************************************************************************)
EXTENDS ZygoteProtocol

CONSTANTS
  NoConn,       (* no connection                                           *)
  ReplyQueue,   (* answers a peer may leave unread before sendmsg blocks   *)
  Terminations, (* the signals sent to end the server                      *)
  HalfClosing,  (* the peers that may shut down their sending side only    *)
  Faults        (* what may fail: "fork", "stat", "accept"                 *)

ASSUME ServerAssumption ==
  /\ NoConn \notin Clients
  /\ ReplyQueue \in Nat
  /\ Terminations \subseteq {"INT", "TERM"}
  /\ HalfClosing \subseteq Clients
  /\ Faults \subseteq {"fork", "stat", "accept"}

VARIABLES
  conn, peer_closed, sent, taken, replies, child,   (* as in ZygoteService  *)
  client_fd,       (* the descriptor of each open connection               *)
  client_sockets,  (* Server::client_sockets                               *)
  epoll_set,       (* the clients in the epoll set: descriptor and socket  *)
  pending,         (* signals queued for the signalfd                      *)
  unread,          (* answers the peer has not read yet                    *)
  silent,          (* the peers that have shut down their sending side     *)
  pc,              (* what the server does next                            *)
  batch,           (* the events of this batch still to be handled         *)
  current,         (* the event being handled                              *)
  reason           (* why serve returned                                   *)

peers == <<conn, peer_closed, sent, taken, replies, child, silent>>
tables == <<client_fd, client_sockets, epoll_set>>
loop == <<pc, batch, current, reason>>
vars == <<peers, tables, pending, unread, loop>>

(* Descriptor numbers for clients: one more than the table holds, for the  *)
(* connection that is accepted and refused.                                *)
ClientFd == 1 .. MaxClients + 1
NoFd == 0
SignalSet == {"CHLD", "INT", "TERM"}

Tag == {"Client", "Server", "Signal"}
PC == {"wait", "events", "client", "accept", "signals", "reap", "stopped"}
Reason == {"none", "exit", "signal", "epoll", "accept", "client"}

(* EpollData is a tag and a descriptor number.  `of` is the connection the *)
(* kernel reported the event for, which the code does not see.             *)
Event == [tag : Tag, fd : ClientFd \cup {NoFd}, of : Clients \cup {NoConn},
          err : BOOLEAN, hup : BOOLEAN]
NoEvent == [tag |-> "Server", fd |-> NoFd, of |-> NoConn, err |-> FALSE, hup |-> FALSE]

Init ==
  /\ conn = [c \in Clients |-> "none"]
  /\ peer_closed = [c \in Clients |-> FALSE]
  /\ sent = [c \in Clients |-> <<>>]
  /\ taken = [c \in Clients |-> 0]
  /\ replies = [c \in Clients |-> <<>>]
  /\ child = [p \in Pids |-> "none"]
  /\ client_fd = [c \in Clients |-> NoFd]
  /\ client_sockets = {}
  /\ epoll_set = {}
  /\ pending = {}
  /\ unread = [c \in Clients |-> 0]
  /\ silent = {}
  /\ pc = "wait"
  /\ batch = {}
  /\ current = NoEvent
  /\ reason = "none"

stopped == pc = "stopped"

Service == INSTANCE ZygoteService

-----------------------------------------------------------------------------
(* The peers, the children and whoever sends SIGINT or SIGTERM.            *)

Connect(c) ==
  UNCHANGED <<tables, pending, unread, silent, loop>> /\ Service!Connect(c)

SendRequest(c) ==
  /\ c \notin silent
  /\ UNCHANGED <<tables, pending, unread, silent, loop>>
  /\ \E request \in Requests : Service!Send(c, request)

ReadReply(c) ==
  /\ unread[c] > 0 /\ ~ peer_closed[c]
  /\ unread' = [unread EXCEPT ![c] = @ - 1]
  /\ UNCHANGED <<peers, tables, pending, loop>>

(* shutdown(SHUT_WR): an end of file, but no EPOLLHUP.                     *)
ShutDownSending(c) ==
  /\ c \in HalfClosing
  /\ conn[c] = "open" /\ ~ peer_closed[c] /\ c \notin silent
  /\ silent' = silent \cup {c}
  /\ UNCHANGED <<conn, peer_closed, sent, taken, replies, child>>
  /\ UNCHANGED <<tables, pending, unread, loop>>

CloseConnection(c) ==
  UNCHANGED <<tables, pending, unread, silent, loop>> /\ Service!Close(c)

(* SIGCHLD is not queued: one that is pending already stands for more.     *)
ChildExits(p) ==
  /\ UNCHANGED <<tables, unread, silent, loop>>
  /\ Service!ChildExits(p)
  /\ pending' = pending \cup {"CHLD"}

Terminate ==
  /\ \E signal \in Terminations : pending' = pending \cup {signal}
  /\ UNCHANGED <<peers, tables, unread, loop>>

(* Once serve has returned, what the others do is of no interest here.     *)
Environment ==
  /\ ~ stopped
  /\ \/ \E c \in Clients : \/ Connect(c) \/ SendRequest(c) \/ ReadReply(c)
                           \/ CloseConnection(c) \/ ShutDownSending(c)
     \/ \E p \in Pids : ChildExits(p)
     \/ Terminate

-----------------------------------------------------------------------------
(* The sockets.                                                            *)

Unhandled(c) == taken[c] < Len(sent[c])

(* A peer that closes its end with answers unread leaves an error on the   *)
(* server's: epoll reports EPOLLERR, recvmsg and sendmsg fail.             *)
Broken(c) == peer_closed[c] /\ unread[c] > 0

CanSend(c) == ~ peer_closed[c] /\ unread[c] < ReplyQueue

Backlog == {c \in Clients : conn[c] = "backlog"}
Zombies == {p \in Pids : child[p] = "zombie"}

(* What epoll_wait reports.  The buffer (BUFFER_SIZE_EPOLL_EVENTS, 32) is  *)
(* larger than the set can get, so a batch is everything that is ready.    *)
ClientEvents ==
  {[tag |-> "Client", fd |-> e[1], of |-> e[2],
    err |-> Broken(e[2]), hup |-> peer_closed[e[2]]] :
     e \in {e \in epoll_set : \/ Unhandled(e[2]) \/ peer_closed[e[2]]
                               \/ e[2] \in silent}}

ServerEvents ==
  IF Backlog = {} THEN {} ELSE {[NoEvent EXCEPT !.tag = "Server"]}

SignalEvents ==
  IF pending = {} THEN {} ELSE {[NoEvent EXCEPT !.tag = "Signal"]}

Ready == ClientEvents \cup ServerEvents \cup SignalEvents

-----------------------------------------------------------------------------
(* serve and check_epoll_events.                                           *)

Continue(next) ==
  pc' = next /\ UNCHANGED <<batch, current, reason>>

(* The next event of the batch.                                            *)
EventHandled ==
  pc' = "events" /\ current' = NoEvent /\ UNCHANGED <<batch, reason>>

(* serve returns; the events left in the batch are dropped with it.        *)
Stop(why) ==
  pc' = "stopped" /\ batch' = {} /\ current' = NoEvent /\ reason' = why

Wait ==
  /\ pc = "wait"
  /\ Ready # {}
  /\ batch' = Ready
  /\ pc' = "events"
  /\ UNCHANGED <<peers, tables, pending, unread, current, reason>>

Handler(tag) ==
  CASE tag = "Client" -> "client"
    [] tag = "Server" -> "accept"
    [] tag = "Signal" -> "signals"

NextEvent ==
  /\ pc = "events"
  /\ \E e \in batch :
       /\ ~ e.err
       /\ batch' = batch \ {e}
       /\ current' = e
       /\ pc' = Handler(e.tag)
  /\ UNCHANGED <<peers, tables, pending, unread, reason>>

(* EpollEvent::check: an error on any socket ends serve.                   *)
EventError ==
  /\ pc = "events"
  /\ \E e \in batch : e.err
  /\ Stop("epoll")
  /\ UNCHANGED <<peers, tables, pending, unread>>

BatchDone ==
  /\ pc = "events"
  /\ batch = {}
  /\ Continue("wait")
  /\ UNCHANGED <<peers, tables, pending, unread>>

(* Faulty RemoveClientSocket: closes the descriptor and leaves it to the   *)
(* kernel to take it out of the epoll set, which it does not do while a    *)
(* child holds a duplicate.                                                *)
RemoveLeavesInterest(fd) ==
  IF fd \in client_sockets
  THEN /\ client_sockets' = client_sockets \ {fd}
       /\ client_fd' = [c \in Clients |-> IF client_fd[c] = fd THEN NoFd ELSE client_fd[c]]
       /\ conn' = [c \in Clients |-> IF client_fd[c] = fd THEN "dropped" ELSE conn[c]]
       /\ EventHandled /\ UNCHANGED epoll_set
  ELSE Stop("client") /\ UNCHANGED <<tables, conn>>

(* remove_client_socket: the epoll set, client_sockets, then close; what   *)
(* is not found there ends serve.                                          *)
RemoveClientSocket(fd) ==
  IF fd \in client_sockets
  THEN /\ epoll_set' = {e \in epoll_set : e[1] # fd}
       /\ client_sockets' = client_sockets \ {fd}
       /\ client_fd' = [c \in Clients |-> IF client_fd[c] = fd THEN NoFd ELSE client_fd[c]]
       /\ conn' = [c \in Clients |-> IF client_fd[c] = fd THEN "dropped" ELSE conn[c]]
       /\ EventHandled
  ELSE Stop("client") /\ UNCHANGED <<tables, conn>>

(* Faulty CheckHangUp: EPOLLHUP is not looked at.                          *)
HangUpIgnored == EventHandled /\ UNCHANGED <<tables, conn>>

(* After handle_client_events returned PollContinue.                       *)
CheckHangUp ==
  IF current.hup
  THEN RemoveClientSocket(current.fd)
  ELSE EventHandled /\ UNCHANGED <<tables, conn>>

-----------------------------------------------------------------------------
(* handle_client_events: recvmsg and dispatch_message_handler.             *)

(* The connection behind the descriptor number of the event.               *)
Reading(c) == pc = "client" /\ client_fd[c] = current.fd

(* recvmsg would block or returns 0.                                       *)
NothingToRead(c) ==
  /\ Reading(c)
  /\ ~ Broken(c) /\ ~ Unhandled(c)
  /\ CheckHangUp
  /\ UNCHANGED <<silent, peer_closed, sent, taken, replies, child, pending,
                 unread>>

ReadError(c) ==
  /\ Reading(c)
  /\ Broken(c)
  /\ RemoveClientSocket(current.fd)
  /\ UNCHANGED <<silent, peer_closed, sent, taken, replies, child, pending,
                 unread>>

Receive(c, request) ==
  /\ Reading(c)
  /\ ~ Broken(c) /\ Unhandled(c)
  /\ sent[c][taken[c] + 1] = request
  /\ taken' = [taken EXCEPT ![c] = @ + 1]

SendReply(c, request, pid) ==
  /\ replies' = [replies EXCEPT ![c] = Append(@, [request |-> request, pid |-> pid])]
  /\ unread' = [unread EXCEPT ![c] = @ + 1]

(* Faulty HandleWrong: answers a message it does not serve.                *)
AnswerWrong(c) ==
  /\ Receive(c, "Wrong")
  /\ CanSend(c) /\ SendReply(c, "Wrong", NoPid)
  /\ UNCHANGED <<silent, conn, peer_closed, sent, child, tables, pending, loop>>

(* A message of a type the server does not serve, or with another species' *)
(* payload: logged, and the next one is read.                              *)
HandleWrong(c) ==
  /\ Receive(c, "Wrong")
  /\ UNCHANGED <<silent, conn, peer_closed, sent, replies, child, tables,
                 pending, unread, loop>>

(* Faulty HandleGarbage: treats the parse error as the client's failure.   *)
GarbageDropsClient(c) ==
  /\ Receive(c, "Garbage")
  /\ RemoveClientSocket(current.fd)
  /\ UNCHANGED <<silent, peer_closed, sent, replies, child, pending, unread>>

(* A message that does not parse ends the reading of this event.           *)
HandleGarbage(c) ==
  /\ Receive(c, "Garbage")
  /\ CheckHangUp
  /\ UNCHANGED <<silent, peer_closed, sent, replies, child, pending, unread>>

(* handle_message_identity_query and handle_message_stat.                  *)
HandleQuery(c) ==
  /\ \E request \in {"IdentityQuery", "Stat"} :
       /\ Receive(c, request)
       /\ CanSend(c)
       /\ SendReply(c, request, NoPid)
  /\ UNCHANGED <<silent, conn, peer_closed, sent, child, tables, pending, loop>>

(* Faulty HandleQueryFails: an answer that cannot be sent is only logged.  *)
QueryFailureLogged(c) ==
  /\ \E request \in {"IdentityQuery", "Stat"} :
       /\ Receive(c, request)
       /\ ~ CanSend(c) \/ (request = "Stat" /\ "stat" \in Faults)
  /\ UNCHANGED <<conn, tables, loop>>
  /\ UNCHANGED <<silent, peer_closed, sent, replies, child, pending, unread>>

HandleQueryFails(c) ==
  /\ \E request \in {"IdentityQuery", "Stat"} :
       /\ Receive(c, request)
       /\ ~ CanSend(c) \/ (request = "Stat" /\ "stat" \in Faults)
  /\ RemoveClientSocket(current.fd)
  /\ UNCHANGED <<silent, peer_closed, sent, replies, child, pending, unread>>

(* handle_spawn in the parent: fork, then the SpawnResponse.               *)
HandleSpawn(c) ==
  /\ \E request \in Forking, p \in Pids :
       /\ Receive(c, request)
       /\ child[p] = "none"
       /\ child' = [child EXCEPT ![p] = "running"]
       /\ IF CanSend(c)
          THEN SendReply(c, request, p) /\ UNCHANGED <<conn, tables, loop>>
          ELSE RemoveClientSocket(current.fd) /\ UNCHANGED <<replies, unread>>
  /\ UNCHANGED <<silent, peer_closed, sent, pending>>

HandleSpawnFails(c) ==
  /\ \E request \in Forking : Receive(c, request)
  /\ "fork" \in Faults \/ \A p \in Pids : child[p] # "none"
  /\ RemoveClientSocket(current.fd)
  /\ UNCHANGED <<silent, peer_closed, sent, replies, child, pending, unread>>

(* A failure to acknowledge is logged only.                                *)
HandleExit(c) ==
  /\ Receive(c, "Exit")
  /\ IF CanSend(c) THEN SendReply(c, "Exit", NoPid) ELSE UNCHANGED <<replies, unread>>
  /\ Stop("exit")
  /\ UNCHANGED <<silent, conn, peer_closed, sent, child, tables, pending>>

HandleClient(c) ==
  \/ NothingToRead(c) \/ ReadError(c)
  \/ HandleWrong(c) \/ HandleGarbage(c) \/ HandleQuery(c) \/ HandleQueryFails(c)
  \/ HandleSpawn(c) \/ HandleSpawnFails(c) \/ HandleExit(c)

-----------------------------------------------------------------------------
(* handle_server_events.                                                   *)

(* Faulty AcceptClient: does not look at the size of the table.            *)
AcceptUnlimited(c) ==
  /\ pc = "accept" /\ conn[c] = "backlog"
  /\ \E fd \in ClientFd :
       /\ \A d \in Clients : client_fd[d] # fd
       /\ client_fd' = [client_fd EXCEPT ![c] = fd]
       /\ client_sockets' = client_sockets \cup {fd}
       /\ epoll_set' = epoll_set \cup {<<fd, c>>}
  /\ conn' = [conn EXCEPT ![c] = "open"]
  /\ UNCHANGED <<silent, peer_closed, sent, taken, replies, child, pending,
                 unread, loop>>

(* Faulty AcceptClient: the new client is not added to the epoll set.      *)
AcceptUnpolled(c) ==
  /\ pc = "accept" /\ conn[c] = "backlog"
  /\ Cardinality(client_sockets) # MaxClients
  /\ \E fd \in ClientFd :
       /\ \A d \in Clients : client_fd[d] # fd
       /\ client_fd' = [client_fd EXCEPT ![c] = fd]
       /\ client_sockets' = client_sockets \cup {fd}
  /\ conn' = [conn EXCEPT ![c] = "open"]
  /\ UNCHANGED <<silent, peer_closed, sent, taken, replies, child, epoll_set,
                 pending, unread, loop>>

AcceptClient(c) ==
  /\ pc = "accept" /\ conn[c] = "backlog"
  /\ Cardinality(client_sockets) # MaxClients
  /\ \E fd \in ClientFd :
       /\ \A d \in Clients : client_fd[d] # fd
       /\ \A lower \in 1 .. fd - 1 : \E d \in Clients : client_fd[d] = lower
       /\ client_fd' = [client_fd EXCEPT ![c] = fd]
       /\ client_sockets' = client_sockets \cup {fd}
       /\ epoll_set' = epoll_set \cup {<<fd, c>>}
  /\ conn' = [conn EXCEPT ![c] = "open"]
  /\ UNCHANGED <<silent, peer_closed, sent, taken, replies, child, pending,
                 unread, loop>>

(* Faulty RefuseClient: leaves the connection in the backlog.              *)
RefuseLater(c) ==
  /\ pc = "accept" /\ conn[c] = "backlog"
  /\ Cardinality(client_sockets) = MaxClients
  /\ EventHandled
  /\ UNCHANGED <<peers, tables, pending, unread>>

(* TooManyClients: the new connection is closed and the loop ends.         *)
RefuseClient(c) ==
  /\ pc = "accept" /\ conn[c] = "backlog"
  /\ Cardinality(client_sockets) = MaxClients
  /\ conn' = [conn EXCEPT ![c] = "refused"]
  /\ EventHandled
  /\ UNCHANGED <<silent, peer_closed, sent, taken, replies, child, tables,
                 pending, unread>>

AcceptDone ==
  /\ pc = "accept"
  /\ Backlog = {}
  /\ EventHandled
  /\ UNCHANGED <<peers, tables, pending, unread>>

AcceptFails ==
  /\ pc = "accept"
  /\ Backlog # {} /\ "accept" \in Faults
  /\ Stop("accept")
  /\ UNCHANGED <<peers, tables, pending, unread>>

-----------------------------------------------------------------------------
(* handle_signalfd_events.                                                 *)

(* The kernel hands out the lowest signal number first.                    *)
ReadSigchld ==
  /\ pc = "signals"
  /\ pending = {"CHLD"}
  /\ pending' = {}
  /\ Continue("reap")
  /\ UNCHANGED <<peers, tables, unread>>

ReadTermination ==
  /\ pc = "signals"
  /\ pending \cap {"INT", "TERM"} # {}
  /\ Stop("signal")
  /\ UNCHANGED <<peers, tables, pending, unread>>

SignalsDone ==
  /\ pc = "signals"
  /\ pending = {}
  /\ EventHandled
  /\ UNCHANGED <<peers, tables, pending, unread>>

(* Faulty Reap: one waitid for one SIGCHLD.                                *)
ReapOne(p) ==
  /\ pc = "reap"
  /\ child[p] = "zombie"
  /\ child' = [child EXCEPT ![p] = "collected"]
  /\ Continue("signals")
  /\ UNCHANGED <<silent, conn, peer_closed, sent, taken, replies, tables,
                 pending, unread>>

(* waitid collects one child that has exited, handle_sigchld reports it.   *)
Reap(p) ==
  /\ pc = "reap"
  /\ child[p] = "zombie"
  /\ child' = [child EXCEPT ![p] = "collected"]
  /\ UNCHANGED <<silent, conn, peer_closed, sent, taken, replies, tables,
                 pending,
                 unread, loop>>

(* waitid finds no child that has exited, or no child at all.              *)
ReapDone ==
  /\ pc = "reap"
  /\ Zombies = {}
  /\ Continue("signals")
  /\ UNCHANGED <<peers, tables, pending, unread>>

-----------------------------------------------------------------------------

ServeStep ==
  \/ Wait \/ NextEvent \/ EventError \/ BatchDone
  \/ \E c \in Clients : HandleClient(c) \/ AcceptClient(c) \/ RefuseClient(c)
  \/ AcceptDone \/ AcceptFails
  \/ ReadSigchld \/ ReadTermination \/ SignalsDone \/ ReapDone
  \/ \E p \in Pids : Reap(p)

Next == Environment \/ ServeStep

Spec == Init /\ [][Next]_vars

(* The server is one thread that the kernel schedules.                     *)
FairSpec == Spec /\ WF_vars(ServeStep)

-----------------------------------------------------------------------------
(* Properties                                                              *)

TypeOK ==
  /\ conn \in [Clients -> ConnState]
  /\ peer_closed \in [Clients -> BOOLEAN]
  /\ sent \in [Clients -> Seq(Request)]
  /\ taken \in [Clients -> Nat]
  /\ replies \in [Clients -> Seq(Reply)]
  /\ child \in [Pids -> ChildState]
  /\ client_fd \in [Clients -> ClientFd \cup {NoFd}]
  /\ client_sockets \in SUBSET ClientFd
  /\ epoll_set \in SUBSET (ClientFd \X Clients)
  /\ pending \in SUBSET SignalSet
  /\ unread \in [Clients -> Nat]
  /\ silent \in SUBSET Clients
  /\ pc \in PC
  /\ batch \in SUBSET Event
  /\ current \in Event
  /\ reason \in Reason

(***************************************************************************)
(* The server is an implementation of ZygoteService: whatever the batches, *)
(* and in whatever order the events of one are handled, requests are taken *)
(* in order and answered one by one, a connection is dropped for a cause   *)
(* only, and a child is collected once.                                    *)
(***************************************************************************)
ImplementsService == Service!Spec

(***************************************************************************)
(* An event still to be handled names a descriptor that refers to the      *)
(* connection the event was reported for: handling the events before it    *)
(* closed descriptors and accepted connections, and the numbers are reused *)
(* (check_epoll_events looks at nothing but the number).                   *)
(***************************************************************************)
EventsAreFresh ==
  /\ \A e \in batch : e.tag = "Client" => client_fd[e.of] = e.fd
  /\ pc = "client" => current.tag = "Client" /\ client_fd[current.of] = current.fd

(***************************************************************************)
(* client_sockets, the epoll set and the open descriptors agree: the       *)
(* number of clients never passes the table's size, no two connections     *)
(* share a number, and no connection is open that would never be polled.   *)
(***************************************************************************)
TablesAgree ==
  /\ Cardinality(client_sockets) <= MaxClients
  /\ client_sockets = {client_fd[c] : c \in Service!Open}
  /\ epoll_set = {<<client_fd[c], c>> : c \in Service!Open}
  /\ \A c \in Clients : conn[c] = "open" <=> client_fd[c] # NoFd
  /\ \A c, d \in Service!Open : client_fd[c] = client_fd[d] => c = d

(***************************************************************************)
(* Why the event that is handled, and those behind it in the batch, stay   *)
(* good whatever handling them does to the tables: there is one per        *)
(* client, none is left for the client that is being handled, and a        *)
(* hang-up, once reported, stays true.                                     *)
(***************************************************************************)
EventsNameClients ==
  \A e \in batch \cup {current} :
    e.tag = "Client" => e.of \in Clients /\ e.fd \in ClientFd

OneEventPerClient ==
  /\ \A e, f \in batch :
       e.tag = "Client" /\ f.tag = "Client" /\ e.of = f.of => e = f
  /\ pc = "client" => \A e \in batch : e.tag = "Client" => e.of # current.of

HangUpsAreTrue ==
  \A e \in batch \cup {current} : e.tag = "Client" /\ e.hup => peer_closed[e.of]

(***************************************************************************)
(* The inductive invariant of the loop.  EventsAreFresh and TablesAgree    *)
(* need each other: remove_client_socket takes the right client out of the *)
(* tables because the event is fresh, and the other events stay fresh      *)
(* because no two clients share a descriptor.                              *)
(***************************************************************************)
ServerInv ==
  TablesAgree /\ EventsAreFresh /\ EventsNameClients /\ OneEventPerClient /\ HangUpsAreTrue

(***************************************************************************)
(* A connection that is open has got the answer to every request taken     *)
(* from it, in order; after the connection is gone at most the last is     *)
(* missing.  The pid in a SpawnResponse is that of a process forked for    *)
(* that request alone.                                                     *)
(***************************************************************************)
Expected(c) ==
  Select(sent[c], {n \in 1 .. taken[c] : sent[c][n] \in Answerable})

Answered(c) == [i \in DOMAIN replies[c] |-> replies[c][i].request]

InOrder(c) ==
  IF conn[c] = "open" /\ ~ stopped
  THEN Answered(c) = Expected(c)
  ELSE Answered(c) \in {Expected(c), SubSeq(Expected(c), 1, Len(Expected(c)) - 1)}

OwnProcesses ==
  \A c, d \in Clients : \A i \in DOMAIN replies[c], j \in DOMAIN replies[d] :
    replies[c][i].request \in Forking /\ replies[c][i].pid = replies[d][j].pid
      => <<c, i>> = <<d, j>> /\ child[replies[c][i].pid] # "none"

AnswersInOrder == (\A c \in Clients : InOrder(c)) /\ OwnProcesses

(***************************************************************************)
(* What an answer that is to come relies on: nothing is taken that was not *)
(* sent, nor from a connection before it is accepted; an answer names a    *)
(* process exactly if one was forked for it.                               *)
(***************************************************************************)
TakenWereSent ==
  \A c \in Clients :
    /\ taken[c] <= Len(sent[c])
    /\ conn[c] \in {"none", "backlog", "refused"} => taken[c] = 0

PidsNameChildren ==
  \A c \in Clients : \A i \in DOMAIN replies[c] :
    IF replies[c][i].request \in Forking
    THEN replies[c][i].pid \in Pids /\ child[replies[c][i].pid] # "none"
    ELSE replies[c][i].pid = NoPid

AnswersInv == AnswersInOrder /\ TakenWereSent /\ PidsNameChildren

(***************************************************************************)
(* A child that has exited is never forgotten: SIGCHLD is pending, or the  *)
(* waitid loop has still to find that nothing is left.                     *)
(***************************************************************************)
NoChildForgotten ==
  Zombies # {} => "CHLD" \in pending \/ pc \in {"reap", "stopped"}

(***************************************************************************)
(* The doc comment of serve: the loop runs until the server receives       *)
(* SIGTERM (or SIGINT) or an Exit message.                                 *)
(***************************************************************************)
ServesUntilAsked == stopped => reason \in {"exit", "signal"}

(***************************************************************************)
(* Every request on an open connection is eventually taken, however other  *)
(* clients' requests, hang-ups and failures fall between.                  *)
(***************************************************************************)
RequestsTaken ==
  \A c \in Clients : \A n \in 1 .. MaxRequests :
    conn[c] = "open" /\ Len(sent[c]) >= n
      ~> taken[c] >= n \/ conn[c] = "dropped" \/ stopped

(***************************************************************************)
(* Every connection that is made is eventually accepted or refused, also   *)
(* when the table is full and the accept loop ends early.                  *)
(***************************************************************************)
BacklogServed ==
  \A c \in Clients : conn[c] = "backlog" ~> conn[c] # "backlog" \/ stopped

(***************************************************************************)
(* Every child that exits is eventually collected, although SIGCHLD is     *)
(* delivered once for any number of them.                                  *)
(***************************************************************************)
ChildrenCollected ==
  \A p \in Pids : child[p] = "zombie" ~> child[p] = "collected" \/ stopped

(***************************************************************************)
(* A connection whose peer has closed it does not keep its place in the    *)
(* table.                                                                  *)
(***************************************************************************)
ClosedAreDropped ==
  \A c \in Clients : conn[c] = "open" /\ peer_closed[c] ~> conn[c] = "dropped" \/ stopped

=============================================================================
