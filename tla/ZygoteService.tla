---------------------------- MODULE ZygoteService ----------------------------
(***************************************************************************)
(* What a zygote server promises the processes that talk to it, without    *)
(* its event loop: every connection is a queue of requests that are taken  *)
(* in order, one at a time; each gets its own answer before the next one   *)
(* is taken; a connection ends only when its peer has closed it or a       *)
(* request on it failed; and every child that exits is collected once.     *)
(* Module ZygoteServer shows that src/zygote/src/server.rs implements it.  *)
(***************************************************************************)
EXTENDS ZygoteProtocol

VARIABLES
  conn,         (* the server's side of each connection                    *)
  peer_closed,  (* the peer has closed its end                             *)
  sent,         (* the requests sent on the connection, all of them        *)
  taken,        (* how many of them the server has taken                   *)
  replies,      (* the answers the server has sent                         *)
  child,        (* the processes this server forked                        *)
  stopped       (* the server no longer serves                             *)

service == <<conn, peer_closed, sent, taken, replies, child, stopped>>

Init ==
  /\ conn = [c \in Clients |-> "none"]
  /\ peer_closed = [c \in Clients |-> FALSE]
  /\ sent = [c \in Clients |-> <<>>]
  /\ taken = [c \in Clients |-> 0]
  /\ replies = [c \in Clients |-> <<>>]
  /\ child = [p \in Pids |-> "none"]
  /\ stopped = FALSE

Open == {c \in Clients : conn[c] = "open"}

-----------------------------------------------------------------------------
(* The peers and the children.                                             *)

Connect(c) ==
  /\ conn[c] = "none"
  /\ conn' = [conn EXCEPT ![c] = "backlog"]
  /\ UNCHANGED <<peer_closed, sent, taken, replies, child, stopped>>

RequestsSent == {r \in Clients \X (1 .. MaxRequests) : r[2] <= Len(sent[r[1]])}

Send(c, request) ==
  /\ conn[c] \in {"backlog", "open"}
  /\ ~ peer_closed[c]
  /\ Cardinality(RequestsSent) < MaxRequests
  /\ sent' = [sent EXCEPT ![c] = Append(@, request)]
  /\ UNCHANGED <<conn, peer_closed, taken, replies, child, stopped>>

Close(c) ==
  /\ conn[c] # "none"
  /\ ~ peer_closed[c]
  /\ peer_closed' = [peer_closed EXCEPT ![c] = TRUE]
  /\ UNCHANGED <<conn, sent, taken, replies, child, stopped>>

ChildExits(p) ==
  /\ child[p] = "running"
  /\ child' = [child EXCEPT ![p] = "zombie"]
  /\ UNCHANGED <<conn, peer_closed, sent, taken, replies, stopped>>

-----------------------------------------------------------------------------
(* The server.                                                             *)

Accept(c) ==
  /\ ~ stopped
  /\ conn[c] = "backlog"
  /\ Cardinality(Open) < MaxClients
  /\ conn' = [conn EXCEPT ![c] = "open"]
  /\ UNCHANGED <<peer_closed, sent, taken, replies, child, stopped>>

Refuse(c) ==
  /\ ~ stopped
  /\ conn[c] = "backlog"
  /\ Cardinality(Open) = MaxClients
  /\ conn' = [conn EXCEPT ![c] = "refused"]
  /\ UNCHANGED <<peer_closed, sent, taken, replies, child, stopped>>

Take(c, request) ==
  /\ ~ stopped
  /\ conn[c] = "open"
  /\ taken[c] < Len(sent[c])
  /\ sent[c][taken[c] + 1] = request
  /\ taken' = [taken EXCEPT ![c] = @ + 1]

(* A message that is no request gets no answer; after one that does not    *)
(* parse the server may find the peer gone at once.                        *)
Ignore(c) ==
  /\ \E request \in {"Wrong", "Garbage"} : Take(c, request)
  /\ \/ conn' = conn
     \/ peer_closed[c] /\ conn' = [conn EXCEPT ![c] = "dropped"]
  /\ UNCHANGED <<peer_closed, sent, replies, child, stopped>>

Answer(c) ==
  /\ \E request \in {"IdentityQuery", "Stat"} :
       /\ Take(c, request)
       /\ replies' = [replies EXCEPT
                        ![c] = Append(@, [request |-> request, pid |-> NoPid])]
  /\ UNCHANGED <<conn, peer_closed, sent, child, stopped>>

(* The answer carries the pid of the process forked for this request.      *)
Spawn(c) ==
  /\ \E request \in Forking, p \in Pids :
       /\ Take(c, request)
       /\ child[p] = "none"
       /\ child' = [child EXCEPT ![p] = "running"]
       /\ replies' = [replies EXCEPT
                        ![c] = Append(@, [request |-> request, pid |-> p])]
  /\ UNCHANGED <<conn, peer_closed, sent, stopped>>

(* A request that fails is taken and ends the connection without an        *)
(* answer; a process may have been forked for it all the same.             *)
Fail(c) ==
  /\ \E request \in Answerable \ {"Exit"} :
       /\ Take(c, request)
       /\ \/ child' = child
          \/ /\ request \in Forking
             /\ \E p \in Pids : /\ child[p] = "none"
                                /\ child' = [child EXCEPT ![p] = "running"]
  /\ conn' = [conn EXCEPT ![c] = "dropped"]
  /\ UNCHANGED <<peer_closed, sent, replies, stopped>>

(* A connection is given up otherwise only once the peer has closed it.    *)
Drop(c) ==
  /\ ~ stopped
  /\ conn[c] = "open"
  /\ peer_closed[c]
  /\ conn' = [conn EXCEPT ![c] = "dropped"]
  /\ UNCHANGED <<peer_closed, sent, taken, replies, child, stopped>>

Collect(p) ==
  /\ ~ stopped
  /\ child[p] = "zombie"
  /\ child' = [child EXCEPT ![p] = "collected"]
  /\ UNCHANGED <<conn, peer_closed, sent, taken, replies, stopped>>

(* Exit is acknowledged if the peer can still be reached.                  *)
Exit(c) ==
  /\ Take(c, "Exit")
  /\ \/ replies' = [replies EXCEPT
                      ![c] = Append(@, [request |-> "Exit", pid |-> NoPid])]
     \/ replies' = replies
  /\ stopped' = TRUE
  /\ UNCHANGED <<conn, peer_closed, sent, child>>

Stop ==
  /\ ~ stopped
  /\ stopped' = TRUE
  /\ UNCHANGED <<conn, peer_closed, sent, taken, replies, child>>

Next ==
  \/ \E c \in Clients :
       \/ Connect(c) \/ Close(c)
       \/ \E request \in Requests : Send(c, request)
       \/ Accept(c) \/ Refuse(c) \/ Drop(c)
       \/ Ignore(c) \/ Answer(c) \/ Spawn(c) \/ Fail(c) \/ Exit(c)
  \/ \E p \in Pids : ChildExits(p) \/ Collect(p)
  \/ Stop

Spec == Init /\ [][Next]_service

=============================================================================
