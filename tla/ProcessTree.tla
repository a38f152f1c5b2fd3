------------------------------ MODULE ProcessTree ------------------------------
(***************************************************************************)
(* The processes that grow out of a zygote and what they share outside     *)
(* themselves: the socket files and the server_ready property.  Each       *)
(* process has a copy of the Server it was forked with, and Drop for       *)
(* Server (src/zygote/src/server.rs) decides by Server::pid whether to     *)
(* remove the file named by its copy of server_socket_path.                *)
(***************************************************************************)
EXTENDS Integers

CONSTANTS
  Pids,       (* process ids the system may hand out, each once            *)
  NoPid,      (* no process                                                *)
  Paths,      (* socket paths                                              *)
  NoPath,     (* an inherited descriptor or an abstract address: no file   *)
  RootArgs,   (* socket arguments the root server may be started with      *)
  ChildArgs   (* child_socket_path of the SpawnSubspecies messages         *)

ASSUME TreeAssumption ==
  /\ NoPid \notin Pids
  /\ NoPath \notin Paths
  /\ RootArgs \subseteq Paths \cup {NoPath}
  /\ ChildArgs \subseteq Paths \cup {NoPath}

VARIABLES
  phase,   (* where each process is, see Phase                             *)
  root,    (* the process init has started last                            *)
  arg,     (* the socket argument of get_server_socket                     *)
  pid,     (* Server::pid in the copy each process has                     *)
  path,    (* Server::server_socket_path in that copy                      *)
  file,    (* the process that bound the socket file at each path          *)
  ready    (* the property zygote.zygote_next.server_ready                 *)

copy == <<arg, pid, path>>
vars == <<phase, root, copy, file, ready>>

(* reset: a subspecies child before get_server_socket; check, bind,        *)
(* listen: inside it; construct: the rest of Server::new up to Self;       *)
(* preload: from there to serve; events: the rest of                       *)
(* re_initialize_as_subspecies; serve: in the loop; drop, remove: Drop;    *)
(* gone: the process has ended or given control to an application.         *)
Phase == {"none", "reset", "check", "bind", "listen", "construct", "preload",
          "events", "serve", "drop", "remove", "gone", "crashed"}

Init ==
  /\ phase = [p \in Pids |-> "none"]
  /\ root = NoPid
  /\ arg = [p \in Pids |-> NoPath]
  /\ pid = [p \in Pids |-> NoPid]
  /\ path = [p \in Pids |-> NoPath]
  /\ file = [x \in Paths |-> NoPid]
  /\ ready = FALSE

Become(p, next) == phase' = [phase EXCEPT ![p] = next]

(* A process without a Server leaves; one with a Server drops it.          *)
GiveUp(p) == Become(p, IF pid[p] = NoPid THEN "gone" ELSE "drop")

-----------------------------------------------------------------------------
(* init starts the service, and again when it has ended; zygote_next.rc    *)
(* resets the property on a restart.                                       *)
Start(p) ==
  /\ phase[p] = "none"
  /\ root \in Pids => phase[root] \in {"gone", "crashed"}
  /\ root' = p
  /\ \E a \in RootArgs : arg' = [arg EXCEPT ![p] = a]
  /\ Become(p, IF arg'[p] = NoPath THEN "construct" ELSE "check")
  /\ ready' = FALSE
  /\ UNCHANGED <<pid, path, file>>

-----------------------------------------------------------------------------
(* get_server_socket with a path.                                          *)

(* exists(): PathExists, or on to create_bound_socket.                     *)
CheckPath(p) ==
  /\ phase[p] = "check"
  /\ IF file[arg[p]] = NoPid THEN Become(p, "bind") ELSE GiveUp(p)
  /\ UNCHANGED <<root, copy, file, ready>>

(* Faulty Bind: removes what is in the way first.                          *)
BindOver(p) ==
  /\ phase[p] = "bind"
  /\ file' = [file EXCEPT ![arg[p]] = p]
  /\ Become(p, "listen")
  /\ UNCHANGED <<root, copy, ready>>

(* bind(2) creates the file, or fails with EADDRINUSE if there is one now. *)
Bind(p) ==
  /\ phase[p] = "bind"
  /\ IF file[arg[p]] = NoPid
     THEN file' = [file EXCEPT ![arg[p]] = p] /\ Become(p, "listen")
     ELSE GiveUp(p) /\ UNCHANGED file
  /\ UNCHANGED <<root, copy, ready>>

(* A failure to set the file flags, to listen or to register the socket:   *)
(* the file stays.                                                         *)
SocketFails(p) ==
  /\ phase[p] \in {"check", "bind", "listen"}
  /\ GiveUp(p)
  /\ UNCHANGED <<root, copy, file, ready>>

RootListens(p) ==
  /\ phase[p] = "listen" /\ pid[p] = NoPid
  /\ Become(p, "construct")
  /\ UNCHANGED <<root, copy, file, ready>>

-----------------------------------------------------------------------------
(* The rest of Server::new.                                                *)

(* Faulty Construct: Server::pid is left unset.                            *)
ConstructWithoutPid(p) ==
  /\ phase[p] = "construct"
  /\ path' = [path EXCEPT ![p] = arg[p]]
  /\ Become(p, "preload")
  /\ UNCHANGED <<root, arg, pid, file, ready>>

Construct(p) ==
  /\ phase[p] = "construct"
  /\ pid' = [pid EXCEPT ![p] = p]
  /\ path' = [path EXCEPT ![p] = arg[p]]
  /\ Become(p, "preload")
  /\ UNCHANGED <<root, arg, file, ready>>

(* Before there is a Server: there is nothing to drop, the file stays.     *)
ConstructFails(p) ==
  /\ phase[p] = "construct"
  /\ Become(p, "gone")
  /\ UNCHANGED <<root, copy, file, ready>>

(* setpgid or a preload library fails: the Server is dropped.              *)
PreloadFails(p) ==
  /\ phase[p] = "preload"
  /\ Become(p, "drop")
  /\ UNCHANGED <<root, copy, file, ready>>

(* serve begins with on_server_ready.                                      *)
BeginServing(p) ==
  /\ phase[p] = "preload"
  /\ ready' = TRUE
  /\ Become(p, "serve")
  /\ UNCHANGED <<root, copy, file>>

-----------------------------------------------------------------------------
(* Forks.                                                                  *)

Inherit(p, q) ==
  /\ pid' = [pid EXCEPT ![q] = pid[p]]
  /\ path' = [path EXCEPT ![q] = path[p]]

ForkApplication(p, q) ==
  /\ phase[p] = "serve" /\ phase[q] = "none"
  /\ Inherit(p, q)
  /\ Become(q, "drop")
  /\ UNCHANGED <<root, arg, file, ready>>

ForkSubspecies(p, q) ==
  /\ phase[p] = "serve" /\ phase[q] = "none"
  /\ Inherit(p, q)
  /\ \E a \in ChildArgs : arg' = [arg EXCEPT ![q] = a]
  /\ Become(q, "reset")
  /\ UNCHANGED <<root, file, ready>>

-----------------------------------------------------------------------------
(* re_initialize_as_subspecies, the first half: the path changes.          *)

Reset(p) ==
  /\ phase[p] = "reset"
  /\ arg[p] # NoPath
  /\ Become(p, "check")
  /\ UNCHANGED <<root, copy, file, ready>>

(* A failed reset may leave the child in its parent's loop (see            *)
(* ServerDescriptors, ChildFailed), with the parent's pid and path.        *)
ResetFails(p) ==
  /\ phase[p] = "reset"
  /\ Become(p, "serve") \/ Become(p, "drop")
  /\ UNCHANGED <<root, copy, file, ready>>

(* Faulty TakePath: Server::pid is set first and the path is forgotten.    *)
TakePathAndPid(p) ==
  /\ \/ phase[p] = "listen" /\ pid[p] # NoPid
     \/ phase[p] = "reset" /\ arg[p] = NoPath
  /\ pid' = [pid EXCEPT ![p] = p]
  /\ Become(p, "events")
  /\ UNCHANGED <<root, arg, path, file, ready>>

(* The listening socket is there and registered; without a file there is   *)
(* nothing in between.                                                     *)
TakePath(p) ==
  /\ \/ phase[p] = "listen" /\ pid[p] # NoPid
     \/ phase[p] = "reset" /\ arg[p] = NoPath
  /\ path' = [path EXCEPT ![p] = arg[p]]
  /\ Become(p, "events")
  /\ UNCHANGED <<root, arg, pid, file, ready>>

(* The second half: the epoll instance and, last, the pid.                 *)
TakePid(p) ==
  /\ phase[p] = "events"
  /\ pid' = [pid EXCEPT ![p] = p]
  /\ Become(p, "serve")
  /\ UNCHANGED <<root, arg, path, file, ready>>

EventsFail(p) ==
  /\ phase[p] = "events"
  /\ Become(p, "drop")
  /\ UNCHANGED <<root, copy, file, ready>>

-----------------------------------------------------------------------------
(* The end of a process.                                                   *)

(* Exit, SIGINT, SIGTERM or an error that ends serve.                      *)
StopServing(p) ==
  /\ phase[p] = "serve"
  /\ Become(p, "drop")
  /\ UNCHANGED <<root, copy, file, ready>>

(* Faulty DropInChild: the file goes whoever drops the Server.             *)
DropRemoves(p) ==
  /\ phase[p] = "drop" /\ pid[p] # p
  /\ Become(p, "remove")
  /\ UNCHANGED <<root, copy, file, ready>>

DropInChild(p) ==
  /\ phase[p] = "drop" /\ pid[p] # p
  /\ Become(p, "gone")
  /\ UNCHANGED <<root, copy, file, ready>>

(* on_server_destroy and override_and_close.  The species is AndroidNative *)
(* and the write of the property is not refused.                           *)
DropInServer(p) ==
  /\ phase[p] = "drop" /\ pid[p] = p
  /\ ready' = FALSE
  /\ Become(p, "remove")
  /\ UNCHANGED <<root, copy, file>>

(* remove_file removes whatever has the name.                              *)
RemoveFile(p) ==
  /\ phase[p] = "remove"
  /\ file' = [x \in Paths |-> IF x = path[p] THEN NoPid ELSE file[x]]
  /\ Become(p, "gone")
  /\ UNCHANGED <<root, copy, ready>>

Crash(p) ==
  /\ phase[p] \notin {"none", "gone", "crashed"}
  /\ Become(p, "crashed")
  /\ UNCHANGED <<root, copy, file, ready>>

-----------------------------------------------------------------------------

GetServerSocket(p) == CheckPath(p) \/ Bind(p) \/ SocketFails(p)

StartServer(p) ==
  \/ Start(p) \/ RootListens(p) \/ Construct(p) \/ ConstructFails(p)
  \/ PreloadFails(p) \/ BeginServing(p)

BecomeSubspecies(p) ==
  Reset(p) \/ ResetFails(p) \/ TakePath(p) \/ TakePid(p) \/ EventsFail(p)

End(p) ==
  StopServing(p) \/ DropInChild(p) \/ DropInServer(p) \/ RemoveFile(p) \/ Crash(p)

Next ==
  \E p \in Pids :
    \/ StartServer(p) \/ GetServerSocket(p) \/ BecomeSubspecies(p) \/ End(p)
    \/ \E q \in Pids : ForkApplication(p, q) \/ ForkSubspecies(p, q)

Spec == Init /\ [][Next]_vars

-----------------------------------------------------------------------------
(* Properties                                                              *)

(* A process that has a Server knows which process constructed it.         *)
TypeOK ==
  /\ phase \in [Pids -> Phase]
  /\ root \in Pids \cup {NoPid}
  /\ arg \in [Pids -> Paths \cup {NoPath}]
  /\ pid \in [Pids -> Pids \cup {NoPid}]
  /\ path \in [Pids -> Paths \cup {NoPath}]
  /\ file \in [Paths -> Pids \cup {NoPid}]
  /\ ready \in BOOLEAN
  /\ \A p \in Pids : phase[p] \in {"preload", "reset", "events", "serve", "drop"}
                       => pid[p] # NoPid

(***************************************************************************)
(* Whoever connects to the path of a server that owns its Server reaches   *)
(* that server: no sibling that raced it between exists() and bind, no     *)
(* child with a copy of its path and no process that failed half way       *)
(* through re_initialize_as_subspecies has replaced or removed the file.   *)
(***************************************************************************)
FileIsOwners ==
  \A p \in Pids :
    /\ phase[p] \in {"preload", "serve"} /\ pid[p] = p
    /\ path[p] # NoPath
    => file[path[p]] = p

(***************************************************************************)
(* A socket file is removed by the process that bound it and by no other,  *)
(* in whatever state that process is, and never taken over.                *)
(***************************************************************************)
RemovedByItsCreator ==
  [][\A x \in Paths :
       file[x] # NoPid /\ file'[x] # file[x]
         => file'[x] = NoPid /\ phase[file[x]] = "remove"]_vars

(***************************************************************************)
(* A server that has been dropped in its own process leaves no file        *)
(* behind, so the path can be used again; one that crashed or failed       *)
(* before Server::pid was its own does (PathExists at the next start).     *)
(***************************************************************************)
ShutdownLeavesNoFile ==
  \A p \in Pids : phase[p] = "gone" /\ pid[p] = p => \A x \in Paths : file[x] # p

(***************************************************************************)
(* Why these hold: whose file is whose, at every point of every process.   *)
(* A process that binds has bound nothing before; from then on the file is *)
(* at the path its own copy of the Server names or will name, until the    *)
(* process either drops its own Server or leaves without removing it.      *)
(***************************************************************************)
UnusedIsUnknown ==
  \A q \in Pids : phase[q] = "none" =>
    /\ \A p \in Pids : pid[p] # q
    /\ \A x \in Paths : file[x] # q
    /\ pid[q] = NoPid

CopyIsOwn(p) ==
  /\ phase[p] \in {"reset", "check", "bind", "listen", "events"} => pid[p] # p
  /\ phase[p] = "construct" => pid[p] = NoPid
  /\ phase[p] \in {"preload", "remove"} => pid[p] = p
  /\ phase[p] \in {"check", "bind", "listen"} => arg[p] \in Paths

OwnsServer(p) == phase[p] \in {"preload", "serve", "drop", "remove"} /\ pid[p] = p

(* The path of the file that p has bound and is still responsible for.     *)
Holds(p, x) ==
  \/ phase[p] \in {"listen", "construct"} /\ arg[p] = x
  \/ phase[p] = "events" /\ path[p] = x
  \/ OwnsServer(p) /\ path[p] = x

(* The process has left its file behind.                                   *)
Abandoned(p) == phase[p] = "crashed" \/ (phase[p] \in {"drop", "gone"} /\ pid[p] # p)

TreeInv ==
  /\ UnusedIsUnknown
  /\ \A p \in Pids : CopyIsOwn(p)
  /\ \A p \in Pids, x \in Paths : Holds(p, x) => file[x] = p
  /\ \A p \in Pids, x \in Paths : file[x] = p => Holds(p, x) \/ Abandoned(p)

(***************************************************************************)
(* The property says that the server is ready for as long as the server    *)
(* init started serves: on_server_destroy is the callback for the          *)
(* destruction of "the zygote server in the parent process".               *)
(***************************************************************************)
ReadyWhileServing == root \in Pids /\ phase[root] = "serve" => ready

=============================================================================
