--------------------------- MODULE ServerDescriptors ---------------------------
(***************************************************************************)
(* The descriptors of one zygote process along its life: construction of   *)
(* the Server (src/zygote/src/server.rs), serving clients, forking, and    *)
(* the three ways out: the clean-up of an application child, the           *)
(* re-initialisation of a subspecies child as a server of its own, and     *)
(* shutdown.                                                               *)
(*                                                                         *)
(* A fork leaves the parent's table and registry as they were, so the      *)
(* specification follows one process: at a fork either the parent goes on  *)
(* (a stuttering step) or the behaviour continues as the child.            *)
(***************************************************************************)
EXTENDS FdRegistry, FiniteSets

CONSTANTS
  InheritedTables,  (* descriptor tables Server::new may start from            *)
  LibraryOpens,     (* kinds the preloaded libraries' initialisers leave open  *)
  SpeciateOpens,    (* kinds the subspecies' preload function leaves open      *)
  MaxClients,       (* BUFFER_SIZE_CLIENT_SOCKETS                              *)
  MaxDepth          (* bound: nested subspecies forks                          *)

(* A starting table holds stdio and no descriptor only the server opens;   *)
(* a listening socket is there when the parent process passed one, and the *)
(* logger's descriptor because Server::new logs before anything else.      *)
StartTable(tab) ==
  /\ \A f \in Stdio : tab[f] = [kind |-> "Stdio", own |-> FALSE]
  /\ \A f \in Fd : tab[f].kind \notin {"Epoll", "Client", "Signal"}
  /\ HasLogger <=> \E f \in Fd : tab[f].kind = "Log"

ASSUME ServerAssumption ==
  /\ InheritedTables \subseteq {tab \in Table : StartTable(tab)}
  /\ LibraryOpens \subseteq Kind \ ServerKind
  /\ SpeciateOpens \subseteq Kind \ ServerKind
  /\ MaxClients \in Nat
  /\ MaxDepth \in Nat

NoFd == -1

VARIABLES
  fds,             (* the process's descriptor table                          *)
  data,            (* the registry                                            *)
  epoll_handle, server_socket, signal_fd, client_sockets,   (* Server's fields *)
  exec_spawning,   (* IS_EXEC_SPAWNING                                        *)
  pid_is_mine,     (* Server::pid is this process's pid                       *)
  phase,           (* where the process is, see Phase                         *)
  thunk,           (* serve returned Some(thunk): an application child        *)
  requester,       (* the client whose message the forked child is handling   *)
  depth,           (* number of subspecies forks behind this process          *)
  touched_parent   (* the process took an entry out of its parent's epoll set *)

server == <<epoll_handle, server_socket, signal_fd, client_sockets>>
identity == <<exec_spawning, pid_is_mine, thunk, requester, depth, touched_parent>>
vars == <<fds, data, server, phase, identity>>

(* new_*: inside Server::new; serve: in the loop or about to re-enter it;  *)
(* speciate, reset, new_listener, new_events: a subspecies child inside    *)
(* its continuation; child_failed: that continuation returned an error;    *)
(* drop: Server::drop runs; gestate: the application has control; exited:  *)
(* the process left without giving control to an application.              *)
Phase == {"new_epoll", "new_socket", "new_signal", "new_register", "preload",
          "serve", "speciate", "reset", "new_listener", "new_events",
          "child_failed", "drop", "gestate", "exited"}

Init ==
  /\ fds \in InheritedTables
  /\ data = [f \in Fd |-> IF f \in Stdio THEN NewEntry(fds, f, "Ignore") ELSE NoEntry]
  /\ epoll_handle = NoFd
  /\ server_socket = NoFd
  /\ signal_fd = NoFd
  /\ client_sockets = {}
  /\ exec_spawning \in BOOLEAN
  /\ pid_is_mine = TRUE
  /\ phase = IF exec_spawning THEN "new_register" ELSE "new_epoll"
  /\ thunk = FALSE
  /\ requester = NoFd
  /\ depth = 0
  /\ touched_parent = FALSE

-----------------------------------------------------------------------------
(* Server::new                                                             *)

NewEpoll ==
  /\ phase = "new_epoll"
  /\ \E f \in Fd :
       /\ IsLowestFree(fds, f)
       /\ fds' = Opened(fds, f, "Epoll")
       /\ CanRegister(data, fds', f, "Close")
       /\ data' = Registered(data, fds', f, "Close")
       /\ epoll_handle' = f
  /\ phase' = "new_socket"
  /\ UNCHANGED <<server_socket, signal_fd, client_sockets, identity>>

(* get_server_socket: the inherited listening socket the configuration     *)
(* names, or a new one when it names a path.                               *)
NewServerSocket ==
  /\ phase = "new_socket"
  /\ \E f \in Fd :
       /\ \/ fds[f].kind = "Listen" /\ fds' = fds
          \/ IsLowestFree(fds, f) /\ fds' = Opened(fds, f, "Listen")
       /\ CanRegister(data, fds', f, "Close")
       /\ data' = Registered(data, fds', f, "Close")
       /\ server_socket' = f
  /\ phase' = "new_signal"
  /\ UNCHANGED <<epoll_handle, signal_fd, client_sockets, identity>>

NewSignalFd ==
  /\ phase = "new_signal"
  /\ \E f \in Fd :
       /\ IsLowestFree(fds, f)
       /\ fds' = Opened(fds, f, "Signal")
       /\ CanRegister(data, fds', f, "CloseUnlessSpawnSubspecies")
       /\ data' = Registered(data, fds', f, "CloseUnlessSpawnSubspecies")
       /\ signal_fd' = f
  /\ phase' = "new_register"
  /\ UNCHANGED <<epoll_handle, server_socket, client_sockets, identity>>

RegisterInherited ==
  /\ phase = "new_register"
  /\ data' = NewlyRegistered(data, fds)
  /\ phase' = IF Refused(data, fds) = {} /\ AuditPasses(data', fds)
              THEN "preload" ELSE "exited"
  /\ UNCHANGED <<fds, server, identity>>

(* preload: what the libraries open is not registered.                     *)
Preload ==
  /\ phase = "preload"
  /\ \/ UNCHANGED fds
     \/ \E f \in Fd, kind \in LibraryOpens :
          IsLowestFree(fds, f) /\ fds' = Opened(fds, f, kind)
  /\ phase' = "serve"
  /\ UNCHANGED <<data, server, identity>>

-----------------------------------------------------------------------------
(* The serving loop, as far as it touches descriptors.                     *)

Serving == phase = "serve" /\ ~ exec_spawning

(* handle_server_events: the new client is in client_sockets before it is  *)
(* registered; a registration error ends the loop.                         *)
AcceptClient ==
  /\ Serving
  /\ Cardinality(client_sockets) < MaxClients
  /\ \E f \in Fd :
       /\ IsLowestFree(fds, f)
       /\ fds' = Opened(fds, f, "Client")
       /\ client_sockets' = client_sockets \cup {f}
       /\ IF CanRegister(data, fds', f, "Close")
          THEN /\ data' = Registered(data, fds', f, "Close")
               /\ phase' = phase
          ELSE /\ data' = data
               /\ phase' = "drop"
  /\ UNCHANGED <<epoll_handle, server_socket, signal_fd, identity>>

(* Faulty RemoveClient: does not tell the registry.                        *)
RemoveKeepsEntry ==
  /\ Serving
  /\ \E f \in client_sockets :
       /\ fds' = ClosedFd(fds, f)
       /\ client_sockets' = client_sockets \ {f}
  /\ UNCHANGED <<epoll_handle, server_socket, signal_fd, data, phase, identity>>

(* remove_client_socket, called on hang-up or after a ClientError: the     *)
(* registry, the epoll set, client_sockets, the descriptor.                *)
RemoveClient ==
  /\ Serving
  /\ \E f \in client_sockets :
       /\ HasEntry(data, f)
       /\ data' = Removed(data, f)
       /\ fds' = ClosedFd(fds, f)
       /\ client_sockets' = client_sockets \ {f}
  /\ UNCHANGED <<epoll_handle, server_socket, signal_fd, phase, identity>>

(* handle_message_spawn, in the child: a Trampoline, so serve returns and  *)
(* the Server is dropped before the application's code runs.               *)
ForkApplication ==
  /\ Serving
  /\ client_sockets # {}
  /\ fds' = Forked(fds)
  /\ pid_is_mine' = FALSE
  /\ thunk' = TRUE
  /\ phase' = "drop"
  /\ UNCHANGED <<data, server, exec_spawning, requester, depth, touched_parent>>

(* handle_message_exec_spawn: no fork, the Server is consumed; a message   *)
(* without spawn parameters is an error and gives no thunk.                *)
ExecSpawn ==
  /\ phase = "serve" /\ exec_spawning
  /\ thunk' \in BOOLEAN
  /\ phase' = "drop"
  /\ UNCHANGED <<fds, data, server, exec_spawning, pid_is_mine, requester,
                 depth, touched_parent>>

(* handle_message_spawn_subspecies, in the child.                          *)
ForkSubspecies ==
  /\ Serving
  /\ depth < MaxDepth
  /\ \E f \in client_sockets : requester' = f
  /\ fds' = Forked(fds)
  /\ pid_is_mine' = FALSE
  /\ depth' = depth + 1
  /\ phase' = "speciate"
  /\ UNCHANGED <<data, server, exec_spawning, thunk, touched_parent>>

(* Exit, SIGINT, SIGTERM, or an error that ends serve.                     *)
StopServing ==
  /\ Serving
  /\ phase' = "drop"
  /\ UNCHANGED <<fds, data, server, identity>>

-----------------------------------------------------------------------------
(* The subspecies child.                                                   *)

(* species.speciate: the preload function may leave descriptors open.      *)
Speciate ==
  /\ phase = "speciate"
  /\ \/ UNCHANGED fds
     \/ \E f \in Fd, kind \in SpeciateOpens :
          IsLowestFree(fds, f) /\ fds' = Opened(fds, f, kind)
  /\ phase' = "reset"
  /\ UNCHANGED <<data, server, identity>>

(* reset_for_subspecies, when execute_actions(Subspecies) succeeds: the    *)
(* logger is closed and opened again, every descriptor without an entry is *)
(* registered, and the registry is audited.                                *)
ResetForSubspecies ==
  /\ phase = "reset"
  /\ HasFree(fds)
  /\ SweepPasses(WithDevNull(fds), data, "Subspecies", MaxFd + 1)
  /\ LET tab == Logged(SyncFdState(
                  SweptTable(WithDevNull(fds), data, "Subspecies", MaxFd + 1)))
         reg == SweptRegistry(data, "Subspecies", MaxFd + 1)
     IN /\ fds' = tab
        /\ data' = NewlyRegistered(reg, tab)
        /\ phase' = IF Refused(reg, tab) = {} /\ AuditPasses(data', tab)
                    THEN "new_listener" ELSE "child_failed"
  /\ UNCHANGED <<server, identity>>

(* execute_actions returns at its first error: /dev/null is not opened, or *)
(* an entry fails and the ones behind it are not executed.                 *)
ResetFails ==
  /\ phase = "reset"
  /\ \/ "devnull" \in Faults /\ UNCHANGED <<fds, data>>
     \/ /\ HasFree(fds)
        /\ \E f \in Fd :
             /\ SweepFailsAt(WithDevNull(fds), data, "Subspecies", f)
             /\ fds' = SweptTable(WithDevNull(fds), data, "Subspecies", f)
             /\ data' = SweptRegistry(data, "Subspecies", f)
  /\ phase' = "child_failed"
  /\ UNCHANGED <<server, identity>>

(* Faulty NewListener: the parent's clients stay in client_sockets.        *)
ListenerKeepsClients ==
  /\ phase = "new_listener"
  /\ \E f \in Fd :
       /\ IsLowestFree(fds, f)
       /\ fds' = Opened(fds, f, "Listen")
       /\ CanRegister(data, fds', f, "Close")
       /\ data' = Registered(data, fds', f, "Close")
       /\ server_socket' = f
  /\ phase' = "new_events"
  /\ UNCHANGED <<epoll_handle, signal_fd, client_sockets, identity>>

(* re_initialize_as_subspecies, its first half: the new listening socket.  *)
NewListener ==
  /\ phase = "new_listener"
  /\ \E f \in Fd :
       /\ IsLowestFree(fds, f)
       /\ fds' = Opened(fds, f, "Listen")
       /\ IF CanRegister(data, fds', f, "Close")
          THEN /\ data' = Registered(data, fds', f, "Close")
               /\ client_sockets' = {}
               /\ server_socket' = f
               /\ phase' = "new_events"
          ELSE /\ phase' = "child_failed"
               /\ UNCHANGED <<data, client_sockets, server_socket>>
  /\ UNCHANGED <<epoll_handle, signal_fd, identity>>

(* Its second half: the new epoll instance, and only then Server::pid.     *)
NewEvents ==
  /\ phase = "new_events"
  /\ \E f \in Fd :
       /\ IsLowestFree(fds, f)
       /\ fds' = Opened(fds, f, "Epoll")
       /\ epoll_handle' = f
       /\ IF CanRegister(data, fds', f, "Close")
          THEN /\ data' = Registered(data, fds', f, "Close")
               /\ pid_is_mine' = TRUE
               /\ phase' = "serve"
          ELSE /\ phase' = "child_failed"
               /\ UNCHANGED <<data, pid_is_mine>>
  /\ UNCHANGED <<server_socket, signal_fd, client_sockets, exec_spawning, thunk,
                 requester, depth, touched_parent>>

(* get_server_socket fails: before the socket is there (the path exists,   *)
(* ...), or in bind, fcntl or listen, which leave it open, unregistered.   *)
ListenerFails ==
  /\ phase = "new_listener" /\ "socket" \in Faults
  /\ \/ UNCHANGED fds
     \/ \E f \in Fd : IsLowestFree(fds, f) /\ fds' = Opened(fds, f, "Listen")
  /\ phase' = "child_failed"
  /\ UNCHANGED <<data, server, identity>>

(* epoll_create1 fails, or epoll_ctl does when the new instance is already *)
(* registered: Server::pid is still the parent's.                          *)
EventsFail ==
  /\ phase = "new_events" /\ "epoll" \in Faults
  /\ \/ UNCHANGED <<fds, data, epoll_handle>>
     \/ \E f \in Fd :
          /\ IsLowestFree(fds, f)
          /\ fds' = Opened(fds, f, "Epoll")
          /\ CanRegister(data, fds', f, "Close")
          /\ data' = Registered(data, fds', f, "Close")
          /\ epoll_handle' = f
  /\ phase' = "child_failed"
  /\ UNCHANGED <<server_socket, signal_fd, client_sockets, identity>>

(* The epoll set behind epoll_handle is the parent's and holds f.          *)
InParentsEpollSet(f) ==
  /\ epoll_handle \in Fd /\ fds[epoll_handle] = [kind |-> "Epoll", own |-> FALSE]
  /\ fds[f].kind = "Client"

(* check_epoll_events treats the child's error as a failure of the client: *)
(* remove_client_socket runs in the child.  If the client is removed       *)
(* without an error the child returns to the loop.  Otherwise at most the  *)
(* registry has changed: register_new may have left it unsorted, and then  *)
(* remove need not find the entry.                                         *)
ChildFailed ==
  /\ phase = "child_failed"
  /\ IF HasEntry(data, requester) /\ InParentsEpollSet(requester)
     THEN /\ data' = Removed(data, requester)
          /\ touched_parent' = TRUE
          /\ IF requester \in client_sockets
             THEN /\ client_sockets' = client_sockets \ {requester}
                  /\ fds' = ClosedFd(fds, requester)
                  /\ phase' = "serve"
             ELSE phase' = "drop" /\ UNCHANGED <<client_sockets, fds>>
     ELSE /\ data' \in {data, Removed(data, requester)}
          /\ phase' = "drop"
          /\ UNCHANGED <<fds, client_sockets, touched_parent>>
  /\ UNCHANGED <<epoll_handle, server_socket, signal_fd, exec_spawning,
                 pid_is_mine, thunk, requester, depth>>

-----------------------------------------------------------------------------
(* Drop for Server.                                                        *)

DropIsShutdown == pid_is_mine /\ ~ exec_spawning

DropInServer ==
  /\ phase = "drop" /\ DropIsShutdown
  /\ fds' = ShutdownTable(data, fds)
  /\ phase' = "exited"
  /\ UNCHANGED <<data, server, identity>>

DropInChild ==
  /\ phase = "drop" /\ ~ DropIsShutdown
  /\ HasFree(fds)
  /\ SweepPasses(WithDevNull(fds), data, "Application", MaxFd + 1)
  /\ fds' = SyncFdState(
              SweptTable(WithDevNull(fds), data, "Application", MaxFd + 1))
  /\ data' = SweptRegistry(data, "Application", MaxFd + 1)
  /\ phase' = IF thunk THEN "gestate" ELSE "exited"
  /\ UNCHANGED <<server, identity>>

(* expect() on the result of execute_actions: the process panics.          *)
DropInChildFails ==
  /\ phase = "drop" /\ ~ DropIsShutdown
  /\ \/ "devnull" \in Faults
     \/ /\ HasFree(fds)
        /\ \E f \in Fd : SweepFailsAt(WithDevNull(fds), data, "Application", f)
  /\ phase' = "exited"
  /\ UNCHANGED <<fds, data, server, identity>>

-----------------------------------------------------------------------------

Construct == \/ NewEpoll \/ NewServerSocket \/ NewSignalFd
             \/ RegisterInherited \/ Preload

Serve == \/ AcceptClient \/ RemoveClient \/ ForkApplication \/ ExecSpawn
         \/ ForkSubspecies \/ StopServing

BecomeSubspecies == \/ Speciate \/ ResetForSubspecies \/ ResetFails
                    \/ NewListener \/ ListenerFails \/ NewEvents
                    \/ EventsFail \/ ChildFailed

DropServer == DropInServer \/ DropInChild \/ DropInChildFails

Next == Construct \/ Serve \/ BecomeSubspecies \/ DropServer

Spec == Init /\ [][Next]_vars

-----------------------------------------------------------------------------
(* Properties                                                              *)

TypeOK ==
  /\ fds \in Table
  /\ data \in Registry
  /\ epoll_handle \in Fd \cup {NoFd}
  /\ server_socket \in Fd \cup {NoFd}
  /\ signal_fd \in Fd \cup {NoFd}
  /\ client_sockets \in SUBSET Fd
  /\ exec_spawning \in BOOLEAN
  /\ pid_is_mine \in BOOLEAN
  /\ phase \in Phase
  /\ thunk \in BOOLEAN
  /\ requester \in Fd \cup {NoFd}
  /\ depth \in Nat
  /\ touched_parent \in BOOLEAN


(***************************************************************************)
(* An application child that gets control holds no epoll instance, no      *)
(* listening socket, no client connection and no signalfd, of the process  *)
(* that forked it or of any server before that one.  Drop for Server       *)
(* relies on every such descriptor having been registered to be closed, in *)
(* all the orders of accepts, removals, resets and failures.               *)
(***************************************************************************)
ChildHoldsNoServerDescriptor ==
  phase = "gestate" => \A f \in Fd : fds[f].kind \notin ServerKind

(***************************************************************************)
(* Why it holds: from the end of Server::new on, every descriptor of a     *)
(* server kind has an entry that will close it and that has not been       *)
(* executed, except in a subspecies child that failed after its sweep,     *)
(* which cannot get back into the loop because the inherited epoll         *)
(* instance is gone.  (The inductive invariant behind the property above.) *)
(***************************************************************************)
WillBeClosed(entry, kind) ==
  /\ entry.action = IF kind = "Signal"
                    THEN "CloseUnlessSpawnSubspecies" ELSE "Close"
  /\ ~ entry.executed

AccountedFor(reg, tab, f) ==
  tab[f].kind \in ServerKind => WillBeClosed(reg[f], tab[f].kind)

AllAccountedFor(reg, tab) == \A f \in Fd : AccountedFor(reg, tab, f)

(* Nothing a server opens is ever opened again by path.                    *)
ReopensNoServerKind(reg) ==
  \A f \in Fd : reg[f].action = "Reopen" => reg[f].kind \notin ServerKind

NoInheritedEpoll(tab) == \A f \in Fd : tab[f] # [kind |-> "Epoll", own |-> FALSE]

DescriptorInv ==
  /\ ReopensNoServerKind(data)
  /\ phase \in {"new_epoll", "new_socket", "new_signal", "new_register"} =>
       \A f \in Fd : \/ AccountedFor(data, fds, f)
                     \/ fds[f].kind = "Listen" /\ ~ HasEntry(data, f)
  /\ phase \in {"preload", "serve", "speciate", "reset", "new_listener",
                "new_events"} => AllAccountedFor(data, fds)
  /\ phase \in {"new_listener", "new_events"} => NoInheritedEpoll(fds)
  /\ phase = "child_failed" =>
       AllAccountedFor(data, fds) \/ NoInheritedEpoll(fds)
  /\ thunk => phase \in {"drop", "gestate", "exited"}
  /\ phase = "drop" /\ thunk => AllAccountedFor(data, fds)
  /\ phase = "gestate" => thunk /\ ChildHoldsNoServerDescriptor

(***************************************************************************)
(* A process in the loop has exactly the server descriptors its fields     *)
(* name: the epoll instance and the clients are its own, a subspecies also *)
(* listens on a socket of its own, and nothing is left over from the       *)
(* process it was forked from.                                             *)
(***************************************************************************)
ServesOwnDescriptors ==
  Serving =>
    /\ epoll_handle \in Fd /\ fds[epoll_handle] = [kind |-> "Epoll", own |-> TRUE]
    /\ server_socket \in Fd /\ fds[server_socket].kind = "Listen"
    /\ depth > 0 => fds[server_socket].own
    /\ signal_fd \in Fd /\ fds[signal_fd].kind = "Signal"
    /\ \A f \in client_sockets : fds[f] = [kind |-> "Client", own |-> TRUE]
    /\ {f \in Fd : fds[f].kind \in ServerKind} =
         {epoll_handle, server_socket, signal_fd} \cup client_sockets

(***************************************************************************)
(* audit() would pass whenever the process is in the loop, so that the     *)
(* debug_assert_ok! before every fork never fires, in a subspecies either. *)
(* It holds only if no preloaded library leaves a descriptor open          *)
(* (LibraryOpens = {}): preload registers nothing, so that such a          *)
(* descriptor has no entry until a subspecies runs register_new.           *)
(***************************************************************************)
RegistryMatchesTable == Serving => AuditPasses(data, fds)

(***************************************************************************)
(* A forked child never edits the epoll set it shares with its parent:     *)
(* epoll_ctl on the inherited descriptor changes the parent's set.         *)
(***************************************************************************)
ParentEpollUntouched == ~ touched_parent

(***************************************************************************)
(* Why the last three hold as long as a sweep can only fail by itself (no  *)
(* "devnull" and no "reopen" among the faults).  An entry that is not      *)
(* closed describes the descriptor as it is, so that a sweep for a         *)
(* subspecies finds everything it has to close; what is left of the server *)
(* the child was forked from is the signalfd; and a child that fails later *)
(* has lost its parent's epoll instance, so it can neither edit it nor get *)
(* back into the loop.                                                     *)
(***************************************************************************)
EntriesHold(reg, tab) ==
  \A f \in Live(reg) : IsOpen(tab, f) /\ reg[f].kind = tab[f].kind

ServerFds(tab) == {f \in Fd : tab[f].kind \in ServerKind}

RegisteredFds == {f \in ServerFds(fds) : HasEntry(data, f)}

HasEpoll == epoll_handle \in Fd /\ fds[epoll_handle] = [kind |-> "Epoll", own |-> TRUE]
HasListener == server_socket \in Fd /\ fds[server_socket].kind = "Listen"
HasSignal == signal_fd \in Fd /\ fds[signal_fd].kind = "Signal"

Constructing == {"new_epoll", "new_socket", "new_signal", "new_register", "preload"}

(* The steps of Server::new, each with the fields it has behind it.        *)
ConstructsOwn ==
  /\ phase \in Constructing => depth = 0 /\ client_sockets = {}
  /\ phase = "new_epoll" => RegisteredFds = {}
  /\ phase = "new_socket" => HasEpoll /\ RegisteredFds = {epoll_handle}
  /\ phase = "new_signal" =>
       HasEpoll /\ HasListener /\ RegisteredFds = {epoll_handle, server_socket}
  /\ phase \in {"new_register", "preload"} /\ ~ exec_spawning =>
       HasEpoll /\ HasListener /\ HasSignal
  /\ phase = "new_register" /\ ~ exec_spawning =>
       RegisteredFds = {epoll_handle, server_socket, signal_fd}
  /\ phase = "preload" /\ ~ exec_spawning =>
       ServerFds(fds) = {epoll_handle, server_socket, signal_fd}

(* The same for a subspecies child.                                        *)
ReInitializesOwn ==
  /\ phase \in {"speciate", "reset", "new_listener", "new_events"} =>
       /\ depth > 0 /\ ~ exec_spawning /\ HasSignal
       /\ \A f \in Fd : fds[f].kind = "Signal" => f = signal_fd
  /\ phase = "new_listener" => ServerFds(fds) = {signal_fd}
  /\ phase = "new_events" =>
       /\ HasListener /\ fds[server_socket].own /\ client_sockets = {}
       /\ ServerFds(fds) = {server_socket, signal_fd}
  /\ phase = "child_failed" => NoInheritedEpoll(fds)

ServingInv ==
  /\ phase \in Constructing \cup {"serve", "speciate", "reset", "new_listener",
                               "new_events"} => EntriesHold(data, fds)
  /\ ConstructsOwn /\ ServesOwnDescriptors /\ ReInitializesOwn
  /\ ParentEpollUntouched

(* When the preloaded libraries leave nothing open, the registry and the   *)
(* table agree outright from the end of Server::new on, but for what a     *)
(* subspecies' preload function opens before the reset registers it.       *)
AuditInv ==
  phase \in {"preload", "serve", "new_listener", "new_events"} =>
    AuditPasses(data, fds)

(***************************************************************************)
(* In an application child a descriptor registered to be reopened refers   *)
(* to a kernel file structure of the child's own (Action::Reopen).         *)
(***************************************************************************)
ChildFilesAreUnique ==
  phase = "gestate" => \A f \in Fd : data[f].action = "Reopen" => fds[f].own

(***************************************************************************)
(* It holds for the children of the process that constructed the Server.   *)
(***************************************************************************)
RootChildFilesAreUnique == depth = 0 => ChildFilesAreUnique

(***************************************************************************)
(* Why: in the process that constructed the Server no entry has been       *)
(* executed before the Server is dropped, and every entry's descriptor is  *)
(* open.                                                                   *)
(***************************************************************************)
Untouched(reg, tab) ==
  \A f \in Fd : HasEntry(reg, f) =>
    /\ ~ reg[f].executed /\ IsOpen(tab, f)
    /\ reg[f].action = "Reopen" => reg[f].kind \in FileKind

RootInv ==
  /\ phase \in {"speciate", "reset", "new_listener", "new_events", "child_failed"} =>
       depth > 0
  /\ depth = 0 /\ phase \notin {"gestate", "exited"} => Untouched(data, fds)
  /\ RootChildFilesAreUnique

(***************************************************************************)
(* When the owner of the Server drops it, every registered descriptor that *)
(* is not ignored has been closed (override_and_close).                    *)
(***************************************************************************)
ShutdownClosesAll ==
  [][DropInServer => \A f \in Overridden(data) : ~ IsOpen(fds', f)]_vars

(***************************************************************************)
(* The same for the process that constructed the Server.                   *)
(***************************************************************************)
RootShutdownClosesAll ==
  [][DropInServer /\ depth = 0
       => \A f \in Overridden(data) : ~ IsOpen(fds', f)]_vars

(***************************************************************************)
(* When a subspecies resets its registry and nothing is refused, register_ *)
(* new leaves no open descriptor without an entry that accounts for it.    *)
(* (A closed entry hides what has taken its number since: a file the       *)
(* preload function left open, or the /dev/null of the sweep.)             *)
(***************************************************************************)
RegisterNewLeavesNone ==
  [][ResetForSubspecies
       => \A f \in Fd : IsOpen(fds', f) => f \in Live(data')]_vars

=============================================================================
