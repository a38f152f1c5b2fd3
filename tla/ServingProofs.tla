------------------------------ MODULE ServingProofs ------------------------------
(***************************************************************************)
(* Proofs about what a process of ServerDescriptors holds while it serves, *)
(* for every size of the descriptor table, every starting table, all that  *)
(* preloaded code may leave open and any number of generations.            *)
(***************************************************************************)
EXTENDS ServerDescriptorsProofs

-----------------------------------------------------------------------------
(* Entries and descriptors, number by number.                              *)

(* The sweep's /dev/null and the logger's descriptor take a free number.   *)
LEMMA WithDevNullAt ==
  ASSUME NEW tab \in Table, HasFree(tab), NEW g \in Fd
  PROVE  /\ tab[g] # Free => WithDevNull(tab)[g] = tab[g]
         /\ WithDevNull(tab)[g].kind # "DevNull" => WithDevNull(tab)[g] = tab[g]
<1>1. LowestFree(tab) \in Fd /\ ~ IsOpen(tab, LowestFree(tab))
  BY LowestFreeIsFree DEF IsLowestFree
<1>. QED
  BY <1>1 DEF WithDevNull, Opened, Table, IsOpen

LEMMA LoggedAt ==
  ASSUME NEW tab \in Table, NEW g \in Fd
  PROVE  /\ tab[g] # Free => Logged(tab)[g] = tab[g]
         /\ Logged(tab)[g].kind # "Log" => Logged(tab)[g] = tab[g]
<1>1. CASE Logged(tab) = tab
  BY <1>1
<1>2. CASE Logged(tab) # tab
  <2>1. /\ Logged(tab) = Opened(tab, LowestFree(tab), "Log")
        /\ LowestFree(tab) \in Fd /\ ~ IsOpen(tab, LowestFree(tab))
    BY <1>2, LowestFreeIsFree DEF Logged, IsLowestFree
  <2>. QED
    BY <2>1 DEF Opened, Table, IsOpen
<1>. QED
  BY <1>1, <1>2

(* close and the two operations on the registry touch one number.          *)
LEMMA OneNumber ==
  ASSUME NEW tab \in Table, NEW reg \in Registry, NEW f \in Fd
  PROVE  /\ ClosedFd(tab, f)[f] = Free
         /\ \A g \in Fd \ {f} : ClosedFd(tab, f)[g] = tab[g]
         /\ \A t, action :
              /\ Registered(reg, t, f, action)[f] = NewEntry(t, f, action)
              /\ \A g \in Fd \ {f} : Registered(reg, t, f, action)[g] = reg[g]
         /\ Removed(reg, f)[f] = NoEntry
         /\ \A g \in Fd \ {f} : Removed(reg, f)[g] = reg[g]
  BY DEF ClosedFd, Registered, Removed, Table, Registry

(* A new entry is there and live.                                          *)
LEMMA NewEntryIsLive ==
  ASSUME NEW tab \in Table, NEW f \in Fd, NEW action \in Action
  PROVE  NewEntry(tab, f, action) # NoEntry /\ ~ Closed(NewEntry(tab, f, action))
  BY DEF NewEntry, NoEntry, Closed, Action

(* Opening a free number and registering it keeps the live entries true.   *)
LEMMA OpenedHolds ==
  ASSUME NEW tab \in Table, NEW reg \in Registry, NEW f \in Fd, NEW kind,
         ~ IsOpen(tab, f), EntriesHold(reg, tab)
  PROVE  EntriesHold(reg, Opened(tab, f, kind))
<1>1. f \notin Live(reg)
  BY DEF EntriesHold
<1>2. \A g \in Fd \ {f} : Opened(tab, f, kind)[g] = tab[g]
  BY DEF Opened, Table
<1>. QED
  BY <1>1, <1>2 DEF EntriesHold, Live, IsOpen

LEMMA RegisteredHolds ==
  ASSUME NEW tab \in Table, NEW reg \in Registry, NEW f \in Fd,
         NEW action \in Action, IsOpen(tab, f), EntriesHold(reg, tab)
  PROVE  EntriesHold(Registered(reg, tab, f, action), tab)
<1>. DEFINE r == Registered(reg, tab, f, action)
<1>0. r[f] = NewEntry(tab, f, action)
  BY OneNumber
<1>1. r[f].kind = tab[f].kind
  BY <1>0 DEF NewEntry
<1>2. \A g \in Fd \ {f} : r[g] = reg[g]
  BY OneNumber
<1>. QED
  BY <1>1, <1>2 DEF EntriesHold, Live, HasEntry

(* So do remove_client_socket, which closes what it removes, and a fork.   *)
LEMMA RemovedHolds ==
  ASSUME NEW tab \in Table, NEW reg \in Registry, NEW f \in Fd,
         EntriesHold(reg, tab)
  PROVE  EntriesHold(Removed(reg, f), ClosedFd(tab, f))
<1>1. f \notin Live(Removed(reg, f))
  BY OneNumber DEF Live, HasEntry
<1>. QED
  BY <1>1, OneNumber DEF EntriesHold, Live, HasEntry, IsOpen

LEMMA ForkedKinds ==
  ASSUME NEW tab \in Table, NEW f \in Fd
  PROVE  /\ Forked(tab)[f].kind = tab[f].kind
         /\ IsOpen(Forked(tab), f) <=> IsOpen(tab, f)
<1>1. CASE IsOpen(tab, f)
  <2>1. tab[f] \in Description
    BY <1>1 DEF IsOpen, Table
  <2>2. Forked(tab)[f] = [tab[f] EXCEPT !.own = FALSE]
    BY <1>1 DEF Forked
  <2>3. Forked(tab)[f] # Free /\ Forked(tab)[f].kind = tab[f].kind
    BY <2>1, <2>2 DEF Description, Free, Kind, ServerKind
  <2>. QED
    BY <1>1, <2>3 DEF IsOpen
<1>2. CASE ~ IsOpen(tab, f)
  BY <1>2 DEF IsOpen, Forked
<1>. QED
  BY <1>1, <1>2

LEMMA ForkedHolds ==
  ASSUME NEW tab \in Table, NEW reg, EntriesHold(reg, tab)
  PROVE  EntriesHold(reg, Forked(tab))
  BY ForkedKinds DEF EntriesHold, Live

(* audit compares more than that.                                          *)
LEMMA AuditHolds ==
  ASSUME NEW tab, NEW reg, AuditPasses(reg, tab)
  PROVE  EntriesHold(reg, tab)
  BY DEF AuditPasses, EntriesHold, Live

(* A new descriptor of a server kind joins the others of that kind.        *)
LEMMA OpenedServerFds ==
  ASSUME NEW tab \in Table, NEW f \in Fd, ~ IsOpen(tab, f)
  PROVE  /\ \A kind \in ServerKind :
              ServerFds(Opened(tab, f, kind)) = ServerFds(tab) \cup {f}
         /\ \A kind \in Kind \ ServerKind :
              ServerFds(Opened(tab, f, kind)) = ServerFds(tab)
<1>1. f \notin ServerFds(tab)
  BY DEF ServerFds, IsOpen, Free, ServerKind
<1>2. \A kind : /\ Opened(tab, f, kind)[f].kind = kind
                /\ \A g \in Fd \ {f} : Opened(tab, f, kind)[g] = tab[g]
  BY DEF Opened, Table
<1>3. ASSUME NEW kind \in ServerKind
      PROVE  ServerFds(Opened(tab, f, kind)) = ServerFds(tab) \cup {f}
  BY <1>2 DEF ServerFds
<1>4. ASSUME NEW kind \in Kind \ ServerKind
      PROVE  ServerFds(Opened(tab, f, kind)) = ServerFds(tab)
  BY <1>1, <1>2 DEF ServerFds
<1>. QED
  BY <1>3, <1>4

LEMMA ClosedServerFds ==
  ASSUME NEW tab \in Table, NEW f \in Fd
  PROVE  ServerFds(ClosedFd(tab, f)) = ServerFds(tab) \ {f}
<1>1. ClosedFd(tab, f)[f].kind \notin ServerKind
  BY DEF ClosedFd, Table, Free, ServerKind
<1>2. \A g \in Fd \ {f} : ClosedFd(tab, f)[g] = tab[g]
  BY DEF ClosedFd, Table
<1>. QED
  BY <1>1, <1>2 DEF ServerFds

LEMMA ForkedServerFds ==
  ASSUME NEW tab \in Table
  PROVE  ServerFds(Forked(tab)) = ServerFds(tab)
  BY ForkedKinds DEF ServerFds

-----------------------------------------------------------------------------
(* Server::new.                                                            *)

LEMMA InitServing ==
  ASSUME Init
  PROVE  ServingInv
<1>. USE ServerAssumption, RegistryAssumption
<1>1. fds \in Table /\ StartTable(fds)
  BY DEF Init
<1>2. EntriesHold(data, fds)
  <2>1. ASSUME NEW f \in Live(data)
        PROVE  f \in Stdio /\ IsOpen(fds, f) /\ data[f].kind = fds[f].kind
    <3>1. f \in Stdio /\ data[f] = NewEntry(fds, f, "Ignore")
      BY DEF Init, Live, HasEntry
    <3>2. fds[f] = [kind |-> "Stdio", own |-> FALSE]
      BY <1>1, <3>1 DEF StartTable
    <3>. QED
      BY <3>1, <3>2 DEF NewEntry, IsOpen, Free
  <2>. QED
    BY <2>1 DEF EntriesHold
<1>3. RegisteredFds = {}
  BY <1>1 DEF Init, RegisteredFds, ServerFds, StartTable, HasEntry, ServerKind
<1>. QED
  BY <1>2, <1>3
     DEF Init, ServingInv, ConstructsOwn, ServesOwnDescriptors, ReInitializesOwn,
         ParentEpollUntouched, Constructing, Serving

(* A step that opens, or takes over, a descriptor of the server's and      *)
(* registers it.                                                           *)
LEMMA OpenedAndRegistered ==
  ASSUME TypeOK, NEW f \in Fd, NEW kind \in ServerKind, NEW action \in Action,
         EntriesHold(data, fds),
         \/ ~ IsOpen(fds, f) /\ fds' = Opened(fds, f, kind)
         \/ fds[f].kind = kind /\ fds' = fds,
         data' = Registered(data, fds', f, action)
  PROVE  /\ EntriesHold(data', fds')
         /\ fds'[f].kind = kind /\ \A g \in Fd \ {f} : fds'[g] = fds[g]
         /\ RegisteredFds' = RegisteredFds \cup {f}
<1>0. fds \in Table /\ data \in Registry
  BY DEF TypeOK
<1>1. fds'[f].kind = kind /\ \A g \in Fd \ {f} : fds'[g] = fds[g]
  BY <1>0 DEF Opened, Table
<1>2. EntriesHold(data, fds') /\ fds' \in Table
  BY <1>0, OpenedHolds, OpenedType, ServerKinds
<1>3. IsOpen(fds', f)
  BY <1>1 DEF IsOpen, Free, ServerKind
<1>4. EntriesHold(data', fds')
  BY <1>0, <1>2, <1>3, RegisteredHolds
<1>5. data'[f] = NewEntry(fds', f, action) /\ \A g \in Fd \ {f} : data'[g] = data[g]
  BY <1>0, OneNumber
<1>6. HasEntry(data', f)
  BY <1>2, <1>5, NewEntryIsLive DEF HasEntry
<1>7. RegisteredFds' = RegisteredFds \cup {f}
  BY <1>1, <1>5, <1>6 DEF RegisteredFds, ServerFds, HasEntry
<1>. QED
  BY <1>1, <1>4, <1>7

LEMMA ConstructKeepsServing ==
  ASSUME TypeOK, ServingInv, Construct
  PROVE  ServingInv'
<1>. USE DEF server, identity, Constructing
<1>0. /\ EntriesHold(data, fds) /\ ConstructsOwn /\ ParentEpollUntouched
      /\ phase \in Constructing /\ depth = 0 /\ client_sockets = {}
      /\ fds \in Table /\ data \in Registry
      /\ touched_parent' = touched_parent /\ depth' = depth
      /\ client_sockets' = client_sockets /\ exec_spawning' = exec_spawning
  BY DEF Construct, NewEpoll, NewServerSocket, NewSignalFd, RegisterInherited,
         Preload, ServingInv, ConstructsOwn, TypeOK
<1>1. CASE NewEpoll
  <2>. PICK f \in Fd :
         /\ IsLowestFree(fds, f)
         /\ fds' = Opened(fds, f, "Epoll")
         /\ data' = Registered(data, fds', f, "Close")
         /\ epoll_handle' = f
    BY <1>1 DEF NewEpoll
  <2>1. EntriesHold(data', fds') /\ RegisteredFds' = RegisteredFds \cup {f}
    BY <1>0, OpenedAndRegistered DEF IsLowestFree, ServerKind, Action
  <2>2. fds'[f] = [kind |-> "Epoll", own |-> TRUE]
    BY <1>0 DEF Opened, Table
  <2>3. phase' = "new_socket" /\ RegisteredFds = {} /\ HasEpoll'
    BY <1>0, <1>1, <2>2 DEF NewEpoll, ConstructsOwn, HasEpoll
  <2>4. ConstructsOwn'
    BY <1>0, <2>1, <2>3 DEF ConstructsOwn
  <2>. QED
    BY <1>0, <2>1, <2>3, <2>4
       DEF ServingInv, ServesOwnDescriptors, ReInitializesOwn,
           ParentEpollUntouched, Serving
<1>2. CASE NewServerSocket
  <2>. PICK f \in Fd :
         /\ \/ fds[f].kind = "Listen" /\ fds' = fds
            \/ IsLowestFree(fds, f) /\ fds' = Opened(fds, f, "Listen")
         /\ data' = Registered(data, fds', f, "Close")
         /\ server_socket' = f
    BY <1>2 DEF NewServerSocket
  <2>1. /\ EntriesHold(data', fds') /\ RegisteredFds' = RegisteredFds \cup {f}
        /\ fds'[f].kind = "Listen" /\ \A g \in Fd \ {f} : fds'[g] = fds[g]
    BY <1>0, OpenedAndRegistered DEF IsLowestFree, ServerKind, Action
  <2>2. HasEpoll /\ RegisteredFds = {epoll_handle} /\ epoll_handle' = epoll_handle
    BY <1>0, <1>2 DEF NewServerSocket, ConstructsOwn
  <2>3. epoll_handle # f
    BY <2>2 DEF HasEpoll, IsLowestFree, IsOpen, Free
  <2>4. HasEpoll' /\ HasListener'
    BY <2>1, <2>2, <2>3 DEF HasEpoll, HasListener
  <2>5. phase' = "new_signal"
    BY <1>2 DEF NewServerSocket
  <2>6. ConstructsOwn'
    BY <1>0, <2>1, <2>2, <2>4, <2>5 DEF ConstructsOwn
  <2>. QED
    BY <1>0, <2>1, <2>5, <2>6
       DEF ServingInv, ServesOwnDescriptors, ReInitializesOwn,
           ParentEpollUntouched, Serving
<1>3. CASE NewSignalFd
  <2>. PICK f \in Fd :
         /\ IsLowestFree(fds, f)
         /\ fds' = Opened(fds, f, "Signal")
         /\ data' = Registered(data, fds', f, "CloseUnlessSpawnSubspecies")
         /\ signal_fd' = f
    BY <1>3 DEF NewSignalFd
  <2>1. /\ EntriesHold(data', fds') /\ RegisteredFds' = RegisteredFds \cup {f}
        /\ fds'[f].kind = "Signal" /\ \A g \in Fd \ {f} : fds'[g] = fds[g]
    BY <1>0, OpenedAndRegistered DEF IsLowestFree, ServerKind, Action
  <2>2. /\ HasEpoll /\ HasListener /\ RegisteredFds = {epoll_handle, server_socket}
        /\ epoll_handle' = epoll_handle /\ server_socket' = server_socket
    BY <1>0, <1>3 DEF NewSignalFd, ConstructsOwn
  <2>3. epoll_handle # f /\ server_socket # f
    BY <2>2 DEF HasEpoll, HasListener, IsLowestFree, IsOpen, Free
  <2>4. HasEpoll' /\ HasListener' /\ HasSignal'
    BY <2>1, <2>2, <2>3 DEF HasEpoll, HasListener, HasSignal
  <2>5. phase' = "new_register"
    BY <1>3 DEF NewSignalFd
  <2>6. ConstructsOwn'
    BY <1>0, <2>1, <2>2, <2>4, <2>5 DEF ConstructsOwn
  <2>. QED
    BY <1>0, <2>1, <2>5, <2>6
       DEF ServingInv, ServesOwnDescriptors, ReInitializesOwn,
           ParentEpollUntouched, Serving
<1>4. CASE RegisterInherited
  <2>1. fds' = fds /\ data' = NewlyRegistered(data, fds)
        /\ UNCHANGED server
    BY <1>4 DEF RegisterInherited
  <2>2. CASE phase' = "exited"
    BY <1>0, <2>2
       DEF ServingInv, ConstructsOwn, ServesOwnDescriptors, ReInitializesOwn,
           ParentEpollUntouched, Serving
  <2>3. CASE phase' = "preload" /\ Refused(data, fds) = {} /\ AuditPasses(data', fds)
    <3>1. EntriesHold(data', fds')
      BY <2>1, <2>3, AuditHolds
    <3>2. ServerFds(fds) = RegisteredFds
      <4>1. ASSUME NEW f \in ServerFds(fds) PROVE HasEntry(data, f)
        <5>1. IsOpen(fds, f) /\ DefaultAction(fds[f].kind) = "None"
          BY DEF ServerFds, ServerKind, IsOpen, Free, DefaultAction
        <5>. QED
          BY <2>3, <5>1 DEF Refused, Unregistered, IsRegistered, ServerFds
      <4>. QED
        BY <4>1 DEF RegisteredFds
    <3>. QED
      BY <1>0, <1>4, <2>1, <2>3, <3>1, <3>2
         DEF RegisterInherited, ServingInv, ConstructsOwn, ServesOwnDescriptors,
             ReInitializesOwn, ParentEpollUntouched, Serving, HasEpoll, HasListener,
             HasSignal
  <2>. QED
    BY <1>4, <2>1, <2>2, <2>3 DEF RegisterInherited
<1>5. CASE Preload
  <2>1. /\ data' = data /\ UNCHANGED server /\ phase = "preload" /\ phase' = "serve"
    BY <1>5 DEF Preload
  <2>2. /\ EntriesHold(data, fds') /\ ServerFds(fds') = ServerFds(fds)
        /\ \A g \in Fd : fds[g] # Free => fds'[g] = fds[g]
    <3>1. CASE fds' = fds
      BY <1>0, <3>1
    <3>2. ASSUME NEW f \in Fd, NEW kind \in LibraryOpens,
                 IsLowestFree(fds, f), fds' = Opened(fds, f, kind)
          PROVE  /\ EntriesHold(data, fds') /\ ServerFds(fds') = ServerFds(fds)
                 /\ \A g \in Fd : fds[g] # Free => fds'[g] = fds[g]
      <4>1. kind \in Kind \ ServerKind
        BY ServerAssumption
      <4>2. ~ IsOpen(fds, f)
        BY <3>2 DEF IsLowestFree
      <4>3. EntriesHold(data, fds') /\ ServerFds(fds') = ServerFds(fds)
        BY <1>0, <3>2, <4>1, <4>2, OpenedHolds, OpenedServerFds
      <4>. QED
        BY <1>0, <3>2, <4>2, <4>3 DEF Opened, Table, IsOpen
    <3>. QED
      BY <1>5, <3>1, <3>2 DEF Preload
  <2>3. ~ exec_spawning =>
          /\ HasEpoll /\ HasListener /\ HasSignal
          /\ ServerFds(fds) = {epoll_handle, server_socket, signal_fd}
    BY <1>0, <2>1 DEF ConstructsOwn
  <2>4. ~ exec_spawning => HasEpoll' /\ HasListener' /\ HasSignal'
    BY <2>1, <2>2, <2>3 DEF HasEpoll, HasListener, HasSignal, Free
  <2>5. ServesOwnDescriptors'
    BY <1>0, <2>1, <2>2, <2>3, <2>4
       DEF ServesOwnDescriptors, Serving, HasEpoll, HasListener, HasSignal, ServerFds
  <2>. QED
    BY <1>0, <2>1, <2>2, <2>5
       DEF ServingInv, ConstructsOwn, ReInitializesOwn, ParentEpollUntouched
<1>. QED
  BY <1>1, <1>2, <1>3, <1>4, <1>5 DEF Construct

-----------------------------------------------------------------------------
(* The serving loop.                                                       *)

(* Opening a descriptor leaves the fields that name others as they were.   *)
LEMMA OthersKept ==
  ASSUME TypeOK, NEW f \in Fd, NEW kind, ~ IsOpen(fds, f),
         fds' = Opened(fds, f, kind)
  PROVE  /\ \A g \in Fd : fds[g] # Free => fds'[g] = fds[g]
         /\ fds'[f] = [kind |-> kind, own |-> TRUE]
         /\ HasEpoll /\ epoll_handle' = epoll_handle => HasEpoll'
         /\ HasListener /\ server_socket' = server_socket => HasListener'
         /\ HasSignal /\ signal_fd' = signal_fd => HasSignal'
<1>1. /\ \A g \in Fd : fds[g] # Free => fds'[g] = fds[g]
      /\ fds'[f] = [kind |-> kind, own |-> TRUE]
  BY DEF Opened, Table, IsOpen, TypeOK
<1>2. HasEpoll /\ epoll_handle' = epoll_handle => HasEpoll'
  BY <1>1 DEF HasEpoll, Free
<1>3. HasListener /\ server_socket' = server_socket => HasListener'
  BY <1>1 DEF HasListener, Free
<1>4. HasSignal /\ signal_fd' = signal_fd => HasSignal'
  BY <1>1 DEF HasSignal, Free
<1>. QED
  BY <1>1, <1>2, <1>3, <1>4

LEMMA ServeKeepsServing ==
  ASSUME TypeOK, ServingInv, Serve
  PROVE  ServingInv'
<1>. USE DEF server, identity
<1>0. /\ phase = "serve" /\ EntriesHold(data, fds) /\ ParentEpollUntouched
      /\ fds \in Table /\ data \in Registry /\ client_sockets \subseteq Fd
      /\ touched_parent' = touched_parent
      /\ Serving => /\ HasEpoll /\ HasListener /\ HasSignal
                    /\ depth > 0 => fds[server_socket].own
                    /\ \A f \in client_sockets : fds[f] = [kind |-> "Client", own |-> TRUE]
                    /\ ServerFds(fds) = {epoll_handle, server_socket, signal_fd}
                                          \cup client_sockets
  BY DEF Serve, AcceptClient, RemoveClient, ForkApplication, ExecSpawn, ForkSubspecies,
         StopServing, Serving, ServingInv, ServesOwnDescriptors, HasEpoll,
         HasListener, HasSignal, ServerFds, TypeOK
<1>1. CASE phase' = "drop"
  BY <1>0, <1>1
     DEF ServingInv, ConstructsOwn, ServesOwnDescriptors, ReInitializesOwn,
         ParentEpollUntouched, Constructing, Serving
<1>2. CASE AcceptClient /\ phase' # "drop"
  <2>. PICK f \in Fd :
         /\ IsLowestFree(fds, f)
         /\ fds' = Opened(fds, f, "Client")
         /\ client_sockets' = client_sockets \cup {f}
         /\ data' = Registered(data, fds', f, "Close")
         /\ phase' = phase
    BY <1>2 DEF AcceptClient
  <2>1. ~ IsOpen(fds, f) /\ Serving /\ UNCHANGED <<epoll_handle, server_socket, signal_fd, depth>>
    BY <1>2 DEF AcceptClient, IsLowestFree
  <2>2. EntriesHold(data', fds')
    BY <2>1, <1>0, OpenedAndRegistered DEF ServerKind, Action
  <2>3. HasEpoll' /\ HasListener' /\ HasSignal'
    BY <1>0, <2>1, OthersKept
  <2>4. depth' > 0 => fds'[server_socket'].own
    BY <1>0, <2>1, OthersKept DEF HasListener, Free
  <2>5. \A g \in client_sockets' : fds'[g] = [kind |-> "Client", own |-> TRUE]
    BY <1>0, <2>1, OthersKept DEF Free
  <2>6. ServerFds(fds') = {epoll_handle', server_socket', signal_fd'} \cup client_sockets'
    BY <1>0, <2>1, OpenedServerFds DEF ServerKind
  <2>7. ServesOwnDescriptors'
    BY <2>3, <2>4, <2>5, <2>6
       DEF ServesOwnDescriptors, HasEpoll, HasListener, HasSignal, ServerFds
  <2>. QED
    BY <1>0, <2>2, <2>7
       DEF ServingInv, ConstructsOwn, ReInitializesOwn, ParentEpollUntouched,
           Constructing
<1>3. CASE RemoveClient
  <2>. PICK f \in client_sockets :
         /\ data' = Removed(data, f)
         /\ fds' = ClosedFd(fds, f)
         /\ client_sockets' = client_sockets \ {f}
    BY <1>3 DEF RemoveClient
  <2>1. /\ Serving /\ f \in Fd /\ phase' = phase
        /\ UNCHANGED <<epoll_handle, server_socket, signal_fd, depth>>
    BY <1>0, <1>3 DEF RemoveClient
  <2>2. EntriesHold(data', fds')
    BY <1>0, <2>1, RemovedHolds
  <2>3. \A g \in Fd \ {f} : fds'[g] = fds[g]
    BY <1>0, <2>1, OneNumber
  <2>4. fds[f].kind = "Client"
    BY <1>0, <2>1
  <2>5. HasEpoll' /\ HasListener' /\ HasSignal' /\ (depth' > 0 => fds'[server_socket'].own)
    BY <1>0, <2>1, <2>3, <2>4 DEF HasEpoll, HasListener, HasSignal
  <2>6. \A g \in client_sockets' : fds'[g] = [kind |-> "Client", own |-> TRUE]
    BY <1>0, <2>1, <2>3
  <2>7. ServerFds(fds') = {epoll_handle', server_socket', signal_fd'} \cup client_sockets'
    <3>1. ServerFds(fds') = ServerFds(fds) \ {f}
      BY <1>0, <2>1, ClosedServerFds
    <3>2. epoll_handle # f /\ server_socket # f /\ signal_fd # f
      BY <1>0, <2>1, <2>4 DEF HasEpoll, HasListener, HasSignal
    <3>. QED
      BY <1>0, <2>1, <3>1, <3>2
  <2>8. ServesOwnDescriptors'
    BY <2>5, <2>6, <2>7
       DEF ServesOwnDescriptors, HasEpoll, HasListener, HasSignal, ServerFds
  <2>. QED
    BY <1>0, <2>1, <2>2, <2>8
       DEF ServingInv, ConstructsOwn, ReInitializesOwn, ParentEpollUntouched,
           Constructing
<1>4. CASE ForkSubspecies
  <2>1. /\ Serving /\ fds' = Forked(fds) /\ data' = data /\ phase' = "speciate"
        /\ depth \in Nat /\ depth' = depth + 1 /\ exec_spawning' = exec_spawning
        /\ signal_fd' = signal_fd
    BY <1>4 DEF ForkSubspecies, TypeOK
  <2>2. EntriesHold(data', fds')
    BY <1>0, <2>1, ForkedHolds
  <2>3. HasSignal'
    BY <1>0, <2>1, ForkedKinds DEF HasSignal
  <2>4. \A f \in Fd : fds'[f].kind = "Signal" => f = signal_fd'
    <3>1. ASSUME NEW f \in Fd, fds[f].kind = "Signal"
          PROVE  f = signal_fd
      <4>1. f \in ServerFds(fds)
        BY <3>1 DEF ServerFds, ServerKind
      <4>2. f # epoll_handle /\ f # server_socket /\ f \notin client_sockets
        BY <1>0, <2>1, <3>1 DEF HasEpoll, HasListener
      <4>. QED
        BY <1>0, <2>1, <4>1, <4>2
    <3>. QED
      BY <1>0, <2>1, <3>1, ForkedKinds
  <2>5. depth' > 0 /\ ~ exec_spawning'
    BY <2>1 DEF Serving
  <2>. QED
    BY <1>0, <2>1, <2>2, <2>3, <2>4, <2>5
       DEF ServingInv, ConstructsOwn, ServesOwnDescriptors, ReInitializesOwn,
           ParentEpollUntouched, Constructing, Serving
<1>5. CASE ForkApplication \/ ExecSpawn \/ StopServing
  BY <1>1, <1>5 DEF ForkApplication, ExecSpawn, StopServing
<1>. QED
  BY <1>1, <1>2, <1>3, <1>4, <1>5 DEF Serve

-----------------------------------------------------------------------------
(* The subspecies child.                                                   *)

(* A sweep fails neither for the lack of /dev/null nor over a path that    *)
(* cannot be opened again.                                                 *)
SweepsComplete == Faults \cap {"devnull", "reopen"} = {}

(* No entry that describes its descriptor makes a sweep fail.              *)
LEMMA TrueEntriesSweep ==
  ASSUME NEW tab \in Table, NEW reg \in Registry, NEW forkType, NEW f,
         HasFree(tab), EntriesHold(reg, tab), SweepsComplete
  PROVE  ~ SweepFailsAt(WithDevNull(tab), reg, forkType, f)
<1>. SUFFICES ASSUME SweepFailsAt(WithDevNull(tab), reg, forkType, f)
              PROVE  FALSE
  OBVIOUS
<1>1. f \in Fd /\ HasEntry(reg, f) /\ Acts(reg[f], forkType)
  BY DEF SweepFailsAt, Swept
<1>2. MustFail(WithDevNull(tab), reg, f)
  BY DEF SweepFailsAt, MayFail, SweepsComplete
<1>3. f \in Live(reg)
  BY <1>1 DEF Live, Closed, Acts
<1>4. IsOpen(tab, f)
  BY <1>3 DEF EntriesHold
<1>5. IsOpen(WithDevNull(tab), f)
  BY <1>1, <1>4, WithDevNullAt DEF IsOpen
<1>. QED
  BY <1>2, <1>5 DEF MustFail

(* The reset of a subspecies closes every server descriptor but the        *)
(* signalfd.                                                               *)
LEMMA ResetLeavesSignal ==
  ASSUME NEW tab \in Table, NEW reg \in Registry, HasFree(tab),
         ReopensNoServerKind(reg), AllAccountedFor(reg, tab)
  PROVE  LET t == Logged(SyncFdState(
                    SweptTable(WithDevNull(tab), reg, "Subspecies", MaxFd + 1)))
         IN /\ ServerFds(t) = {f \in Fd : tab[f].kind = "Signal"}
            /\ \A f \in ServerFds(t) : t[f] = tab[f]
<1>. DEFINE w == WithDevNull(tab)
            s == SweptTable(w, reg, "Subspecies", MaxFd + 1)
            y == SyncFdState(s)
            t == Logged(y)
<1>1. w \in Table /\ s \in Table /\ y \in Table /\ t \in Table
  BY WithDevNullType, SweptType, SyncFdStateType, LoggedType
<1>2. ASSUME NEW g \in Fd, tab[g].kind = "Signal"
      PROVE  t[g] = tab[g]
  <2>1. w[g] = tab[g]
    BY <1>2, WithDevNullAt DEF Free
  <2>2. reg[g].action = "CloseUnlessSpawnSubspecies"
    BY <1>2 DEF AllAccountedFor, AccountedFor, WillBeClosed, ServerKind
  <2>3. g \notin Swept(reg, "Subspecies", MaxFd + 1)
    BY <2>2 DEF Swept, Acts
  <2>4. y[g] = tab[g]
    BY <1>2, <2>1, <2>3 DEF SweptTable, SyncFdState
  <2>. QED
    BY <1>1, <1>2, <2>4, LoggedAt DEF Free
<1>3. ASSUME NEW g \in Fd, t[g].kind \in ServerKind
      PROVE  tab[g].kind = "Signal"
  <2>1. y[g].kind \in ServerKind
    BY <1>1, <1>3, LoggedAt DEF ServerKind
  <2>2. s[g].kind \in ServerKind /\ s[g] = y[g]
    BY <2>1 DEF SyncFdState, Free, ServerKind
  <2>3. AccountedFor(reg, w, g)
    BY WithDevNullAccounted DEF AllAccountedFor
  <2>4. s[g].kind = "Signal"
    BY <1>1, <2>2, <2>3, SweptLeaves
  <2>5. g \notin Swept(reg, "Subspecies", MaxFd + 1)
    <3>1. SUFFICES ASSUME g \in Swept(reg, "Subspecies", MaxFd + 1)
                   PROVE  FALSE
      OBVIOUS
    <3>2. s[g] = AfterExecute(reg[g]) /\ Acts(reg[g], "Subspecies")
      BY <3>1 DEF SweptTable, Swept
    <3>3. reg[g].action # "Reopen" => s[g].kind \notin ServerKind
      BY <3>2 DEF AfterExecute, Acts, Free, ServerKind
    <3>4. reg[g].action = "Reopen" => s[g].kind \notin ServerKind
      BY <3>2 DEF AfterExecute, ReopensNoServerKind
    <3>. QED
      BY <2>2, <3>3, <3>4
  <2>6. w[g].kind = "Signal"
    BY <2>4, <2>5 DEF SweptTable
  <2>. QED
    BY <2>6, WithDevNullAt
<1>. QED
  BY <1>2, <1>3 DEF ServerFds, ServerKind

LEMMA BecomeSubspeciesKeepsServing ==
  ASSUME TypeOK, DescriptorInv, ServingInv, SweepsComplete, BecomeSubspecies
  PROVE  ServingInv'
<1>. USE DEF server, identity
<1>. DEFINE Child == depth > 0 /\ ~ exec_spawning
<1>0. /\ fds \in Table /\ data \in Registry
      /\ ReopensNoServerKind(data) /\ ParentEpollUntouched
      /\ phase # "child_failed" =>
           /\ Child /\ HasSignal /\ EntriesHold(data, fds)
           /\ AllAccountedFor(data, fds)
           /\ \A f \in Fd : fds[f].kind = "Signal" => f = signal_fd
      /\ Child => Child'
      /\ signal_fd' = signal_fd
  BY DEF BecomeSubspecies, Speciate, ResetForSubspecies, ResetFails, NewListener,
         NewEvents, ListenerFails, EventsFail, ChildFailed, DescriptorInv, ServingInv,
         ReInitializesOwn, TypeOK
<1>a. /\ ConstructsOwn'
      /\ phase # "child_failed" => ParentEpollUntouched'
      /\ phase' # "serve" => ServesOwnDescriptors'
  BY <1>0 DEF BecomeSubspecies, Speciate, ResetForSubspecies, ResetFails, NewListener,
         NewEvents, ListenerFails, EventsFail, ChildFailed, ConstructsOwn, Constructing,
         ServesOwnDescriptors, Serving, ParentEpollUntouched
<1>1. CASE Speciate
  <2>1. phase = "speciate" /\ phase' = "reset" /\ data' = data
    BY <1>1 DEF Speciate
  <2>2. /\ EntriesHold(data, fds') /\ HasSignal'
        /\ \A g \in Fd : fds'[g].kind = "Signal" => g = signal_fd
    <3>1. CASE fds' = fds
      BY <1>0, <2>1, <3>1 DEF HasSignal
    <3>2. ASSUME NEW f \in Fd, NEW kind \in SpeciateOpens,
                 IsLowestFree(fds, f), fds' = Opened(fds, f, kind)
          PROVE  /\ EntriesHold(data, fds') /\ HasSignal'
                 /\ \A g \in Fd : fds'[g].kind = "Signal" => g = signal_fd
      <4>1. kind # "Signal" /\ ~ IsOpen(fds, f)
        BY <3>2, ServerAssumption DEF IsLowestFree, ServerKind
      <4>2. EntriesHold(data, fds') /\ HasSignal'
        BY <1>0, <2>1, <3>2, <4>1, OpenedHolds, OthersKept
      <4>3. \A g \in Fd : g # f => fds'[g] = fds[g]
        BY <1>0, <3>2 DEF Opened, Table
      <4>4. fds'[f].kind = kind
        BY <1>0, <3>2 DEF Opened, Table
      <4>. QED
        BY <1>0, <2>1, <4>1, <4>2, <4>3, <4>4
    <3>. QED
      BY <1>1, <3>1, <3>2 DEF Speciate
  <2>. QED
    BY <1>0, <1>a, <2>1, <2>2 DEF ServingInv, ReInitializesOwn, Constructing
<1>2. CASE ResetForSubspecies
  <2>1. /\ phase = "reset" /\ HasFree(fds)
        /\ phase' = "new_listener" => AuditPasses(data', fds')
        /\ phase' \in {"new_listener", "child_failed"}
        /\ fds' = Logged(SyncFdState(
                     SweptTable(WithDevNull(fds), data, "Subspecies", MaxFd + 1)))
    BY <1>2 DEF ResetForSubspecies
  <2>2. phase' = "new_listener" => EntriesHold(data', fds')
    BY <2>1, AuditHolds
  <2>3. NoInheritedEpoll(fds')
    BY <1>0, <2>1, ResetTable
  <2>4. /\ ServerFds(fds') = {f \in Fd : fds[f].kind = "Signal"}
        /\ \A f \in ServerFds(fds') : fds'[f] = fds[f]
    BY <1>0, <2>1, ResetLeavesSignal
  <2>5. ServerFds(fds') = {signal_fd} /\ HasSignal'
    BY <1>0, <2>1, <2>4 DEF HasSignal
  <2>6. \A f \in Fd : fds'[f].kind = "Signal" => f = signal_fd
    BY <2>5 DEF ServerFds, ServerKind
  <2>. QED
    BY <1>0, <1>a, <2>1, <2>2, <2>3, <2>5, <2>6
       DEF ServingInv, ReInitializesOwn, Constructing
<1>3. CASE ResetFails
  BY <1>0, <1>3, TrueEntriesSweep DEF ResetFails, SweepsComplete
<1>4. CASE NewListener
  <2>. PICK f \in Fd :
         /\ IsLowestFree(fds, f)
         /\ fds' = Opened(fds, f, "Listen")
         /\ IF CanRegister(data, fds', f, "Close")
            THEN /\ data' = Registered(data, fds', f, "Close")
                 /\ client_sockets' = {}
                 /\ server_socket' = f
                 /\ phase' = "new_events"
            ELSE /\ phase' = "child_failed"
                 /\ UNCHANGED <<data, client_sockets, server_socket>>
    BY <1>4 DEF NewListener
  <2>1. /\ phase = "new_listener" /\ ServerFds(fds) = {signal_fd}
        /\ NoInheritedEpoll(fds) /\ ~ IsOpen(fds, f)
    BY <1>4 DEF NewListener, ServingInv, ReInitializesOwn, DescriptorInv, IsLowestFree
  <2>2. CASE phase' = "child_failed"
    <3>1. NoInheritedEpoll(fds')
      BY <1>0, <2>1, OpenedNoInheritedEpoll
    <3>. QED
      BY <1>a, <2>1, <2>2, <3>1 DEF ServingInv, ReInitializesOwn, Constructing
  <2>3. CASE phase' = "new_events" /\ data' = Registered(data, fds', f, "Close")
             /\ client_sockets' = {} /\ server_socket' = f
    <3>1. EntriesHold(data', fds')
      BY <1>0, <2>1, <2>3, OpenedAndRegistered DEF ServerKind, Action
    <3>2. HasSignal' /\ fds'[f] = [kind |-> "Listen", own |-> TRUE]
      BY <1>0, <2>1, OthersKept
    <3>3. ServerFds(fds') = {server_socket', signal_fd'}
      BY <1>0, <2>1, <2>3, OpenedServerFds DEF ServerKind
    <3>4. HasListener' /\ fds'[server_socket'].own
      BY <2>3, <3>2 DEF HasListener
    <3>5. \A g \in Fd : fds'[g].kind = "Signal" => g = signal_fd'
      BY <1>0, <2>3, <3>2, <3>3 DEF ServerFds, ServerKind
    <3>. QED
      BY <1>0, <1>a, <2>1, <2>3, <3>1, <3>2, <3>3, <3>4, <3>5
         DEF ServingInv, ReInitializesOwn, Constructing
  <2>. QED
    BY <2>2, <2>3
<1>5. CASE NewEvents
  <2>. PICK f \in Fd :
         /\ IsLowestFree(fds, f)
         /\ fds' = Opened(fds, f, "Epoll")
         /\ epoll_handle' = f
         /\ IF CanRegister(data, fds', f, "Close")
            THEN /\ data' = Registered(data, fds', f, "Close")
                 /\ phase' = "serve"
            ELSE /\ phase' = "child_failed"
                 /\ data' = data
    BY <1>5 DEF NewEvents
  <2>1. /\ phase = "new_events" /\ HasListener /\ fds[server_socket].own
        /\ client_sockets = {} /\ ServerFds(fds) = {server_socket, signal_fd}
        /\ NoInheritedEpoll(fds) /\ ~ IsOpen(fds, f)
        /\ UNCHANGED <<server_socket, client_sockets>>
    BY <1>5 DEF NewEvents, ServingInv, ReInitializesOwn, DescriptorInv, IsLowestFree
  <2>2. CASE phase' = "child_failed"
    <3>1. NoInheritedEpoll(fds')
      BY <1>0, <2>1, OpenedNoInheritedEpoll
    <3>. QED
      BY <1>a, <2>1, <2>2, <3>1 DEF ServingInv, ReInitializesOwn, Constructing
  <2>3. CASE phase' = "serve" /\ data' = Registered(data, fds', f, "Close")
    <3>1. EntriesHold(data', fds')
      BY <1>0, <2>1, <2>3, OpenedAndRegistered DEF ServerKind, Action
    <3>2. /\ HasSignal' /\ HasListener' /\ fds'[f] = [kind |-> "Epoll", own |-> TRUE]
          /\ fds'[server_socket'] = fds[server_socket]
      BY <1>0, <2>1, OthersKept DEF HasListener, Free
    <3>3. HasEpoll'
      BY <3>2 DEF HasEpoll
    <3>4. ServerFds(fds') = {epoll_handle', server_socket', signal_fd'} \cup client_sockets'
      BY <1>0, <2>1, <2>3, OpenedServerFds DEF ServerKind
    <3>5. ServesOwnDescriptors'
      BY <2>1, <3>2, <3>3, <3>4
         DEF ServesOwnDescriptors, HasEpoll, HasListener, HasSignal, ServerFds
    <3>. QED
      BY <1>a, <2>1, <2>3, <3>1, <3>5 DEF ServingInv, ReInitializesOwn
  <2>. QED
    BY <2>2, <2>3
<1>6. CASE ListenerFails \/ EventsFail
  <2>1. /\ phase \in {"new_listener", "new_events"} /\ phase' = "child_failed"
        /\ NoInheritedEpoll(fds)
    BY <1>6 DEF ListenerFails, EventsFail, DescriptorInv
  <2>2. NoInheritedEpoll(fds')
    BY <1>0, <1>6, <2>1, OpenedNoInheritedEpoll DEF ListenerFails, EventsFail
  <2>. QED
    BY <1>a, <2>1, <2>2 DEF ServingInv, ReInitializesOwn, Constructing
<1>7. CASE ChildFailed
  <2>1. ~ InParentsEpollSet(requester)
    BY <1>7 DEF ChildFailed, InParentsEpollSet, ServingInv, ReInitializesOwn,
       NoInheritedEpoll
  <2>2. phase' = "drop" /\ touched_parent' = touched_parent
    BY <1>7, <2>1 DEF ChildFailed
  <2>. QED
    BY <1>0, <1>a, <2>2
       DEF ServingInv, ReInitializesOwn, Constructing, ParentEpollUntouched
<1>. QED
  BY <1>1, <1>2, <1>3, <1>4, <1>5, <1>6, <1>7 DEF BecomeSubspecies

-----------------------------------------------------------------------------
(* What a process serves with.                                             *)

LEMMA NextKeepsServing ==
  ASSUME SweepsComplete
  PROVE  TypeOK /\ DescriptorInv /\ ServingInv /\ [Next]_vars => ServingInv'
<1>. SUFFICES ASSUME TypeOK, DescriptorInv, ServingInv, [Next]_vars
              PROVE  ServingInv'
  OBVIOUS
<1>1. CASE UNCHANGED vars
  BY <1>1 DEF vars, server, identity, ServingInv, ConstructsOwn, ServesOwnDescriptors,
     ReInitializesOwn, ParentEpollUntouched, Serving, RegisteredFds, HasEpoll,
     HasListener, HasSignal
<1>2. CASE DropServer
  <2>1. phase' \in {"exited", "gestate"} /\ touched_parent' = touched_parent
    BY <1>2 DEF DropServer, DropInServer, DropInChild, DropInChildFails, identity
  <2>. QED
    BY <2>1 DEF ServingInv, ConstructsOwn, ServesOwnDescriptors, ReInitializesOwn,
       ParentEpollUntouched, Serving, Constructing
<1>. QED
  BY <1>1, <1>2, ConstructKeepsServing, ServeKeepsServing,
     BecomeSubspeciesKeepsServing DEF Next

(* The invariant behind the three theorems that follow.                    *)
THEOREM ServingAsConstructed ==
  ASSUME SweepsComplete
  PROVE  Spec => []ServingInv
<1>1. TypeOK /\ DescriptorInv /\ ServingInv /\ [Next]_vars => ServingInv'
  BY NextKeepsServing
<1>2. Init => ServingInv
  BY InitServing
<1>. QED
  BY <1>1, <1>2, TypeCorrect, DescriptorsAccountedFor, PTL DEF Spec

(* A process in the loop has the descriptors its fields name, those it     *)
(* opened itself where it matters, and nothing else of a server's          *)
(* (Server::new, re_initialize_as_subspecies, remove_client_socket).       *)
THEOREM OwnDescriptorsServed ==
  ASSUME SweepsComplete
  PROVE  Spec => []ServesOwnDescriptors
<1>1. ServingInv => ServesOwnDescriptors
  BY DEF ServingInv
<1>. QED
  BY <1>1, ServingAsConstructed, PTL

(* A child whose continuation fails never edits the epoll set it shares    *)
(* with its parent (remove_client_socket in the child).                    *)
THEOREM ParentsEpollKept ==
  ASSUME SweepsComplete
  PROVE  Spec => []ParentEpollUntouched
<1>1. ServingInv => ParentEpollUntouched
  BY DEF ServingInv
<1>. QED
  BY <1>1, ServingAsConstructed, PTL

-----------------------------------------------------------------------------
(* The audits before every fork.                                           *)

(* Opening and registering, or removing and closing, keeps the audit true. *)
LEMMA OpenedAudits ==
  ASSUME NEW tab \in Table, NEW reg \in Registry, NEW f \in Fd, NEW kind \in Kind,
         NEW action \in Action, ~ IsOpen(tab, f), AuditPasses(reg, tab)
  PROVE  LET t == Opened(tab, f, kind)
         IN AuditPasses(Registered(reg, t, f, action), t)
<1>. DEFINE t == Opened(tab, f, kind)
            r == Registered(reg, t, f, action)
<1>1. t \in Table /\ IsOpen(t, f) /\ \A g \in Fd \ {f} : t[g] = tab[g]
  BY OpenedType DEF Opened, Table
<1>2. r[f] = NewEntry(t, f, action) /\ \A g \in Fd \ {f} : r[g] = reg[g]
  BY OneNumber
<1>3. f \in Live(r) /\ r[f].kind = t[f].kind
  BY <1>1, <1>2, NewEntryIsLive DEF Live, HasEntry, NewEntry
<1>4. ASSUME NEW g \in Fd \ {f}
      PROVE  /\ g \in Live(r) <=> IsOpen(t, g)
             /\ g \in Live(r) => r[g].kind = t[g].kind
  <2>1. (g \in Live(r) <=> g \in Live(reg)) /\ (IsOpen(t, g) <=> IsOpen(tab, g))
    BY <1>1, <1>2 DEF Live, HasEntry, IsOpen
  <2>. QED
    BY <1>1, <1>2, <2>1 DEF AuditPasses
<1>5. Live(r) = {g \in Fd : IsOpen(t, g)}
  BY <1>1, <1>3, <1>4 DEF Live
<1>6. \A g \in Live(r) : r[g].kind = t[g].kind
  BY <1>3, <1>4 DEF Live
<1>. QED
  BY <1>5, <1>6 DEF AuditPasses

LEMMA RemovedAudits ==
  ASSUME NEW tab \in Table, NEW reg \in Registry, NEW f \in Fd, AuditPasses(reg, tab)
  PROVE  AuditPasses(Removed(reg, f), ClosedFd(tab, f))
<1>1. f \notin Live(Removed(reg, f)) /\ ~ IsOpen(ClosedFd(tab, f), f)
  BY OneNumber DEF Live, HasEntry, IsOpen
<1>2. \A g \in Fd \ {f} : Removed(reg, f)[g] = reg[g] /\ ClosedFd(tab, f)[g] = tab[g]
  BY OneNumber
<1>. QED
  BY <1>1, <1>2 DEF AuditPasses, Live, HasEntry, IsOpen

LEMMA NextKeepsAudit ==
  ASSUME SweepsComplete, LibraryOpens = {}
  PROVE  TypeOK /\ ServingInv /\ AuditInv /\ [Next]_vars => AuditInv'
<1>. SUFFICES ASSUME TypeOK, ServingInv, AuditInv, [Next]_vars
              PROVE  AuditInv'
  OBVIOUS
<1>. USE DEF server, identity
<1>. DEFINE Audited == {"preload", "serve", "new_listener", "new_events"}
<1>0. fds \in Table /\ data \in Registry
  BY DEF TypeOK
<1>1. CASE phase' \notin Audited
  BY <1>1 DEF AuditInv
<1>2. ASSUME phase \in Audited, NEW f \in Fd, NEW kind \in ServerKind,
             IsLowestFree(fds, f), fds' = Opened(fds, f, kind),
             data' = Registered(data, fds', f, "Close")
      PROVE  AuditInv'
  <2>1. AuditPasses(data', fds')
    BY <1>0, <1>2, OpenedAudits, ServerKinds DEF AuditInv, IsLowestFree, Action
  <2>. QED
    BY <2>1 DEF AuditInv
<1>3. CASE RegisterInherited \/ ResetForSubspecies
  BY <1>3 DEF RegisterInherited, ResetForSubspecies, AuditInv
<1>4. CASE Preload
  BY <1>4 DEF Preload, AuditInv
<1>5. CASE AcceptClient /\ phase' # "drop"
  BY <1>2, <1>5 DEF AcceptClient, Serving, ServerKind
<1>6. CASE RemoveClient
  <2>. PICK f \in client_sockets :
         data' = Removed(data, f) /\ fds' = ClosedFd(fds, f)
    BY <1>6 DEF RemoveClient
  <2>1. AuditPasses(data, fds) /\ f \in Fd
    BY <1>6 DEF RemoveClient, Serving, AuditInv, TypeOK
  <2>2. AuditPasses(data', fds')
    BY <1>0, <2>1, RemovedAudits
  <2>. QED
    BY <2>2 DEF AuditInv
<1>7. CASE NewListener /\ phase' # "child_failed"
  BY <1>2, <1>7 DEF NewListener, ServerKind
<1>8. CASE NewEvents /\ phase' # "child_failed"
  BY <1>2, <1>8 DEF NewEvents, ServerKind
<1>9. CASE ChildFailed
  <2>1. phase' = "drop"
    BY <1>9 DEF ChildFailed, InParentsEpollSet, ServingInv, ReInitializesOwn,
       NoInheritedEpoll
  <2>. QED
    BY <1>1, <2>1
<1>10. CASE UNCHANGED vars
  BY <1>10 DEF vars, AuditInv
<1>11. CASE \/ NewEpoll \/ NewServerSocket \/ NewSignalFd
            \/ ForkApplication \/ ExecSpawn \/ ForkSubspecies \/ StopServing
            \/ Speciate \/ ResetFails \/ ListenerFails \/ EventsFail
            \/ DropServer \/ phase' \in {"drop", "child_failed"}
  <2>1. phase' \notin Audited
    BY <1>11 DEF NewEpoll, NewServerSocket, NewSignalFd, ForkApplication, ExecSpawn,
       ForkSubspecies, StopServing, Speciate, ResetFails, ListenerFails, EventsFail,
       DropServer, DropInServer, DropInChild, DropInChildFails
  <2>. QED
    BY <1>1, <2>1
<1>. QED
  BY <1>3, <1>4, <1>5, <1>6, <1>7, <1>8, <1>9, <1>10, <1>11
     DEF Next, Construct, Serve, BecomeSubspecies

(* When the preloaded libraries leave no descriptor behind, audit() passes *)
(* whenever the process is in the loop: debug_assert_ok! before a fork     *)
(* never fires, in the zygote or in a subspecies.                          *)
THEOREM AuditsPass ==
  ASSUME SweepsComplete, LibraryOpens = {}
  PROVE  Spec => []RegistryMatchesTable
<1>1. Init => AuditInv
  BY DEF Init, AuditInv
<1>2. TypeOK /\ ServingInv /\ AuditInv /\ [Next]_vars => AuditInv'
  BY NextKeepsAudit
<1>3. AuditInv => RegistryMatchesTable
  BY DEF AuditInv, RegistryMatchesTable, Serving
<1>. QED
  BY <1>1, <1>2, <1>3, TypeCorrect, ServingAsConstructed, PTL DEF Spec

-----------------------------------------------------------------------------
(* The process that constructed the Server, whatever fails.                *)

LEMMA RegisteredUntouched ==
  ASSUME NEW tab \in Table, NEW reg \in Registry, NEW f \in Fd,
         NEW action \in Action \ {"Reopen"}, IsOpen(tab, f), Untouched(reg, tab)
  PROVE  Untouched(Registered(reg, tab, f, action), tab)
<1>. DEFINE r == Registered(reg, tab, f, action)
<1>1. r[f] = NewEntry(tab, f, action)
  BY OneNumber
<1>2. ~ r[f].executed /\ r[f].action # "Reopen"
  BY <1>1 DEF NewEntry
<1>3. \A g \in Fd \ {f} : r[g] = reg[g]
  BY OneNumber
<1>. QED
  BY <1>2, <1>3 DEF Untouched, HasEntry

LEMMA OpenedUntouched ==
  ASSUME NEW tab \in Table, NEW reg, NEW f \in Fd, NEW kind \in Kind,
         Untouched(reg, tab)
  PROVE  Untouched(reg, Opened(tab, f, kind))
<1>1. \A g \in Fd \ {f} : Opened(tab, f, kind)[g] = tab[g]
  BY DEF Opened, Table
<1>2. IsOpen(Opened(tab, f, kind), f)
  BY OpenedType
<1>. QED
  BY <1>1, <1>2 DEF Untouched, IsOpen

LEMMA RemovedUntouched ==
  ASSUME NEW tab \in Table, NEW reg \in Registry, NEW f \in Fd, Untouched(reg, tab)
  PROVE  Untouched(Removed(reg, f), ClosedFd(tab, f))
<1>1. \A g \in Fd \ {f} : ClosedFd(tab, f)[g] = tab[g] /\ Removed(reg, f)[g] = reg[g]
  BY OneNumber
<1>2. ~ HasEntry(Removed(reg, f), f)
  BY OneNumber DEF HasEntry
<1>. QED
  BY <1>1, <1>2 DEF Untouched, HasEntry, IsOpen

LEMMA NewlyRegisteredUntouched ==
  ASSUME NEW tab \in Table, NEW reg \in Registry, Untouched(reg, tab)
  PROVE  Untouched(NewlyRegistered(reg, tab), tab)
<1>. DEFINE r == NewlyRegistered(reg, tab)
<1>1. ASSUME NEW f \in Fd, r[f] # reg[f]
      PROVE  /\ ~ r[f].executed /\ IsOpen(tab, f)
             /\ r[f].action = "Reopen" => r[f].kind \in FileKind
  <2>1. /\ IsOpen(tab, f)
        /\ r[f] = NewEntry(tab, f, DefaultAction(tab[f].kind))
    BY <1>1 DEF NewlyRegistered, Unregistered
  <2>2. DefaultAction(tab[f].kind) = "Reopen" => tab[f].kind \in FileKind
    BY DEF DefaultAction, FileKind
  <2>. QED
    BY <2>1, <2>2 DEF NewEntry
<1>. QED
  BY <1>1 DEF Untouched, HasEntry

LEMMA ForkedUntouched ==
  ASSUME NEW tab \in Table, NEW reg, Untouched(reg, tab)
  PROVE  Untouched(reg, Forked(tab))
  BY ForkedKinds DEF Untouched

(* A complete sweep reopens everything that is to be reopened.             *)
LEMMA SweptReopened ==
  ASSUME NEW tab \in Table, NEW reg \in Registry, NEW f \in Fd,
         Untouched(reg, tab),
         SweptRegistry(reg, "Application", MaxFd + 1)[f].action = "Reopen"
  PROVE  SyncFdState(SweptTable(WithDevNull(tab), reg, "Application", MaxFd + 1))[f].own
<1>. DEFINE s == SweptTable(WithDevNull(tab), reg, "Application", MaxFd + 1)
<1>1. reg[f].action = "Reopen"
  BY DEF SweptRegistry, Registry, Entry, NoEntry
<1>2. HasEntry(reg, f) /\ ~ reg[f].executed /\ reg[f].kind \in FileKind
  BY <1>1 DEF Untouched, HasEntry, NoEntry
<1>3. f < MaxFd + 1
  BY RegistryAssumption DEF Fd
<1>4. f \in Swept(reg, "Application", MaxFd + 1)
  BY <1>1, <1>2, <1>3 DEF Swept, Acts
<1>5. s[f] = [kind |-> reg[f].kind, own |-> TRUE]
  BY <1>1, <1>4 DEF SweptTable, AfterExecute
<1>. QED
  BY <1>2, <1>5 DEF SyncFdState, FileKind

LEMMA InitRoot ==
  ASSUME Init
  PROVE  RootInv
<1>1. /\ fds \in Table /\ StartTable(fds)
      /\ phase \in {"new_register", "new_epoll"}
      /\ data = [f \in Fd |-> IF f \in Stdio THEN NewEntry(fds, f, "Ignore")
                                             ELSE NoEntry]
  BY ServerAssumption DEF Init
<1>2. Untouched(data, fds)
  BY <1>1 DEF Untouched, StartTable, HasEntry, NewEntry, IsOpen, Free
<1>. QED
  BY <1>1, <1>2 DEF RootInv, RootChildFilesAreUnique, ChildFilesAreUnique

LEMMA NextKeepsRoot == TypeOK /\ RootInv /\ [Next]_vars => RootInv'
<1>. SUFFICES ASSUME TypeOK, RootInv, [Next]_vars
              PROVE  RootInv'
  OBVIOUS
<1>. USE DEF server, identity
<1>. DEFINE Child == {"speciate", "reset", "new_listener", "new_events", "child_failed"}
<1>0. fds \in Table /\ data \in Registry /\ client_sockets \subseteq Fd /\ depth \in Nat
  BY DEF TypeOK
<1>1. ASSUME phase' \notin Child \cup {"gestate"},
             phase' # "exited" /\ depth' = 0 => Untouched(data', fds')
      PROVE  RootInv'
  BY <1>1 DEF RootInv, RootChildFilesAreUnique, ChildFilesAreUnique
<1>2. CASE Construct
  <2>1. /\ phase' \notin Child \cup {"gestate"} /\ depth' = depth
        /\ depth = 0 => Untouched(data, fds)
    BY <1>2 DEF Construct, NewEpoll, NewServerSocket, NewSignalFd, RegisterInherited,
       Preload, RootInv
  <2>2. ASSUME Untouched(data, fds) PROVE Untouched(data', fds')
    <3>1. ASSUME NEW f \in Fd, NEW kind \in ServerKind,
                 NEW action \in Action \ {"Reopen"},
                 \/ fds[f].kind = kind /\ fds' = fds
                 \/ fds' = Opened(fds, f, kind),
                 data' = Registered(data, fds', f, action)
          PROVE  Untouched(data', fds')
      <4>1. fds' \in Table /\ IsOpen(fds', f)
        <5>1. CASE fds[f].kind = kind /\ fds' = fds
          BY <1>0, <5>1 DEF IsOpen, Free, ServerKind
        <5>2. CASE fds' = Opened(fds, f, kind)
          BY <1>0, <5>2, OpenedType, ServerKinds
        <5>. QED
          BY <3>1, <5>1, <5>2
      <4>2. Untouched(data, fds')
        BY <1>0, <2>2, <3>1, OpenedUntouched, ServerKinds
      <4>. QED
        BY <1>0, <3>1, <4>1, <4>2, RegisteredUntouched
    <3>2. CASE NewEpoll
      BY <3>1, <3>2 DEF NewEpoll, ServerKind, Action
    <3>3. CASE NewServerSocket
      BY <3>1, <3>3 DEF NewServerSocket, ServerKind, Action
    <3>4. CASE NewSignalFd
      BY <3>1, <3>4 DEF NewSignalFd, ServerKind, Action
    <3>5. CASE RegisterInherited
      BY <1>0, <2>2, <3>5, NewlyRegisteredUntouched DEF RegisterInherited
    <3>6. CASE Preload
      BY <1>0, <2>2, <3>6, OpenedUntouched, ServerAssumption DEF Preload
    <3>. QED
      BY <1>2, <3>2, <3>3, <3>4, <3>5, <3>6 DEF Construct
  <2>. QED
    BY <1>1, <2>1, <2>2
<1>3. CASE Serve /\ ~ ForkSubspecies
  <2>1. /\ phase' \notin Child \cup {"gestate"} /\ depth' = depth
        /\ depth = 0 => Untouched(data, fds)
    BY <1>3 DEF Serve, AcceptClient, RemoveClient, ForkApplication, ExecSpawn,
       StopServing, Serving, RootInv
  <2>2. ASSUME Untouched(data, fds) PROVE Untouched(data', fds')
    <3>1. CASE AcceptClient
      <4>. PICK f \in Fd :
             /\ fds' = Opened(fds, f, "Client")
             /\ data' \in {data, Registered(data, fds', f, "Close")}
        BY <3>1 DEF AcceptClient
      <4>1. Untouched(data, fds') /\ fds' \in Table /\ IsOpen(fds', f)
        BY <1>0, <2>2, OpenedUntouched, OpenedType, ServerKinds
      <4>. QED
        BY <1>0, <4>1, RegisteredUntouched DEF Action
    <3>2. CASE RemoveClient
      BY <1>0, <2>2, <3>2, RemovedUntouched DEF RemoveClient
    <3>3. CASE ForkApplication
      BY <1>0, <2>2, <3>3, ForkedUntouched DEF ForkApplication
    <3>4. CASE ExecSpawn \/ StopServing
      BY <2>2, <3>4 DEF ExecSpawn, StopServing
    <3>. QED
      BY <1>3, <3>1, <3>2, <3>3, <3>4 DEF Serve
  <2>. QED
    BY <1>1, <2>1, <2>2
<1>4. CASE ForkSubspecies \/ BecomeSubspecies
  <2>1. depth' > 0
    BY <1>0, <1>4 DEF ForkSubspecies, BecomeSubspecies, Speciate, ResetForSubspecies,
       ResetFails, NewListener, NewEvents, ListenerFails, EventsFail, ChildFailed,
       RootInv
  <2>. QED
    BY <2>1 DEF RootInv, RootChildFilesAreUnique
<1>5. CASE DropInServer \/ DropInChildFails
  <2>1. phase' = "exited"
    BY <1>5 DEF DropInServer, DropInChildFails
  <2>. QED
    BY <1>1, <2>1
<1>6. CASE DropInChild
  <2>1. /\ phase = "drop" /\ phase' \in {"gestate", "exited"} /\ depth' = depth
        /\ fds' = SyncFdState(
                    SweptTable(WithDevNull(fds), data, "Application", MaxFd + 1))
        /\ data' = SweptRegistry(data, "Application", MaxFd + 1)
    BY <1>6 DEF DropInChild
  <2>2. ASSUME depth = 0, NEW f \in Fd, data'[f].action = "Reopen"
        PROVE  fds'[f].own
    <3>1. Untouched(data, fds)
      BY <2>1, <2>2 DEF RootInv
    <3>. QED
      BY <1>0, <2>1, <2>2, <3>1, SweptReopened
  <2>. QED
    BY <2>1, <2>2 DEF RootInv, RootChildFilesAreUnique, ChildFilesAreUnique
<1>7. CASE UNCHANGED vars
  BY <1>7 DEF vars, RootInv, RootChildFilesAreUnique, ChildFilesAreUnique
<1>. QED
  BY <1>2, <1>3, <1>4, <1>5, <1>6, <1>7 DEF Next, Serve, DropServer

(* The entries of the process that constructed the Server are as they were *)
(* registered until it is dropped.                                         *)
THEOREM RootUntouched == Spec => []RootInv
  BY InitRoot, NextKeepsRoot, TypeCorrect, PTL DEF Spec

(* An application forked by it gets a kernel file structure of its own for *)
(* every descriptor registered to be reopened (Action::Reopen).            *)
THEOREM RootChildrensFiles == Spec => []RootChildFilesAreUnique
<1>1. RootInv => RootChildFilesAreUnique
  BY DEF RootInv
<1>. QED
  BY <1>1, RootUntouched, PTL

(* When it drops the Server itself, override_and_close meets no number     *)
(* that is closed already and closes all that is not ignored.              *)
THEOREM RootShutdown == Spec => RootShutdownClosesAll
<1>1. TypeOK /\ RootInv /\ [Next]_vars =>
        [DropInServer /\ depth = 0
           => \A f \in Overridden(data) : ~ IsOpen(fds', f)]_vars
  <2>. SUFFICES ASSUME RootInv, DropInServer, depth = 0, NEW f \in Overridden(data)
                PROVE  ~ IsOpen(fds', f)
    OBVIOUS
  <2>1. Untouched(data, fds) /\ fds' = ShutdownTable(data, fds)
    BY DEF RootInv, DropInServer
  <2>2. \A g \in Overridden(data) : IsOpen(fds, g)
    BY <2>1 DEF Overridden, Untouched
  <2>3. fds' = SyncFdState(OverriddenTable(data, fds))
    BY <2>1, <2>2 DEF ShutdownTable, OverrideFails
  <2>4. f \in Fd /\ OverriddenTable(data, fds)[f] = Free
    BY <2>2 DEF OverriddenTable, Overridden
  <2>5. fds'[f] = Free
    BY <2>3, <2>4 DEF SyncFdState
  <2>. QED
    BY <2>5 DEF IsOpen
<1>. QED
  BY <1>1, TypeCorrect, RootUntouched, PTL DEF Spec, RootShutdownClosesAll

=============================================================================
