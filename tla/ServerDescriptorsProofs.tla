------------------------ MODULE ServerDescriptorsProofs ------------------------
(***************************************************************************)
(* Proofs about ServerDescriptors, for every size of the descriptor table, *)
(* every starting table and every set of faults.                           *)
(***************************************************************************)
EXTENDS ServerDescriptors, TLAPS

-----------------------------------------------------------------------------
(* Facts about the table and registry operators.                           *)

(* The number a new descriptor gets is a free one.                         *)
LEMMA LowestFreeIsFree ==
  ASSUME NEW tab, HasFree(tab)
  PROVE  LowestFree(tab) \in Fd /\ IsLowestFree(tab, LowestFree(tab))
  BY Zenon DEF HasFree, LowestFree

(* Opening and closing keep a table a table.                               *)
LEMMA OpenedType ==
  ASSUME NEW tab \in Table, NEW f \in Fd, NEW kind \in Kind
  PROVE  /\ Opened(tab, f, kind) \in Table
         /\ IsOpen(Opened(tab, f, kind), f)
         /\ ClosedFd(tab, f) \in Table
<1>1. [kind |-> kind, own |-> TRUE] \in Description
  BY DEF Description
<1>2. [kind |-> kind, own |-> TRUE] # Free
  BY DEF Free
<1>3. Opened(tab, f, kind)[f] = [kind |-> kind, own |-> TRUE]
  BY DEF Opened, Table
<1>4. IsOpen(Opened(tab, f, kind), f)
  BY <1>2, <1>3 DEF IsOpen
<1>. QED
  BY <1>1, <1>4 DEF Opened, ClosedFd, Table

(* The server's kinds are kinds.                                           *)
LEMMA ServerKinds ==
  /\ "Epoll" \in Kind /\ "Listen" \in Kind /\ "Client" \in Kind
  /\ "Signal" \in Kind /\ ServerKind \subseteq Kind
  BY DEF Kind, ServerKind

(* So does a fork.                                                         *)
LEMMA ForkedType ==
  ASSUME NEW tab \in Table
  PROVE  Forked(tab) \in Table
<1>1. ASSUME NEW f \in Fd, IsOpen(tab, f)
      PROVE  [tab[f] EXCEPT !.own = FALSE] \in Description
  BY <1>1 DEF IsOpen, Table, Description
<1>. QED
  BY <1>1 DEF Forked, Table

(* Registering and removing keep a registry a registry.                    *)
LEMMA RegisteredType ==
  ASSUME NEW reg \in Registry, NEW tab \in Table, NEW f \in Fd,
         NEW action \in Action, IsOpen(tab, f)
  PROVE  Registered(reg, tab, f, action) \in Registry
<1>1. tab[f].kind \in Kind
  BY DEF IsOpen, Table, Description
<1>2. NewEntry(tab, f, action) \in Entry
  BY <1>1 DEF NewEntry, Entry
<1>. QED
  BY <1>2 DEF Registered, Registry

(* FileDescriptorRegistry::remove keeps the registry well typed.           *)
LEMMA RemovedType ==
  ASSUME NEW reg \in Registry, NEW f
  PROVE  Removed(reg, f) \in Registry
  BY DEF Removed, Registry

(* Executing a prefix of the entries keeps both well typed.                *)
LEMMA SweptType ==
  ASSUME NEW tab \in Table, NEW reg \in Registry, NEW forkType, NEW stop
  PROVE  /\ SweptTable(tab, reg, forkType, stop) \in Table
         /\ SweptRegistry(reg, forkType, stop) \in Registry
<1>1. ASSUME NEW f \in Fd, f \in Swept(reg, forkType, stop)
      PROVE  reg[f] \in Entry
  BY <1>1 DEF Swept, HasEntry, Registry
<1>2. ASSUME NEW f \in Fd, f \in Swept(reg, forkType, stop)
      PROVE  AfterExecute(reg[f]) \in Description \cup {Free}
  BY <1>1, <1>2 DEF AfterExecute, Entry, Description, Kind
<1>3. ASSUME NEW f \in Fd, f \in Swept(reg, forkType, stop)
      PROVE  [reg[f] EXCEPT !.executed = TRUE] \in Entry
  BY <1>1, <1>3 DEF Entry
<1>. QED
  BY <1>2, <1>3 DEF SweptTable, SweptRegistry, Table, Registry

(* Synchronising the logger only ever closes a descriptor.                 *)
LEMMA SyncFdStateType ==
  ASSUME NEW tab \in Table
  PROVE  SyncFdState(tab) \in Table
  BY DEF SyncFdState, Table

(* The sweep's own /dev/null fits into the table.                          *)
LEMMA WithDevNullType ==
  ASSUME NEW tab \in Table, HasFree(tab)
  PROVE  WithDevNull(tab) \in Table
  BY LowestFreeIsFree, OpenedType DEF WithDevNull, Kind

(* So does the logger's descriptor when it is opened again.                *)
LEMMA LoggedType ==
  ASSUME NEW tab \in Table
  PROVE  Logged(tab) \in Table
  BY LowestFreeIsFree, OpenedType DEF Logged, Kind

(* register_new pushes entries with one of the five actions only: the      *)
(* kinds it has no action for end it with an error.                        *)
LEMMA NewlyRegisteredType ==
  ASSUME NEW tab \in Table, NEW reg \in Registry
  PROVE  NewlyRegistered(reg, tab) \in Registry
<1>1. ASSUME NEW f \in Fd, f \in Unregistered(reg, tab),
             \A g \in Refused(reg, tab) : f < g
      PROVE  NewEntry(tab, f, DefaultAction(tab[f].kind)) \in Entry
  <2>1. tab[f].kind \in Kind
    BY <1>1 DEF Unregistered, IsOpen, Table, Description
  <2>2. f \notin Refused(reg, tab)
    BY <1>1 DEF Fd
  <2>3. DefaultAction(tab[f].kind) # "None"
    BY <1>1, <2>2 DEF Refused
  <2>4. DefaultAction(tab[f].kind) \in Action
    BY <2>3 DEF DefaultAction, Action
  <2>. QED
    BY <2>1, <2>4 DEF NewEntry, Entry
<1>. QED
  BY <1>1 DEF NewlyRegistered, Registry

(* Shutdown only closes descriptors.                                       *)
LEMMA ShutdownTableType ==
  ASSUME NEW tab \in Table, NEW reg
  PROVE  ShutdownTable(reg, tab) \in Table
<1>1. OverriddenTable(reg, tab) \in Table
  BY DEF OverriddenTable, Table
<1>. QED
  BY <1>1, SyncFdStateType DEF ShutdownTable

-----------------------------------------------------------------------------
(* Type correctness.                                                       *)

(* Server::new starts from a well-typed state.                             *)
LEMMA InitTypeOK == Init => TypeOK
<1>. SUFFICES ASSUME Init PROVE TypeOK
  OBVIOUS
<1>. USE ServerAssumption, RegistryAssumption
<1>1. fds \in Table /\ StartTable(fds)
  BY DEF Init
<1>2. \A f \in Stdio : f \in Fd /\ NewEntry(fds, f, "Ignore") \in Entry
  BY <1>1 DEF StartTable, Stdio, Fd, NewEntry, Entry, Kind, Action
<1>3. data \in Registry
  BY <1>2 DEF Init, Registry
<1>. QED
  BY <1>1, <1>3 DEF Init, TypeOK, Phase

(* Every operation of the Server keeps the state well typed.               *)
LEMMA NextTypeOK == TypeOK /\ [Next]_vars => TypeOK'
<1>. SUFFICES ASSUME TypeOK, [Next]_vars PROVE TypeOK'
  OBVIOUS
<1>. USE ServerAssumption, RegistryAssumption DEF TypeOK, server, identity
<1>1. CASE NewEpoll
  <2>. PICK f \in Fd :
         /\ fds' = Opened(fds, f, "Epoll")
         /\ data' = Registered(data, fds', f, "Close")
         /\ epoll_handle' = f
    BY <1>1 DEF NewEpoll
  <2>1. fds' \in Table /\ IsOpen(fds', f)
    BY OpenedType, ServerKinds
  <2>2. data' \in Registry
    BY <2>1, RegisteredType DEF Action
  <2>. QED
    BY <1>1, <2>1, <2>2 DEF NewEpoll, Phase
<1>2. CASE NewServerSocket
  <2>. PICK f \in Fd :
         /\ \/ fds[f].kind = "Listen" /\ fds' = fds
            \/ fds' = Opened(fds, f, "Listen")
         /\ data' = Registered(data, fds', f, "Close")
         /\ server_socket' = f
    BY <1>2 DEF NewServerSocket
  <2>1. fds' \in Table /\ IsOpen(fds', f)
    <3>1. CASE fds[f].kind = "Listen" /\ fds' = fds
      BY <3>1 DEF IsOpen, Free
    <3>. QED
      BY <3>1, OpenedType, ServerKinds
  <2>2. data' \in Registry
    BY <2>1, RegisteredType DEF Action
  <2>. QED
    BY <1>2, <2>1, <2>2 DEF NewServerSocket, Phase
<1>3. CASE NewSignalFd
  <2>. PICK f \in Fd :
         /\ fds' = Opened(fds, f, "Signal")
         /\ data' = Registered(data, fds', f, "CloseUnlessSpawnSubspecies")
         /\ signal_fd' = f
    BY <1>3 DEF NewSignalFd
  <2>1. fds' \in Table /\ IsOpen(fds', f)
    BY OpenedType, ServerKinds
  <2>2. data' \in Registry
    BY <2>1, RegisteredType DEF Action
  <2>. QED
    BY <1>3, <2>1, <2>2 DEF NewSignalFd, Phase
<1>4. CASE RegisterInherited
  BY <1>4, NewlyRegisteredType DEF RegisterInherited, Phase
<1>5. CASE Preload
  BY <1>5, OpenedType DEF Preload, Phase
<1>6. CASE AcceptClient
  <2>. PICK f \in Fd :
         /\ fds' = Opened(fds, f, "Client")
         /\ client_sockets' = client_sockets \cup {f}
         /\ IF CanRegister(data, fds', f, "Close")
            THEN /\ data' = Registered(data, fds', f, "Close")
                 /\ phase' = phase
            ELSE /\ data' = data
                 /\ phase' = "drop"
    BY <1>6 DEF AcceptClient
  <2>1. fds' \in Table /\ IsOpen(fds', f)
    BY OpenedType, ServerKinds
  <2>2. data' \in Registry
    BY <2>1, RegisteredType DEF Action
  <2>. QED
    BY <1>6, <2>1, <2>2 DEF AcceptClient, Phase
<1>7. CASE RemoveClient
  <2>. PICK f \in client_sockets :
         /\ data' = Removed(data, f)
         /\ fds' = ClosedFd(fds, f)
         /\ client_sockets' = client_sockets \ {f}
    BY <1>7 DEF RemoveClient
  <2>1. fds' \in Table /\ data' \in Registry
    BY OpenedType, RemovedType DEF Kind
  <2>. QED
    BY <1>7, <2>1 DEF RemoveClient
<1>8. CASE ForkApplication
  BY <1>8, ForkedType DEF ForkApplication, Phase
<1>9. CASE ExecSpawn
  BY <1>9 DEF ExecSpawn, Phase
<1>10. CASE ForkSubspecies
  <2>1. requester' \in Fd
    BY <1>10 DEF ForkSubspecies
  <2>2. fds' \in Table
    BY <1>10, ForkedType DEF ForkSubspecies
  <2>3. depth' \in Nat
    BY <1>10 DEF ForkSubspecies
  <2>. QED
    BY <1>10, <2>1, <2>2, <2>3 DEF ForkSubspecies, Phase
<1>11. CASE StopServing
  BY <1>11 DEF StopServing, Phase
<1>12. CASE Speciate
  BY <1>12, OpenedType DEF Speciate, Phase
<1>13. CASE ResetForSubspecies
  BY <1>13, WithDevNullType, SweptType, SyncFdStateType, LoggedType,
     NewlyRegisteredType DEF ResetForSubspecies, Phase
<1>14. CASE ResetFails
  BY <1>14, WithDevNullType, SweptType DEF ResetFails, Phase
<1>15. CASE NewListener
  <2>. PICK f \in Fd :
         /\ fds' = Opened(fds, f, "Listen")
         /\ IF CanRegister(data, fds', f, "Close")
            THEN /\ data' = Registered(data, fds', f, "Close")
                 /\ client_sockets' = {}
                 /\ server_socket' = f
                 /\ phase' = "new_events"
            ELSE /\ phase' = "child_failed"
                 /\ UNCHANGED <<data, client_sockets, server_socket>>
    BY <1>15 DEF NewListener
  <2>1. fds' \in Table /\ IsOpen(fds', f)
    BY OpenedType, ServerKinds
  <2>2. data' \in Registry
    BY <2>1, RegisteredType DEF Action
  <2>. QED
    BY <1>15, <2>1, <2>2 DEF NewListener, Phase
<1>16. CASE NewEvents
  <2>. PICK f \in Fd :
         /\ fds' = Opened(fds, f, "Epoll")
         /\ epoll_handle' = f
         /\ IF CanRegister(data, fds', f, "Close")
            THEN /\ data' = Registered(data, fds', f, "Close")
                 /\ pid_is_mine' = TRUE
                 /\ phase' = "serve"
            ELSE /\ phase' = "child_failed"
                 /\ UNCHANGED <<data, pid_is_mine>>
    BY <1>16 DEF NewEvents
  <2>1. fds' \in Table /\ IsOpen(fds', f)
    BY OpenedType, ServerKinds
  <2>2. data' \in Registry
    BY <2>1, RegisteredType DEF Action
  <2>. QED
    BY <1>16, <2>1, <2>2 DEF NewEvents, Phase
<1>17. CASE ListenerFails
  <2>1. fds' \in Table
    BY <1>17, OpenedType, ServerKinds DEF ListenerFails
  <2>. QED
    BY <1>17, <2>1 DEF ListenerFails, Phase
<1>18. CASE EventsFail
  <2>1. CASE UNCHANGED <<fds, data, epoll_handle>>
    BY <1>18, <2>1 DEF EventsFail, Phase
  <2>2. ASSUME NEW f \in Fd,
               fds' = Opened(fds, f, "Epoll"),
               data' = Registered(data, fds', f, "Close"),
               epoll_handle' = f
        PROVE  TypeOK'
    <3>1. fds' \in Table /\ IsOpen(fds', f)
      BY <2>2, OpenedType, ServerKinds
    <3>2. data' \in Registry
      BY <2>2, <3>1, RegisteredType DEF Action
    <3>. QED
      BY <1>18, <2>2, <3>1, <3>2 DEF EventsFail, Phase
  <2>. QED
    BY <1>18, <2>1, <2>2 DEF EventsFail
<1>19. CASE ChildFailed
  <2>1. data' \in Registry
    BY <1>19, RemovedType DEF ChildFailed
  <2>2. fds' \in Table
    <3>1. fds' = fds \/ (requester \in Fd /\ fds' = ClosedFd(fds, requester))
      BY <1>19 DEF ChildFailed
    <3>. QED
      BY <3>1, OpenedType DEF Kind
  <2>. QED
    BY <1>19, <2>1, <2>2 DEF ChildFailed, Phase
<1>20. CASE DropInServer
  BY <1>20, ShutdownTableType DEF DropInServer, Phase
<1>21. CASE DropInChild
  BY <1>21, WithDevNullType, SweptType, SyncFdStateType DEF DropInChild, Phase
<1>22. CASE DropInChildFails
  BY <1>22 DEF DropInChildFails, Phase
<1>23. CASE UNCHANGED vars
  BY <1>23 DEF vars
<1>. QED
  BY <1>1, <1>2, <1>3, <1>4, <1>5, <1>6, <1>7, <1>8, <1>9, <1>10, <1>11, <1>12,
     <1>13, <1>14, <1>15, <1>16, <1>17, <1>18, <1>19, <1>20, <1>21, <1>22, <1>23
     DEF Next, Construct, Serve, BecomeSubspecies, DropServer

(* Every step of Server keeps its fields, its registry and the kernel's    *)
(* table well formed.                                                      *)
THEOREM TypeCorrect == Spec => []TypeOK
  BY InitTypeOK, NextTypeOK, PTL DEF Spec

-----------------------------------------------------------------------------
(* What the operators do to the descriptors that must be closed.           *)

(* Opening something that is no server descriptor disturbs none.           *)
LEMMA OpenedOther ==
  ASSUME NEW tab \in Table, NEW reg, NEW f \in Fd, NEW kind \in Kind \ ServerKind,
         NEW g \in Fd, AccountedFor(reg, tab, g)
  PROVE  AccountedFor(reg, Opened(tab, f, kind), g)
<1>1. CASE g = f
  BY <1>1 DEF AccountedFor, Opened, Table
<1>2. CASE g # f
  BY <1>2 DEF AccountedFor, Opened, Table
<1>. QED
  BY <1>1, <1>2

(* Opening and registering a server descriptor accounts for it.            *)
LEMMA OpenedRegistered ==
  ASSUME NEW tab \in Table, NEW reg \in Registry, NEW f \in Fd,
         NEW kind \in ServerKind, NEW action,
         action = (IF kind = "Signal"
                   THEN "CloseUnlessSpawnSubspecies" ELSE "Close")
  PROVE  LET t == Opened(tab, f, kind)
             r == Registered(reg, t, f, action)
         IN /\ AccountedFor(r, t, f)
            /\ \A g \in Fd \ {f} : t[g] = tab[g] /\ r[g] = reg[g]
<1>. DEFINE t == Opened(tab, f, kind)
            r == Registered(reg, t, f, action)
<1>1. t[f].kind = kind /\ \A g \in Fd \ {f} : t[g] = tab[g]
  BY DEF Opened, Table
<1>2. r[f] = NewEntry(t, f, action) /\ \A g \in Fd \ {f} : r[g] = reg[g]
  BY DEF Registered, Registry
<1>3. WillBeClosed(r[f], kind)
  BY <1>2 DEF WillBeClosed, NewEntry
<1>. QED
  BY <1>1, <1>2, <1>3 DEF AccountedFor

(* Entries with another action than Reopen make no registry unsafe.        *)
LEMMA RegisteredReopens ==
  ASSUME NEW reg \in Registry, NEW tab, NEW f \in Fd,
         NEW action \in Action \ {"Reopen"}, ReopensNoServerKind(reg)
  PROVE  /\ ReopensNoServerKind(Registered(reg, tab, f, action))
         /\ ReopensNoServerKind(Removed(reg, f))
  BY DEF ReopensNoServerKind, Registered, Removed, Registry, NewEntry, NoEntry

(* A sweep, complete or not, closes a server descriptor or leaves it with  *)
(* its entry.                                                              *)
LEMMA SweptAccounted ==
  ASSUME NEW tab \in Table, NEW reg \in Registry, NEW forkType, NEW stop,
         ReopensNoServerKind(reg), NEW g \in Fd, AccountedFor(reg, tab, g)
  PROVE  AccountedFor(SweptRegistry(reg, forkType, stop),
                      SweptTable(tab, reg, forkType, stop), g)
<1>. DEFINE S == Swept(reg, forkType, stop)
            t == SweptTable(tab, reg, forkType, stop)
            r == SweptRegistry(reg, forkType, stop)
<1>1. CASE g \in S
  <2>1. t[g] = AfterExecute(reg[g])
    BY <1>1 DEF SweptTable
  <2>2. reg[g] \in Entry /\ Acts(reg[g], forkType)
    BY <1>1 DEF Swept, HasEntry, Registry
  <2>3. AfterExecute(reg[g]).kind \notin ServerKind
    <3>1. CASE reg[g].action \in {"Close", "CloseUnlessSpawnSubspecies"}
      BY <3>1 DEF AfterExecute, Free, ServerKind
    <3>2. CASE reg[g].action = "DupeNull"
      BY <3>2 DEF AfterExecute, ServerKind
    <3>3. CASE reg[g].action = "Reopen"
      BY <3>3 DEF AfterExecute, ReopensNoServerKind
    <3>. QED
      BY <2>2, <3>1, <3>2, <3>3 DEF Acts
  <2>. QED
    BY <2>1, <2>3 DEF AccountedFor
<1>2. CASE g \notin S
  <2>1. t[g] = tab[g] /\ r[g] = reg[g]
    BY <1>2 DEF SweptTable, SweptRegistry
  <2>. QED
    BY <2>1 DEF AccountedFor
<1>. QED
  BY <1>1, <1>2

(* Executing an entry changes neither its action nor what it records.      *)
LEMMA SweptReopens ==
  ASSUME NEW reg \in Registry, NEW forkType, NEW stop, ReopensNoServerKind(reg)
  PROVE  ReopensNoServerKind(SweptRegistry(reg, forkType, stop))
<1>1. ASSUME NEW f \in Fd
      PROVE  /\ SweptRegistry(reg, forkType, stop)[f].action = reg[f].action
             /\ SweptRegistry(reg, forkType, stop)[f].kind = reg[f].kind
  BY DEF SweptRegistry, Registry, Entry, NoEntry
<1>. QED
  BY <1>1 DEF ReopensNoServerKind

(* A complete sweep reaches every entry.                                   *)
LEMMA SweptAll ==
  ASSUME NEW tab \in Table, NEW reg \in Registry, NEW forkType,
         NEW g \in Fd, tab[g].kind \in ServerKind, AccountedFor(reg, tab, g),
         tab[g].kind # "Signal" \/ forkType = "Application"
  PROVE  SweptTable(tab, reg, forkType, MaxFd + 1)[g] = Free
<1>1. WillBeClosed(reg[g], tab[g].kind)
  BY DEF AccountedFor
<1>2. g < MaxFd + 1
  BY RegistryAssumption DEF Fd
<1>3. HasEntry(reg, g) /\ Acts(reg[g], forkType)
  BY <1>1 DEF WillBeClosed, HasEntry, Acts, NoEntry
<1>4. g \in Swept(reg, forkType, MaxFd + 1)
  BY <1>2, <1>3 DEF Swept
<1>. QED
  BY <1>1, <1>4 DEF SweptTable, AfterExecute, WillBeClosed

(* A complete sweep leaves no server descriptor but the signalfd, and that *)
(* one in a subspecies only.                                               *)
LEMMA SweptLeaves ==
  ASSUME NEW tab \in Table, NEW reg \in Registry, NEW forkType,
         ReopensNoServerKind(reg), NEW g \in Fd, AccountedFor(reg, tab, g)
  PROVE  LET t == SweptTable(tab, reg, forkType, MaxFd + 1)
         IN t[g].kind \in ServerKind =>
              t[g].kind = "Signal" /\ forkType # "Application"
<1>. DEFINE S == Swept(reg, forkType, MaxFd + 1)
            t == SweptTable(tab, reg, forkType, MaxFd + 1)
<1>1. CASE g \in S
  <2>1. t[g] = AfterExecute(reg[g])
    BY <1>1 DEF SweptTable
  <2>2. Acts(reg[g], forkType)
    BY <1>1 DEF Swept
  <2>3. CASE reg[g].action \in {"Close", "CloseUnlessSpawnSubspecies"}
    BY <2>1, <2>3 DEF AfterExecute, Free, ServerKind
  <2>4. CASE reg[g].action = "DupeNull"
    BY <2>1, <2>4 DEF AfterExecute, ServerKind
  <2>5. CASE reg[g].action = "Reopen"
    BY <2>1, <2>5 DEF AfterExecute, ReopensNoServerKind
  <2>. QED
    BY <2>2, <2>3, <2>4, <2>5 DEF Acts
<1>2. CASE g \notin S
  <2>1. t[g] = tab[g]
    BY <1>2 DEF SweptTable
  <2>. QED
    BY <2>1, SweptAll DEF ServerKind, Free
<1>. QED
  BY <1>1, <1>2

(* Registering what is left disturbs no server descriptor.                 *)
LEMMA NewlyRegisteredAccounted ==
  ASSUME NEW tab \in Table, NEW reg \in Registry,
         NEW g \in Fd, AccountedFor(reg, tab, g)
  PROVE  AccountedFor(NewlyRegistered(reg, tab), tab, g)
<1>1. CASE tab[g].kind \in ServerKind
  <2>1. HasEntry(reg, g)
    BY <1>1 DEF AccountedFor, WillBeClosed, HasEntry, NoEntry
  <2>2. NewlyRegistered(reg, tab)[g] = reg[g]
    BY <2>1 DEF NewlyRegistered, Unregistered, IsRegistered
  <2>. QED
    BY <2>2 DEF AccountedFor
<1>. QED
  BY <1>1 DEF AccountedFor

(* register_new never chooses Reopen for a server descriptor.              *)
LEMMA NewlyRegisteredReopens ==
  ASSUME NEW tab \in Table, NEW reg \in Registry, ReopensNoServerKind(reg)
  PROVE  ReopensNoServerKind(NewlyRegistered(reg, tab))
<1>1. ASSUME NEW kind, DefaultAction(kind) = "Reopen"
      PROVE  kind \notin ServerKind
  BY <1>1 DEF DefaultAction, ServerKind
<1>. QED
  BY <1>1 DEF ReopensNoServerKind, NewlyRegistered, NewEntry

(* Closing the logger disturbs no server descriptor.                       *)
LEMMA SyncFdStateAccounted ==
  ASSUME NEW tab \in Table, NEW reg, NEW g \in Fd, AccountedFor(reg, tab, g)
  PROVE  AccountedFor(reg, SyncFdState(tab), g)
  BY DEF AccountedFor, SyncFdState, Free, ServerKind

(* Nor does opening /dev/null for the sweep.                               *)
LEMMA WithDevNullAccounted ==
  ASSUME NEW tab \in Table, HasFree(tab),
         NEW reg, NEW g \in Fd, AccountedFor(reg, tab, g)
  PROVE  AccountedFor(reg, WithDevNull(tab), g)
<1>1. "DevNull" \in Kind \ ServerKind
  BY DEF Kind, ServerKind
<1>. QED
  BY <1>1, LowestFreeIsFree, OpenedOther DEF WithDevNull

(* Nor does opening the logger again.                                      *)
LEMMA LoggedAccounted ==
  ASSUME NEW tab \in Table, NEW reg, NEW g \in Fd, AccountedFor(reg, tab, g)
  PROVE  AccountedFor(reg, Logged(tab), g)
<1>1. "Log" \in Kind \ ServerKind
  BY DEF Kind, ServerKind
<1>. QED
  BY <1>1, LowestFreeIsFree, OpenedOther DEF Logged

(* A fork changes nothing about what is registered.                        *)
LEMMA ForkedAccounted ==
  ASSUME NEW tab \in Table, NEW reg, AllAccountedFor(reg, tab)
  PROVE  AllAccountedFor(reg, Forked(tab))
<1>1. ASSUME NEW f \in Fd
      PROVE  Forked(tab)[f].kind = tab[f].kind
  BY DEF Forked, IsOpen, Table, Description, Free
<1>. QED
  BY <1>1 DEF AllAccountedFor, AccountedFor

(* Removing a client and closing its descriptor go together.               *)
LEMMA RemovedAccounted ==
  ASSUME NEW tab \in Table, NEW reg \in Registry, NEW f \in Fd,
         AllAccountedFor(reg, tab)
  PROVE  AllAccountedFor(Removed(reg, f), ClosedFd(tab, f))
<1>1. ClosedFd(tab, f)[f] = Free
  BY DEF ClosedFd, Table
<1>2. \A g \in Fd \ {f} : ClosedFd(tab, f)[g] = tab[g] /\ Removed(reg, f)[g] = reg[g]
  BY DEF ClosedFd, Removed, Table, Registry
<1>3. Free.kind \notin ServerKind
  BY DEF Free, ServerKind
<1>. QED
  BY <1>1, <1>2, <1>3 DEF AllAccountedFor, AccountedFor

(* A server descriptor that is opened and registered joins the others.     *)
LEMMA OpenedRegisteredAll ==
  ASSUME NEW tab \in Table, NEW reg \in Registry, NEW f \in Fd,
         NEW kind \in {"Epoll", "Listen", "Client"},
         AllAccountedFor(reg, tab)
  PROVE  AllAccountedFor(Registered(reg, Opened(tab, f, kind), f, "Close"),
                         Opened(tab, f, kind))
<1>. DEFINE t == Opened(tab, f, kind)
            r == Registered(reg, t, f, "Close")
<1>1. kind \in ServerKind /\ kind # "Signal"
  BY DEF ServerKind
<1>2. AccountedFor(r, t, f) /\ \A g \in Fd \ {f} : t[g] = tab[g] /\ r[g] = reg[g]
  BY <1>1, OpenedRegistered
<1>. QED
  BY <1>2 DEF AllAccountedFor, AccountedFor

(* What a process opens itself is no inherited epoll instance.             *)
LEMMA OpenedNoInheritedEpoll ==
  ASSUME NEW tab \in Table, NEW f \in Fd, NEW kind, NoInheritedEpoll(tab)
  PROVE  NoInheritedEpoll(Opened(tab, f, kind))
<1>1. [kind |-> kind, own |-> TRUE] # [kind |-> "Epoll", own |-> FALSE]
  OBVIOUS
<1>2. \A g \in Fd : Opened(tab, f, kind)[g] = tab[g]
                    \/ Opened(tab, f, kind)[g] = [kind |-> kind, own |-> TRUE]
  BY DEF Opened, Table
<1>. QED
  BY <1>1, <1>2 DEF NoInheritedEpoll

(* The table a subspecies is left with by its reset.                       *)
LEMMA ResetTable ==
  ASSUME NEW tab \in Table, NEW reg \in Registry, HasFree(tab),
         ReopensNoServerKind(reg), AllAccountedFor(reg, tab)
  PROVE  LET t == Logged(SyncFdState(
                    SweptTable(WithDevNull(tab), reg, "Subspecies", MaxFd + 1)))
             r == SweptRegistry(reg, "Subspecies", MaxFd + 1)
         IN AllAccountedFor(r, t) /\ NoInheritedEpoll(t)
<1>. DEFINE w == WithDevNull(tab)
            s == SweptTable(w, reg, "Subspecies", MaxFd + 1)
            y == SyncFdState(s)
            t == Logged(y)
            r == SweptRegistry(reg, "Subspecies", MaxFd + 1)
<1>1. w \in Table /\ s \in Table /\ y \in Table /\ r \in Registry
  BY WithDevNullType, SweptType, SyncFdStateType
<1>2. ASSUME NEW g \in Fd PROVE AccountedFor(r, t, g)
  <2>1. AccountedFor(reg, w, g)
    BY WithDevNullAccounted DEF AllAccountedFor
  <2>2. AccountedFor(r, s, g)
    BY <1>1, <2>1, SweptAccounted
  <2>3. AccountedFor(r, y, g)
    BY <1>1, <2>2, SyncFdStateAccounted
  <2>. QED
    BY <1>1, <2>3, LoggedAccounted
<1>3. ASSUME NEW g \in Fd PROVE s[g].kind # "Epoll"
  <2>1. AccountedFor(reg, w, g)
    BY WithDevNullAccounted DEF AllAccountedFor
  <2>2. s[g].kind \in ServerKind => s[g].kind = "Signal"
    BY <1>1, <2>1, SweptLeaves
  <2>. QED
    BY <2>2 DEF ServerKind
<1>4. ASSUME NEW g \in Fd PROVE y[g].kind # "Epoll"
  BY <1>3 DEF SyncFdState, Free
<1>5. NoInheritedEpoll(y)
  BY <1>4 DEF NoInheritedEpoll
<1>6. NoInheritedEpoll(t)
  BY <1>1, <1>5, LowestFreeIsFree, OpenedNoInheritedEpoll DEF Logged
<1>. QED
  BY <1>2, <1>6 DEF AllAccountedFor

-----------------------------------------------------------------------------
(* Safety: the application child holds none of the server's descriptors.   *)

(* Server::new starts with stdio in the registry and, of the server kinds, *)
(* at most listening sockets open.                                         *)
LEMMA InitDescriptorInv == Init => DescriptorInv
<1>. SUFFICES ASSUME Init PROVE DescriptorInv
  OBVIOUS
<1>. USE ServerAssumption, RegistryAssumption
<1>1. fds \in Table /\ StartTable(fds)
  BY DEF Init
<1>2. phase \in {"new_register", "new_epoll"} /\ ~ thunk
  BY DEF Init
<1>3. ASSUME NEW f \in Fd, data[f].action = "Reopen"
      PROVE  data[f].kind \notin ServerKind
  BY <1>3 DEF Init, NewEntry, NoEntry
<1>4. ASSUME NEW f \in Fd, fds[f].kind \in ServerKind
      PROVE  fds[f].kind = "Listen" /\ ~ HasEntry(data, f)
  <2>1. fds[f].kind = "Listen"
    BY <1>1, <1>4 DEF StartTable, ServerKind
  <2>2. f \notin Stdio
    BY <1>1, <2>1 DEF StartTable
  <2>. QED
    BY <2>1, <2>2 DEF Init, HasEntry
<1>. QED
  BY <1>2, <1>3, <1>4 DEF DescriptorInv, ReopensNoServerKind, AccountedFor

(* While Server::new runs, each of its steps registers what it opens.      *)
LEMMA ConstructKeepsDescriptorInv ==
  TypeOK /\ DescriptorInv /\ Construct => DescriptorInv'
<1>. SUFFICES ASSUME TypeOK, DescriptorInv, Construct PROVE DescriptorInv'
  OBVIOUS
<1>. USE DEF TypeOK, server, identity
<1>. DEFINE Pending(reg, tab) ==
       \A f \in Fd : \/ AccountedFor(reg, tab, f)
                     \/ tab[f].kind = "Listen" /\ ~ HasEntry(reg, f)
<1>0. fds \in Table /\ data \in Registry /\ ReopensNoServerKind(data)
  BY DEF DescriptorInv
<1>1. ASSUME NEW f \in Fd, NEW kind \in {"Epoll", "Listen", "Signal"},
             NEW action,
             action = (IF kind = "Signal"
                       THEN "CloseUnlessSpawnSubspecies" ELSE "Close"),
             Pending(data, fds),
             \/ fds' = Opened(fds, f, kind)
             \/ fds' = fds /\ fds[f].kind = kind,
             data' = Registered(data, fds', f, action)
      PROVE  Pending(data', fds') /\ ReopensNoServerKind(data')
  <2>1. fds' \in Table
    BY <1>0, <1>1, OpenedType DEF Kind, ServerKind
  <2>2. fds'[f].kind = kind /\ \A g \in Fd \ {f} : fds'[g] = fds[g]
    BY <1>0, <1>1 DEF Opened, Table
  <2>3. data'[f] = NewEntry(fds', f, action)
        /\ \A g \in Fd \ {f} : data'[g] = data[g]
    BY <1>0, <1>1 DEF Registered, Registry
  <2>4. AccountedFor(data', fds', f)
    BY <1>1, <2>2, <2>3 DEF AccountedFor, WillBeClosed, NewEntry
  <2>5. Pending(data', fds')
    BY <1>1, <2>2, <2>3, <2>4 DEF AccountedFor, HasEntry
  <2>6. action \in Action \ {"Reopen"}
    BY <1>1 DEF Action
  <2>. QED
    BY <1>0, <1>1, <2>5, <2>6, RegisteredReopens
<1>2. CASE NewEpoll
  <2>1. Pending(data, fds)
    BY <1>2 DEF NewEpoll, DescriptorInv
  <2>2. Pending(data', fds') /\ ReopensNoServerKind(data')
    BY <1>1, <1>2, <2>1 DEF NewEpoll
  <2>. QED
    BY <1>2, <2>2 DEF NewEpoll, DescriptorInv
<1>3. CASE NewServerSocket
  <2>1. Pending(data, fds)
    BY <1>3 DEF NewServerSocket, DescriptorInv
  <2>2. Pending(data', fds') /\ ReopensNoServerKind(data')
    BY <1>1, <1>3, <2>1 DEF NewServerSocket
  <2>. QED
    BY <1>3, <2>2 DEF NewServerSocket, DescriptorInv
<1>4. CASE NewSignalFd
  <2>1. Pending(data, fds)
    BY <1>4 DEF NewSignalFd, DescriptorInv
  <2>2. Pending(data', fds') /\ ReopensNoServerKind(data')
    BY <1>1, <1>4, <2>1 DEF NewSignalFd
  <2>. QED
    BY <1>4, <2>2 DEF NewSignalFd, DescriptorInv
<1>5. CASE RegisterInherited
  <2>1. Pending(data, fds)
    BY <1>5 DEF RegisterInherited, DescriptorInv
  <2>2. ReopensNoServerKind(data')
    BY <1>0, <1>5, NewlyRegisteredReopens DEF RegisterInherited
  <2>3. ASSUME Refused(data, fds) = {}, NEW f \in Fd
        PROVE  AccountedFor(data', fds', f)
    <3>1. CASE AccountedFor(data, fds, f)
      BY <1>0, <1>5, <3>1, NewlyRegisteredAccounted DEF RegisterInherited
    <3>2. CASE fds[f].kind = "Listen" /\ ~ HasEntry(data, f)
      <4>1. f \in Refused(data, fds)
        BY <3>2 DEF Refused, Unregistered, IsRegistered, IsOpen, Free, DefaultAction
      <4>. QED
        BY <2>3, <4>1
    <3>. QED
      BY <2>1, <3>1, <3>2
  <2>4. phase' = "preload" => AllAccountedFor(data', fds')
    BY <1>5, <2>3 DEF RegisterInherited, AllAccountedFor
  <2>. QED
    BY <1>5, <2>2, <2>4 DEF RegisterInherited, DescriptorInv
<1>6. CASE Preload
  <2>1. AllAccountedFor(data, fds)
    BY <1>6 DEF Preload, DescriptorInv
  <2>2. AllAccountedFor(data, fds')
    <3>1. LibraryOpens \subseteq Kind \ ServerKind
      BY ServerAssumption
    <3>. QED
      BY <1>0, <1>6, <2>1, <3>1, OpenedOther DEF Preload, AllAccountedFor
  <2>. QED
    BY <1>0, <1>6, <2>2 DEF Preload, DescriptorInv
<1>. QED
  BY <1>2, <1>3, <1>4, <1>5, <1>6 DEF Construct

(* In the loop, what is opened is registered and what is closed is removed. *)
LEMMA ServeKeepsDescriptorInv ==
  TypeOK /\ DescriptorInv /\ Serve => DescriptorInv'
<1>. SUFFICES ASSUME TypeOK, DescriptorInv, Serve PROVE DescriptorInv'
  OBVIOUS
<1>. USE DEF TypeOK, server, identity
<1>0. /\ phase = "serve" /\ ~ thunk
      /\ fds \in Table /\ data \in Registry
      /\ ReopensNoServerKind(data) /\ AllAccountedFor(data, fds)
  BY DEF Serve, AcceptClient, RemoveClient, ForkApplication, ExecSpawn,
         ForkSubspecies, StopServing, Serving, DescriptorInv
<1>1. CASE AcceptClient
  <2>. PICK f \in Fd :
         /\ fds' = Opened(fds, f, "Client")
         /\ IF CanRegister(data, fds', f, "Close")
            THEN /\ data' = Registered(data, fds', f, "Close")
                 /\ phase' = phase
            ELSE /\ data' = data
                 /\ phase' = "drop"
    BY <1>1 DEF AcceptClient
  <2>1. CASE CanRegister(data, fds', f, "Close")
    <3>1. AllAccountedFor(data', fds')
      BY <1>0, <2>1, OpenedRegisteredAll
    <3>2. ReopensNoServerKind(data')
      BY <1>0, <2>1, RegisteredReopens DEF Action
    <3>. QED
      BY <1>0, <1>1, <2>1, <3>1, <3>2 DEF AcceptClient, DescriptorInv
  <2>2. CASE ~ CanRegister(data, fds', f, "Close")
    BY <1>0, <1>1, <2>2 DEF AcceptClient, DescriptorInv
  <2>. QED
    BY <2>1, <2>2
<1>2. CASE RemoveClient
  <2>. PICK f \in client_sockets :
         data' = Removed(data, f) /\ fds' = ClosedFd(fds, f)
    BY <1>2 DEF RemoveClient
  <2>1. f \in Fd
    OBVIOUS
  <2>2. AllAccountedFor(data', fds')
    BY <1>0, <2>1, RemovedAccounted
  <2>3. ReopensNoServerKind(data')
    BY <1>0, <2>1, RegisteredReopens DEF Action
  <2>. QED
    BY <1>0, <1>2, <2>2, <2>3 DEF RemoveClient, DescriptorInv
<1>3. CASE ForkApplication
  <2>1. AllAccountedFor(data', fds')
    BY <1>0, <1>3, ForkedAccounted DEF ForkApplication
  <2>. QED
    BY <1>0, <1>3, <2>1 DEF ForkApplication, DescriptorInv
<1>4. CASE ExecSpawn
  BY <1>0, <1>4 DEF ExecSpawn, DescriptorInv
<1>5. CASE ForkSubspecies
  <2>1. AllAccountedFor(data', fds')
    BY <1>0, <1>5, ForkedAccounted DEF ForkSubspecies
  <2>. QED
    BY <1>0, <1>5, <2>1 DEF ForkSubspecies, DescriptorInv
<1>6. CASE StopServing
  BY <1>0, <1>6 DEF StopServing, DescriptorInv
<1>. QED
  BY <1>1, <1>2, <1>3, <1>4, <1>5, <1>6 DEF Serve

(* A subspecies child either becomes a server with everything registered,  *)
(* or fails and cannot reach the loop with anything left unregistered.     *)
LEMMA BecomeSubspeciesKeepsDescriptorInv ==
  TypeOK /\ DescriptorInv /\ BecomeSubspecies => DescriptorInv'
<1>. SUFFICES ASSUME TypeOK, DescriptorInv, BecomeSubspecies PROVE DescriptorInv'
  OBVIOUS
<1>. USE DEF TypeOK, server, identity
<1>0. /\ ~ thunk /\ fds \in Table /\ data \in Registry
      /\ ReopensNoServerKind(data)
  BY DEF BecomeSubspecies, Speciate, ResetForSubspecies, ResetFails, NewListener,
         NewEvents, ListenerFails, EventsFail, ChildFailed, DescriptorInv
<1>1. CASE Speciate
  <2>1. AllAccountedFor(data, fds)
    BY <1>1 DEF Speciate, DescriptorInv
  <2>2. AllAccountedFor(data, fds')
    <3>1. SpeciateOpens \subseteq Kind \ ServerKind
      BY ServerAssumption
    <3>. QED
      BY <1>0, <1>1, <2>1, <3>1, OpenedOther DEF Speciate, AllAccountedFor
  <2>. QED
    BY <1>0, <1>1, <2>2 DEF Speciate, DescriptorInv
<1>2. CASE ResetForSubspecies
  <2>1. AllAccountedFor(data, fds) /\ HasFree(fds)
    BY <1>2 DEF ResetForSubspecies, DescriptorInv
  <2>. DEFINE r == SweptRegistry(data, "Subspecies", MaxFd + 1)
  <2>2. data' = NewlyRegistered(r, fds')
    BY <1>2 DEF ResetForSubspecies
  <2>3. AllAccountedFor(r, fds') /\ NoInheritedEpoll(fds')
    BY <1>0, <1>2, <2>1, ResetTable DEF ResetForSubspecies
  <2>4. fds' \in Table /\ r \in Registry /\ ReopensNoServerKind(r)
    BY <1>0, <1>2, <2>1, WithDevNullType, SweptType, SyncFdStateType, LoggedType,
       SweptReopens DEF ResetForSubspecies
  <2>5. AllAccountedFor(data', fds')
    BY <2>2, <2>3, <2>4, NewlyRegisteredAccounted DEF AllAccountedFor
  <2>6. ReopensNoServerKind(data')
    BY <2>2, <2>4, NewlyRegisteredReopens
  <2>7. phase' \in {"new_listener", "child_failed"} /\ thunk' = thunk
    BY <1>2 DEF ResetForSubspecies
  <2>. QED
    BY <1>0, <2>3, <2>5, <2>6, <2>7 DEF DescriptorInv
<1>3. CASE ResetFails
  <2>1. AllAccountedFor(data, fds)
    BY <1>3 DEF ResetFails, DescriptorInv
  <2>2. AllAccountedFor(data', fds') /\ ReopensNoServerKind(data')
    <3>1. CASE UNCHANGED <<fds, data>>
      BY <1>0, <2>1, <3>1
    <3>2. ASSUME HasFree(fds), NEW f \in Fd,
                 fds' = SweptTable(WithDevNull(fds), data, "Subspecies", f),
                 data' = SweptRegistry(data, "Subspecies", f)
          PROVE  AllAccountedFor(data', fds') /\ ReopensNoServerKind(data')
      <4>1. AllAccountedFor(data, WithDevNull(fds)) /\ WithDevNull(fds) \in Table
        BY <1>0, <2>1, <3>2, WithDevNullAccounted, WithDevNullType
           DEF AllAccountedFor
      <4>2. AllAccountedFor(data', fds')
        BY <1>0, <3>2, <4>1, SweptAccounted DEF AllAccountedFor
      <4>. QED
        BY <1>0, <3>2, <4>2, SweptReopens
    <3>. QED
      BY <1>3, <3>1, <3>2 DEF ResetFails
  <2>. QED
    BY <1>0, <1>3, <2>2 DEF ResetFails, DescriptorInv
<1>4. CASE NewListener
  <2>. PICK f \in Fd :
         /\ fds' = Opened(fds, f, "Listen")
         /\ IF CanRegister(data, fds', f, "Close")
            THEN /\ data' = Registered(data, fds', f, "Close")
                 /\ phase' = "new_events"
            ELSE /\ phase' = "child_failed"
                 /\ data' = data
    BY <1>4 DEF NewListener
  <2>1. AllAccountedFor(data, fds) /\ NoInheritedEpoll(fds)
    BY <1>4 DEF NewListener, DescriptorInv
  <2>2. NoInheritedEpoll(fds')
    BY <1>0, <2>1, OpenedNoInheritedEpoll
  <2>3. thunk' = thunk
    BY <1>4 DEF NewListener
  <2>4. CASE CanRegister(data, fds', f, "Close")
    <3>1. AllAccountedFor(data', fds')
      BY <1>0, <2>1, <2>4, OpenedRegisteredAll
    <3>2. ReopensNoServerKind(data')
      BY <1>0, <2>4, RegisteredReopens DEF Action
    <3>. QED
      BY <1>0, <2>2, <2>3, <2>4, <3>1, <3>2 DEF DescriptorInv
  <2>5. CASE ~ CanRegister(data, fds', f, "Close")
    BY <1>0, <2>2, <2>3, <2>5 DEF DescriptorInv
  <2>. QED
    BY <2>4, <2>5
<1>5. CASE NewEvents
  <2>. PICK f \in Fd :
         /\ fds' = Opened(fds, f, "Epoll")
         /\ IF CanRegister(data, fds', f, "Close")
            THEN /\ data' = Registered(data, fds', f, "Close")
                 /\ phase' = "serve"
            ELSE /\ phase' = "child_failed"
                 /\ data' = data
    BY <1>5 DEF NewEvents
  <2>1. AllAccountedFor(data, fds) /\ NoInheritedEpoll(fds)
    BY <1>5 DEF NewEvents, DescriptorInv
  <2>2. NoInheritedEpoll(fds')
    BY <1>0, <2>1, OpenedNoInheritedEpoll
  <2>3. thunk' = thunk
    BY <1>5 DEF NewEvents
  <2>4. CASE CanRegister(data, fds', f, "Close")
    <3>1. AllAccountedFor(data', fds')
      BY <1>0, <2>1, <2>4, OpenedRegisteredAll
    <3>2. ReopensNoServerKind(data')
      BY <1>0, <2>4, RegisteredReopens DEF Action
    <3>. QED
      BY <1>0, <2>2, <2>3, <2>4, <3>1, <3>2 DEF DescriptorInv
  <2>5. CASE ~ CanRegister(data, fds', f, "Close")
    BY <1>0, <2>2, <2>3, <2>5 DEF DescriptorInv
  <2>. QED
    BY <2>4, <2>5
<1>6. CASE ListenerFails
  <2>1. NoInheritedEpoll(fds)
    BY <1>6 DEF ListenerFails, DescriptorInv
  <2>2. NoInheritedEpoll(fds')
    BY <1>0, <1>6, <2>1, OpenedNoInheritedEpoll DEF ListenerFails
  <2>. QED
    BY <1>0, <1>6, <2>2 DEF ListenerFails, DescriptorInv
<1>8. CASE EventsFail
  <2>1. NoInheritedEpoll(fds)
    BY <1>8 DEF EventsFail, DescriptorInv
  <2>2. NoInheritedEpoll(fds')
    BY <1>0, <1>8, <2>1, OpenedNoInheritedEpoll DEF EventsFail
  <2>3. ReopensNoServerKind(data')
    BY <1>0, <1>8, RegisteredReopens DEF EventsFail, Action
  <2>. QED
    BY <1>0, <1>8, <2>2, <2>3 DEF EventsFail, DescriptorInv
<1>7. CASE ChildFailed
  <2>1. thunk' = thunk
    BY <1>7 DEF ChildFailed
  <2>2. ReopensNoServerKind(data')
    BY <1>0, <1>7 DEF ChildFailed, ReopensNoServerKind, Removed, Registry, NoEntry
  <2>3. CASE phase' = "drop"
    BY <1>0, <2>1, <2>2, <2>3 DEF DescriptorInv
  <2>4. CASE phase' = "serve"
    <3>1. /\ InParentsEpollSet(requester) /\ requester \in Fd
          /\ data' = Removed(data, requester)
          /\ fds' = ClosedFd(fds, requester)
      BY <1>7, <2>4 DEF ChildFailed
    <3>2. ~ NoInheritedEpoll(fds)
      BY <3>1 DEF InParentsEpollSet, NoInheritedEpoll
    <3>3. AllAccountedFor(data, fds)
      BY <1>7, <3>2 DEF ChildFailed, DescriptorInv
    <3>4. AllAccountedFor(data', fds')
      BY <1>0, <3>1, <3>3, RemovedAccounted
    <3>. QED
      BY <1>0, <2>1, <2>2, <2>4, <3>4 DEF DescriptorInv
  <2>. QED
    BY <1>7, <2>3, <2>4 DEF ChildFailed
<1>. QED
  BY <1>1, <1>2, <1>3, <1>4, <1>5, <1>6, <1>7, <1>8 DEF BecomeSubspecies

(* Dropping the Server: a complete sweep for an application closes every   *)
(* server descriptor, since every one still has its entry.                 *)
LEMMA DropServerKeepsDescriptorInv ==
  TypeOK /\ DescriptorInv /\ DropServer => DescriptorInv'
<1>. SUFFICES ASSUME TypeOK, DescriptorInv, DropServer PROVE DescriptorInv'
  OBVIOUS
<1>. USE DEF TypeOK, server, identity
<1>0. /\ phase = "drop" /\ fds \in Table /\ data \in Registry
      /\ ReopensNoServerKind(data)
      /\ thunk => AllAccountedFor(data, fds)
  BY DEF DropServer, DropInServer, DropInChild, DropInChildFails, DescriptorInv
<1>1. CASE DropInServer
  BY <1>0, <1>1 DEF DropInServer, DescriptorInv
<1>2. CASE DropInChild
  <2>. DEFINE w == WithDevNull(fds)
              s == SweptTable(w, data, "Application", MaxFd + 1)
  <2>1. HasFree(fds) /\ fds' = SyncFdState(s) /\ thunk' = thunk
    BY <1>2 DEF DropInChild
  <2>2. w \in Table
    BY <1>0, <2>1, WithDevNullType
  <2>3. ReopensNoServerKind(data')
    BY <1>0, <1>2, SweptReopens DEF DropInChild
  <2>4. ASSUME thunk, NEW g \in Fd PROVE s[g].kind \notin ServerKind
    <3>1. AccountedFor(data, w, g)
      BY <1>0, <2>1, <2>4, WithDevNullAccounted DEF AllAccountedFor
    <3>. QED
      BY <1>0, <2>2, <3>1, SweptLeaves
  <2>5. ASSUME thunk, NEW g \in Fd PROVE fds'[g].kind \notin ServerKind
    BY <2>1, <2>4, <2>5 DEF SyncFdState, Free, ServerKind
  <2>6. phase' = IF thunk THEN "gestate" ELSE "exited"
    BY <1>2 DEF DropInChild
  <2>. QED
    BY <2>1, <2>3, <2>5, <2>6 DEF DescriptorInv, ChildHoldsNoServerDescriptor
<1>3. CASE DropInChildFails
  BY <1>0, <1>3 DEF DropInChildFails, DescriptorInv
<1>. QED
  BY <1>1, <1>2, <1>3 DEF DropServer

(* The invariant that makes the property inductive holds in every state.   *)
THEOREM DescriptorsAccountedFor == Spec => []DescriptorInv
<1>1. TypeOK /\ DescriptorInv /\ [Next]_vars => DescriptorInv'
  <2>. SUFFICES ASSUME TypeOK, DescriptorInv, [Next]_vars PROVE DescriptorInv'
    OBVIOUS
  <2>1. CASE UNCHANGED vars
    BY <2>1 DEF vars, server, identity, DescriptorInv, ChildHoldsNoServerDescriptor
  <2>. QED
    BY <2>1, ConstructKeepsDescriptorInv, ServeKeepsDescriptorInv,
       BecomeSubspeciesKeepsDescriptorInv, DropServerKeepsDescriptorInv DEF Next
<1>. QED
  BY <1>1, TypeCorrect, InitDescriptorInv, PTL DEF Spec

(* An application gets control with none of the descriptors of any server  *)
(* among its ancestors, whatever was accepted, removed, reset or failed on *)
(* the way (Drop for Server and execute_actions).                          *)
THEOREM ServerDescriptorsClosed == Spec => []ChildHoldsNoServerDescriptor
<1>1. DescriptorInv => ChildHoldsNoServerDescriptor
  BY DEF DescriptorInv, ChildHoldsNoServerDescriptor
<1>. QED
  BY <1>1, DescriptorsAccountedFor, PTL

=============================================================================
