# A TLA+ model of the zygote server

The zygote is a process that preloads libraries once and then forks an
application, or a *subspecies* (another zygote), for every request it receives
on a local socket.  The modules in this directory model the parts of
`src/zygote` where a mistake is hard to see in a test: which descriptors a
forked child gets, what the event loop does when peers, children and signals
interleave, the data structure the descriptor bookkeeping rests on, who owns the
socket files, and how a child turns the server's credentials into those a client
asked for.

## 1. The system

| Component | Source | State | Operations |
|---|---|---|---|
| File descriptor registry | `zygote/src/file_descriptors.rs` | a vector of entries (descriptor, what it referred to, action, `executed` flag), sorted by descriptor | `register`, `remove`, `register_new`, `audit`, `execute_actions`, `override_and_close`, `reset_for_subspecies` |
| Server life cycle | `zygote/src/server.rs` | epoll handle, listening socket, signalfd, `client_sockets`, `pid`, socket path, registry, `IS_EXEC_SPAWNING` | `Server::new`, `preload`, `handle_spawn`, `handle_message_exec_spawn`, `re_initialize_as_subspecies`, `Drop` |
| Event loop and protocol | `zygote/src/server.rs`, `zygote-sys/src/lib.rs` | the batch of epoll events, the event being handled; in the kernel: backlog, sockets, pending signals, zombies | `serve`, `check_epoll_events`, the client, server and signalfd handlers, the message handlers |
| Socket path and process ownership | `zygote/src/server.rs`, `species/android_native.rs` | socket files, `Server::pid`, the `server_ready` property | `get_server_socket`, `Drop`, `on_server_ready`, `on_server_destroy` |
| Child re-initialisation | `zygote/src/child_process.rs`, `species/android_native.rs` | credentials, capabilities, limits, seccomp and SELinux state of a child | `re_initialize`, the species' `prologue` and `epilogue` |
| Effective id context | `zygote-sys/src/lib.rs` | effective uid and gid | `enter`, `exit` |
| Messages and spawn parameters | `zygote-messages/src/lib.rs` | none | marshalling, `SpawnParamsCommon::or` |
| Configuration | `zygote/src/config.rs`, `arguments.rs` | none | command line parsing, resolution of the socket argument |
| Species | `zygote/src/species*.rs` | allow lists | `speciate`, `gestate`, `sync_fd_state`, callbacks |
| System call wrappers | `zygote-sys/src` | none | one system call each, the non-blocking loops, `WaitRecord` |
| Macros, command line clients, logging, test application | `zygote-proc-macros`, `zygote/src/bin`, `zygote-core`, `memmark` | none | |

How they interact.  `Server::new` opens an epoll instance, a listening socket
and a signalfd, registers each with the action a forked child has to apply,
registers whatever else is open with a default action per kind, and audits the
registry against `/proc/self/fd`.  `serve` waits for epoll events.  A message on
a client socket may fork.  In an application child `serve` returns a thunk, the
`Server` is dropped, and `Drop` executes the registry (close, replace by
`/dev/null`, open again) before the thunk gives control to the application.  In
a subspecies child the continuation runs the species' preload function, executes
the registry with the other fork type, registers and audits what is open now,
makes a new listening socket and epoll instance, and returns to the same loop.
The parent goes on.  Children that exit raise SIGCHLD, which the loop reads
from the signalfd.

What is hard.

* *Descriptors over generations.*  The registry is inherited by a fork together
  with its `executed` flags; numbers are reused by the kernel; a subspecies
  executes the registry and goes on using it; each step may fail in the middle.
* *Stale events.*  A batch of epoll events names descriptors by number, and
  handling one event closes and opens descriptors.
* *Peers.*  They connect, send, stop reading and close between any two system
  calls of the server, and which call notices decides what happens.
* *Signals.*  SIGCHLD is not queued.
* *A vector as a map.*  Bisection and lock-step walks rely on an order that
  `register_new` breaks on its error path.
* *Privileges.*  A child changes ids, capabilities, groups, limits and filters
  one call at a time; each call needs privileges another one takes away, and any
  of them may fail.
* *Values on the wire.*  An absent value has no representation of its own; what
  stands for it differs per field and meets the server's defaults afterwards.
* *Ownership.*  Which process may remove the socket file or write the
  readiness property is decided by comparing pids.

What makes each correct is stated in section 4, next to the runs.

## 2. Modules

    FdRegistry            operators: descriptor table and registry
      ServerDescriptors     one server process from construction to its end
        MCServerDescriptors   instances for TLC
        ServerDescriptorsProofs
          ServingProofs         what a serving process holds
      RegistryMap           the registry as a map, as a state machine   (abstract)
    Subsequences          operators: the elements of a sequence at some positions
      SubsequencesProofs
      SortedRegistry        the registry as a vector (uses FdRegistry); refines RegistryMap
        SortedRegistryProofs
    ZygoteProtocol        requests, answers, bounds (uses Subsequences)
      ZygoteService         what the server promises its peers          (abstract)
      ZygoteServer          the event loop; refines ZygoteService
        MCZygoteServer        instances for TLC
        ZygoteServerProofs
    ProcessTree           socket files and ownership over many processes
      MCProcessTree         instances for TLC
      ProcessTreeProofs
    ZygoteMessages        operators: spawn parameters, wire, merge (uses Subsequences)
    Credentials           operators: a process's credentials, the calls on them
      Species               operators: the callbacks of the three species
    WaitStatus            operators: siginfo_t, wait status, WaitRecord
      ChildProcess          the life of a spawned child (uses the four above)
        MCChildProcess        an instance for TLC
        ChildProcessProofs
          SpawnProofs           what a request becomes, and what is reported

### FdRegistry

`tab` is the kernel's descriptor table, `reg` the registry as a map from number
to entry.  `FileDescriptorInfo` (path, device, inode, flags, address) is
abstracted to a *kind*: the actions, the default action and the comparison in
`audit` depend on nothing else that the model changes.  `own` says whether the
open file description was created by this process or inherited; inherited means
shared with the parent.  `Acts`, `AfterExecute`, `SweepPasses` and
`SweepFailsAt` are `FileDescriptorEntry::execute` and the loop around it, which
stops at its first error; `NewlyRegistered`, `Refused` are `register_new`;
`AuditPasses` is `audit`; `ShutdownTable` is `override_and_close`.  The offset
and flags `FileDescriptorInfo` also restores on a reopened file are left out.

### ServerDescriptors

The variables are the process's table, the registry, the fields of `Server`
and the point of control (`phase`).  A fork leaves the parent unchanged, so the
module follows one process and lets the behaviour continue as the child; this
reaches every process of the tree.  Actions by phase: `NewEpoll` to `Preload`
are `Server::new` and `preload`; `AcceptClient`, `RemoveClient`,
`ForkApplication`, `ExecSpawn`, `ForkSubspecies`, `StopServing` the loop;
`Speciate` to `NewEvents` the continuation of a subspecies child;
`ResetFails`, `ListenerFails`, `EventsFail` and `ChildFailed` its errors, which
`check_epoll_events` takes for errors of the client; `DropIn...` is `Drop`.
`ListenerFails` and `EventsFail` are failures before there is a new descriptor or
after: `bind`, `fcntl` or `listen` failing leaves the new socket open and
unregistered, `epoll_ctl` failing leaves the new epoll instance open and registered.
A peer socket on an allow list is folded into the kinds `Bound` and `Unlisted`,
whichever default action it has.

### ZygoteServer and ZygoteService

`ZygoteServer` has one action per turn of the serving thread's loops: one batch of
events, one message received, handled and answered, one connection accepted, one
signal read, one child collected, one client removed.  Peers and children act
between any two.  An action may thus stand for several system calls; `HandleSpawn`
is the `recvmsg`, the fork and the `sendmsg` of the answer, and the other handlers
are alike.  What happens in between is covered by what may happen before or
after: a peer that closes, or whose queue is full, when the answer is sent is the
alternative in which `CanSend` fails, and a child's exit is noticed when the
signalfd is read.  Peers connect, send, read answers and close; children exit; INT
and TERM arrive.  `epoll_set` pairs a number with the socket it was added for, as
the kernel does; `EpollData` (a tag and a number packed in 64 bits) is the record
`Event`, whose field `of` the server never looks at.  An AF_UNIX socket whose
peer closes with data unread reports an error (`Broken`), one whose peer closes
otherwise reports a hang-up; one whose peer only shuts down its sending side
(`HalfClosing`, `silent`) stays readable with nothing to read, and is reported in
every batch.  `ZygoteService` states the promise without epoll sets, numbers,
batches or signals.

### SortedRegistry and RegistryMap

`RegistryMap` drives the operators of `FdRegistry` by any legal or illegal
caller.  `SortedRegistry` has the vector: `binary_search_by`, which on an
unordered vector may return any index; insertion; the walk of `audit`; execution
from front to back; the panic at `REGISTRY_SIZE`.  `register_new` takes one step per
open descriptor: `walk` has the next descriptor of the iterator, the index into the
sorted part and `num_preexisting_entries`; `VisitRegistered` passes an entry,
`VisitNew` pushes one behind the sorted part, `VisitFull` panics, `VisitRefused`
returns before anything is sorted, and `WalkEnds` sorts.  Nothing else moves
meanwhile, as in the code, which holds `&mut self`.  `AsMap`, the map the vector
stands for, shows what has been pushed when `register_new` returns.

### ProcessTree

Each process has its own copy of the `Server`'s `pid` and `server_socket_path`;
`file` and `ready` are outside all of them.  `exists()` and `bind` in
`get_server_socket` are two steps (`CheckPath`, `Bind`), as are the change of
the path and the change of the pid in `re_initialize_as_subspecies` (`TakePath`,
`TakePid`) and the callback and the removal in `Drop` (`DropInServer`,
`RemoveFile`).  A process may fail at each step, or crash.  Process ids are
handed out once.  A root whose socket is passed by init, and a subspecies that
is given an abstract address or a number, have `NoPath`.  The write of the
property and the removal of the file are taken to succeed (the code logs their
failure and goes on).

### ChildProcess and the modules it uses

`ChildProcess` begins where init starts a server (`Starts`): `EnterContext` and
`LeaveContext` are `EffectiveIdContext` around the loading of the preload
libraries.  `Spawn` is `handle_spawn` up to the fork: the message is packed and
unpacked (`ToParcel`, `UnmarshalCommon`), merged with the server's own parameters
(`Merge`), and the child starts with the server's credentials.  `Prologue` to
`Epilogue` are `re_initialize`, one action per privileged call in the order of
`Steps`; a call the kernel refuses is an `expect()` and ends the child.  Then the
child is an application (`BecomeApplication`) or the next server
(`BecomeSubspecies`, `ServeAsSubspecies`), with the credentials it has left and
the same `spawn_params`.  `ReportEnd` is the collection of the child and, for
AndroidNative, the datagram to the system server.  A server with `exec` set is a
process started for one message (`IS_EXEC_SPAWNING`): it verifies less, and on as the child itself.  `died_of`  `died_of` remembers the message that ended a server:
`PanicInServer` is a panic of `try_from_parcel` (`ParcelPanics`: the table `common`
is missing, a list of groups or limits or the arguments of a LibApp payload do not
fit their vectors) or of the merge.  The code has the LibApp payload behind the
feature `libapp`; the model is the build that has it.
`SetNextRlimit` sets one limit at a time.

`Credentials` has for each system call what the kernel requires (`May...`) and
what it does.  The kernel is not part of the repository; its rules are those of
capabilities(7), setresuid(2), setreuid(2), prctl(2), seccomp(2), and the map marks
them external.  `Species` gives each callback as the condition under which it does
not panic and its effect on the credentials.  `ZygoteMessages` has the code the
macros of `zygote-proc-macros` generate, as operators on values: an `Option` is a
set of at most one element (so is `common`, which the schema does not require,
although the code expects it), and a parcel is a record in which `None` has become
-1, `i32::MAX`, an empty string, a full mask, or whatever the field's attribute says.
`WaitStatus` is `raw_status_from_siginfo` and the two constructors of `WaitRecord`.

## 3. Abstractions and bounds

* Unbounded counters: `MaxDepth` (nested subspecies), `MaxRequests` (requests
  sent in a behaviour), `Pids`, `Clients`, `MaxFd`.
* `MaxDepth` is 2 because a flag set by a first sweep takes effect in the second
  generation; a third repeats the second.  `MaxFd` 12 holds stdio, the
  descriptors of two generations and the reopened logger with numbers to spare.
* Three connections over a table of two give a refused connection and a reused
  number; two requests give one in flight behind another, on one connection or
  on two; two pids give two exits for one SIGCHLD and, with a third fork, an
  exhausted process table.  `ReplyQueue` 1 makes a send block after one unread
  answer.
* `SortedRegistry` uses six numbers and a vector of five, so that the vector can
  be full, and all orders of three insertions besides stdio.
* Four processes give a root and two subspecies racing for a path, and a restart
  or an application beside them; two paths, one of them the root's.
* `MaxRequests` also hides one thing: a peer that sends without end keeps
  `handle_client_events` in its loop.  Liveness below is about finitely many
  requests.
* `EpollData` packs a tag and a descriptor number; the record `Event` keeps both
  apart, the packing itself is not modelled.
* One child is followed at a time in `ChildProcess`: children share nothing while
  they re-initialise, and how several of them end is in `ZygoteServer`.
  `MaxSubspecies` 1 gives an application of a subspecies, which inherits the
  credentials of a process that re-initialised itself.
* The vectors of groups and limits hold two elements each, that of a LibApp
  payload's arguments one, so that a message, and
  a message together with the server's defaults, can be too long, and that a limit can
  be set twice; there are two resources, one of them a number the kernel does not
  know.  The messages are complete ones and every departure from them in one field, and some in two;
  the servers are privileged and unprivileged, of each species, with and without
  defaults and preload ids.
* In `ChildProcess` the platform may fail in the prologue and the epilogue
  (`AndroidFails`); a filter that cannot be installed is left out without a
  failure, since nobody looks at a result.  Process names and stack guards are
  left out.  A panic ends the process in one of the ways of `PanicEnds`.
* A subspecies child whose sweep failed before the inherited epoll instance was
  closed can return to the loop beside its parent.  Its own descriptors are
  followed in `ServerDescriptors` (run `descriptor_faults`); what two processes
  do on one epoll instance is not.

## 4. Runs

| Run | Question | Result |
|---|---|---|
| `descriptors` | With a logger, two generations of subspecies and failing set-up of the new server: what does a serving process hold? | `ServesOwnDescriptors` (exactly the descriptors its fields name, and all its own), `RegistryMatchesTable` (the debug assertion before a fork cannot fire), `ParentEpollUntouched` hold |
| `descriptor_faults` | The same under every refusal of the environment and with preloaded code that leaves descriptors open | `DescriptorInv`, the inductive invariant; `ChildHoldsNoServerDescriptor`; for the process that built the `Server` also `RootChildFilesAreUnique` and `RootShutdownClosesAll` |
| `server` | Does the loop keep its promise to peers and children, with a full table, failing forks, accepts and stats? | `ImplementsService`, `EventsAreFresh`, `TablesAgree`, `AnswersInOrder`, `NoChildForgotten` and the inductive invariant `ServerInv` hold |
| `server_liveness` | Is everything served in the end, also beside a peer that has shut down its sending side? | `RequestsTaken`, `BacklogServed`, `ChildrenCollected`, `ClosedAreDropped` hold under fairness of the server alone |
| `sorted_registry` | Does the vector implement the map, through refusals, failing sweeps and a full vector? | `ImplementsMap`, the inductive invariant `RegistryInv` (no descriptor has two entries; the part that is searched is in order) and `AuditDecides` hold |
| `process_tree` | Whose socket file is whose, with races, failures and crashes? | `FileIsOwners`, `RemovedByItsCreator`, `ShutdownLeavesNoFile` and the inductive invariant `TreeInv` hold |
| `child_process` | What does a child become, given what its client asked for, and can its client and the system server rely on it? | `SpawningInv`, the inductive invariant; `LibrariesLoadedAsAsked`, `ServesAsStarted` (preloading); `ParamsSurviveWire`, `ServerSurvives` (the message); `RunsAsAsked`, `NoExtraPrivilege`, `PrivilegesSuffice`, `Confined` (the child's credentials); `StatusTruthful` (its end); `ChildSettles` (liveness) hold |
| `reopen_once` | Does a child of a subspecies get its own copy of a reopened file? | violated, see 6 |
| `shutdown` | Does a subspecies that stops close everything it registered? | violated, see 6 |
| `register_new` | Does `register_new` leave no open descriptor unregistered? | violated, see 6 |
| `serves_until_asked` | Does `serve` run until SIGTERM or Exit? | violated, see 6 |
| `ready_while_serving` | Is the server reported ready while it serves? | violated, see 6 |

`CHECK_DEADLOCK FALSE` is used throughout: a process ends (`exited`, `gestate`,
`stopped`), and a server that waits for events when no peer acts any more is
where it should be.

Fairness.  `FairSpec` adds weak fairness of `ServeStep` and nothing else: the
server is one thread, runnable whenever a system call of it can return, and the
kernel schedules it.  Peers and children are never obliged to act.  Which event
of a batch comes first, and which connection of the backlog, is left open.
`ChildProcess` adds weak fairness of `ChildStep` (a runnable child runs; whether a
call succeeds, and whether somebody kills it, is not up to fairness) and of
`ReportEnd` (the server's loop, whose own liveness is `ChildrenCollected`).

## 5. Proofs

`ServerDescriptorsProofs` proves, for every `MaxFd >= 3`, every number of
clients and generations, every starting table and every set of faults allowed
by `RegistryAssumption` and `ServerAssumption`:

* `TypeCorrect`: `Spec => []TypeOK`.
* `DescriptorsAccountedFor`: `Spec => []DescriptorInv`.
* `ServerDescriptorsClosed`: `Spec => []ChildHoldsNoServerDescriptor`.

`ChildHoldsNoServerDescriptor` speaks of the moment an application gets control
and is not inductive.  `DescriptorInv` says why it holds: while the process may
still fork, every descriptor of a server kind has an entry that will close it
and has not been executed.  The exception makes it interesting: a subspecies
child that fails after its sweep holds new descriptors whose registration may
have failed.  It cannot fork again, because it has lost the inherited epoll
instance, so `remove_client_socket` fails in it and it leaves the loop without
a thunk.  `NoInheritedEpoll` in the phases `new_listener`, `new_events` and
`child_failed` carries that argument.  `ReopensNoServerKind` is needed because
`execute` opens a path again according to the entry, not to what the number
refers to.

The assumptions say that the process starts with stdio open and without an epoll
instance, signalfd or client of somebody else, and that preloaded code opens no
descriptor of a server kind.  The lemmas about the operators (`SweptAll`: a
sweep that passes leaves no closing entry open; `SweptAccounted`,
`NewlyRegisteredAccounted`, `OpenedRegisteredAll`: what each operation keeps)
are stated once; each step of `Next` cites them.

`ServingProofs` goes on from there:

* `ServingAsConstructed`: `Spec => []ServingInv`, and from it `OwnDescriptorsServed`:
  `Spec => []ServesOwnDescriptors` and `ParentsEpollKept`:
  `Spec => []ParentEpollUntouched`, under `SweepsComplete`.
* `AuditsPass`: `Spec => []RegistryMatchesTable`, under `SweepsComplete` and
  `LibraryOpens = {}`.
* `RootUntouched`: `Spec => []RootInv`, and from it `RootChildrensFiles`:
  `Spec => []RootChildFilesAreUnique` and `RootShutdown`:
  `Spec => RootShutdownClosesAll`, without a hypothesis.

`SweepsComplete` says that `/dev/null` and a registered path can be opened.  It is
needed: a subspecies whose sweep stops half way has part of its own descriptors
and part of its parent's, and may return to the loop with them (section 3); the
other refusals of the environment are allowed.  `LibraryOpens = {}` is needed for
the audit because `preload` registers nothing: a file that a library's initialiser leaves open
has no entry until a subspecies runs `register_new`.  TLC finds a counterexample to each of the three properties
when its hypothesis is dropped (`Faults <- AllFaults`, `LibraryOpens <-
PreloadAnything` in MCDescriptors.cfg).  `EntriesHold` connects the registry with the
table: every entry that counts as open describes an open descriptor of its kind, so
that the sweep of a fork never meets a closed one.  `ConstructsOwn` and
`ReInitializesOwn` say which of its descriptors a server has so far, step by step of
`Server::new` and of the continuation of a subspecies.  The root differs from its
descendants in that nothing has been executed in it (`Untouched`), which is why
the two findings about reopened files and about shutting down begin with the first
subspecies.

`SubsequencesProofs` has the lemmas about the elements of a sequence at some of
its positions, which is how the modules write `filter` and its relatives: the n-th
position kept is the one of rank n (`NthOfRank`, `RankOnto`), the order is that of
the positions, and what is kept grows by one when a position is added behind.  They
rest on the library's theorems about cardinality, and replace the induction over
data that a recursive `SelectSeq` would need.

`SortedRegistryProofs` proves, for every `RegistrySize >= 3` (stdio has entries from
the start), every size of the descriptor table and all callers:

* `TypeCorrect`: `Spec => []TypeOK`.
* `VectorInOrder`: `Spec => []RegistryInv`.
* `AuditIsRight`: `Spec => []AuditDecides`.
* `VectorImplementsMap`: `Spec => ImplementsMap`, the refinement of `RegistryMap`.

`RegistryInv` adds to `StrictlyOrdered` what holds within `register_new`
(`WalkInv`): the index is in step with the iterator, that is, the entries before it
are exactly those of descriptors below the next one; every open descriptor seen so
far has an entry; what has been pushed belongs to open descriptors behind the
iterator.  Without that, the walk could miss an entry and push a second one for
its descriptor.  `Sorted` puts an item at its rank; since no descriptor has two
entries the ranks are the positions, so that the sort is a permutation and puts the
vector in order.  The audit compares the two sequences `live` and `open` position by
position; as both are ascending they are equal exactly when the sets are.  In the
refinement the steps of `register_new` stutter until it returns, is refused or
panics; what it has pushed by then is what the map registers at once
(`NewlyRegistered`, `Refused`).  The sweep over positions is the map's sweep over
numbers because the entries before the position where it stops are those below the
number there.  After a refusal the vector may be out of order; the only sweep that
can still follow is the one of an application's `Drop`, and of one that fails
`RegistryMap` then says nothing but that it is the last use of the registry.

`ProcessTreeProofs` proves, for any set of processes and paths
(`TreeAssumption` only separates ids and paths from "none"):

* `TypeCorrect`: `Spec => []TypeOK`.
* `FilesAccountedFor`: `Spec => []TreeInv`.
* `ServersKeepTheirFiles`: `Spec => []FileIsOwners`;
  `ShutdownCleansUp`: `Spec => []ShutdownLeavesNoFile`;
  `FilesRemovedByCreators`: `Spec => RemovedByItsCreator`.

The three properties speak of the moments when a server serves, has gone or
removes a file.  `TreeInv` connects them: it says for every step of a process
which path its file has (`Holds`), and that every file is either held by its
creator or abandoned by it (`Abandoned`: a crash, or a subspecies that leaves
with its parent's pid).  `UnusedIsUnknown` is what makes the comparison of pids
in `Drop` sound: nobody's copy names a process that does not exist yet.

`ZygoteServerProofs` proves, for every finite set of connections, every size of
the table, any pids, requests, half-closing peers, faults and bounds
(`ProtocolAssumption`, `ServerAssumption`):

* `TypeCorrect`: `Spec => []TypeOK`.
* `NoneForgotten`: `Spec => []NoChildForgotten`, which is inductive as it stands.
* `LoopInvariant`: `Spec => []ServerInv`, and from it `EventsStayFresh`:
  `Spec => []EventsAreFresh` and `TablesStayConsistent`: `Spec => []TablesAgree`.
* `Implementation`: `Spec => ImplementsService`, the refinement of `ZygoteService`.
* `AnswersStayInOrder`: `Spec => []AnswersInOrder`.

`EventsAreFresh` is not inductive.  Removing the client of one event must not
make a later event of the batch name another connection: that needs one event
per client (`OneEventPerClient`) and no two clients with one number
(`TablesAgree`), and `TablesAgree` in turn needs the event to be fresh, or
`remove_client_socket` would remove somebody else.  A new connection cannot be
given a number of the batch, because those are all in use.  `HangUpsAreTrue` is
for the refinement: the server drops a connection on the strength of an event
that is older than the last reads, and the service allows it only if the peer has
closed.  The lemma `UndisturbedStep` covers all steps that leave the tables
alone; `RemoveStep`, `AcceptStep`, `WaitStep` and `NextEventStep` are the others.
In the refinement `stopped` is `pc = "stopped"` and the rest maps to itself; that
a connection is accepted exactly while fewer than `MaxClients` are open follows
from a bijection between the open connections and the table (`TableCountsOpen`).

`AnswersInOrder` is about the service as much as about the server, and is proved
there: every step of the loop is one of `ZygoteService` or changes nothing a peer
sees (`NextRefines`), and each of those steps keeps `AnswersInv`.  That adds that
nothing is taken which has not been sent, and that an answer to a forking request
names a process that exists; a fork picks one that does not, so no two answers
name the same child.

`ChildProcessProofs` proves, for any servers init may start, any messages, any
capabilities and any number of nested subspecies:

* `SpawningInvariant`: `Spec => []ChildInv`, and from it `SubspeciesConfined`:
  `Spec => []Confined`.

`ChildAssumption` says which fields the records have, that a parameter is given at
most once, and that init starts the AndroidNative server as root with `SYS_ADMIN`
(zygote_next.rc).  `Confined` speaks of a child that has come to life, several
calls after the ones that make it true, so `ChildInv` follows the order of
`re_initialize`: the sets `AfterBound`, `AfterSeccomp`, `AfterUid` and
`AfterOverwrite` name the steps that a child still has ahead of it, and
`CapsBounded` and `ChildConfined` say what it has behind it.  A filter whose
installation fails is only noticed by its absence (section 3), so `Confined` needs
a reason why it cannot fail: until the user id changes a child has all the
effective capabilities of its server (`ChildConfined`), the server that init started
has `SYS_ADMIN` again once its libraries are loaded and a subspecies has
`NO_NEW_PRIVS` (`ServerConfines`), and `set_seccomp_filters` sets `NO_NEW_PRIVS`
on the way to a new subspecies, without which `speciate`, called after the
capabilities are gone, would install nothing.

`SpawnProofs` goes on, for the same constants, with

* `SpawningKeepsPromises`: `Spec => []SpawningInv`, and from it `TypesKept`:
  `Spec => []TypeOK`, `ChildrenGainNothing`: `Spec => []NoExtraPrivilege`,
  `AskedIsDone`: `Spec => []RunsAsAsked`, `PrivilegesLast`:
  `Spec => []PrivilegesSuffice` and `SystemServerToldTheTruth`:
  `Spec => []StatusTruthful`.
* `LibrariesSeeConfiguredIds`: `Spec => []LibrariesLoadedAsAsked`, and
  `OwnIdsRestored`: `Spec => []ServesAsStarted` under `PreloadsAsUser`.
* `ParametersArrive`: `Spec => []ParamsSurviveWire` and `ServersSurvive`:
  `Spec => []ServerSurvives`.

`SpawningInv` is `ChildInv` and `PromisesKept`.  Of the latter, `DoneAsAsked` says
what each call leaves behind that no later one undoes (`keep_caps` and the addition to
the inheritable set among it, up to `overwrite_caps`), and `PrivilegesKept` that
what a later call needs is still there: the effective and permitted capabilities
until the user id changes, the bounding set until it is dropped, `keep_caps` and the
permitted set up to `overwrite_caps`.  `PrivilegesSuffice` is part of the invariant: a child whose
request is within its server's credentials has not died of one of its own calls,
and each step shows that the next call is allowed.  `EndTruthful` follows a child's
end from the kernel's wait status through `siginfo_t` to the datagram.

`ServesAsStarted` needs `ContextKeeps`, the ids and capabilities between `enter` and
`exit` of `EffectiveIdContext`.  `PreloadsAsUser` excludes a server that is started as
another user and told to preload as root; if it has the capability to do so, the
return from root clears its effective set.  `ParamsSurviveWire` and `ServerSurvives`
speak of one message, so the work is in the operators: the marks for absent values,
and the merge of vectors, which leaves repetitions out of the groups and panics when
one does not fit (`SubsequencesProofs`).  `ServerSurvives` lists every way in which
a spawn message can end the server before the fork; two of them are in one
message alone (no `common`, too many arguments), the lists can also be too long
together with the server's own.

The assumptions these proofs add are types: `StartAssumption` (what init starts, by
which no set-user-id program is executed), `MessagesAssumption` (the fields of
`SpawnParamsCommon`) and `EndAssumption` (an exit code has eight bits, signal 127
does not exist, and neither a panic nor a kill is exit code 0).

Only model-checked: the liveness properties `RequestsTaken`, `BacklogServed`,
`ChildrenCollected`, `ClosedAreDropped` and `ChildSettles`, which are out of the
prover's reach, and the five disagreements of section 6, which are counterexamples.
Every safety property of a run is a theorem, those of `ServerDescriptors` and
`ServesAsStarted` under the hypotheses named above.  What TLC adds to the theorems is
that the instances reach the interesting states, and that the
definitions say what they should.

## 6. Where the code and its documentation disagree

* `execute` (file_descriptors.rs:518) skips entries with `executed` set.  The
  flag is inherited by a fork, so the applications of a subspecies share
  reopened files with it, against the doc of `Action::Reopen` (369).
* `override_and_close` (949) closes entries a subspecies' reset has closed
  already, gets EBADF and returns; the descriptors behind stay open, against
  its doc (942).  The process exits next, so the effect is limited to what runs
  in between.
* `is_registered` (929) compares numbers only, so a closed entry hides a new
  descriptor that got its number (a file the preload function left open, or the
  `/dev/null` of the sweep); `register_new` does not register it, against
  its doc (999), and the audit fails: the subspecies does not come up.
* An EPOLLERR on a client's socket ends `serve` (server.rs:582), against its doc
  (1193).  A peer that closes with an answer unread is enough.
* `on_server_destroy` (server.rs:1230) runs in a subspecies that shuts down, too,
  and AndroidNative's writes `server_ready=false` while the root serves, against
  the doc of the callback (species.rs:118).

Seen while modelling, without a run of their own:

* `SpawnParamsCommon::or` takes (zygote-messages/src/lib.rs:254) "optional
  arguments from `other` if the are missing from `self`".  A client cannot leave
  out `process_name`, `se_info`, `selinux_flags` and `no_new_privs`: absent, they
  arrive as `Some("")`, `Some(0)` and `Some(false)`, and the server's defaults for
  them are never used.  `ParamsSurviveWire` says which fields survive.
* `re_initialize` adds the permitted capabilities to the inheritable ones
  "Temporarily" (child_process.rs:81); they are taken away again only if the
  parameters have `cap_inheritable`, and SECBIT_KEEP_CAPS, set for the same purpose,
  never is.  `NoExtraPrivilege` says exactly how much of both a child keeps.
* `try_from_parcel` returns a `Result`, but panics when a spawn message has no
  `common` table, which messages.fbs does not require
  (zygote-proc-macros/src/unmarshal.rs:315), or when a list does not fit its vector
  (zygote-messages/src/lib.rs:149-173), in the server and before the fork.
* With both `--preload-uid` and `--preload-gid`, a server started by root does
  not start: setreuid has cleared the effective capabilities when setregid is called
  (zygote-sys/src/lib.rs:861).
* An exec-spawned process given a message for a subspecies runs it as an
  application, which panics in `gestate`.

## 7. Not modelled

* Parsing of the command line and of the macros' attributes, FlatBuffers'
  verification of a buffer, logging and tracing set-up (`zygote-core`, the
  statistics wrapper), the test application `memmark`: no state of their own.
* What the application does after it got control, and the loading of libraries.
* `zygote_launch`, which gestates without a server.
* Two processes on one epoll instance (section 3), and what a subspecies whose
  re-initialisation fails half way does to descriptors beyond `ServerDescriptors`.
* The dynamic allow lists of the registry (file_descriptors.rs:810-829), which only
  tests call.
* Wrappers of single system calls that make no choice; the kernel itself beyond
  what the code's calls can observe.

Worth adding next: what a serving process holds after a sweep that failed half way
(`ServingProofs` without `SweepsComplete`), the loop of two processes on one epoll
instance, and the parsing of the configuration.
