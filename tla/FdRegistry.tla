------------------------------ MODULE FdRegistry ------------------------------
(***************************************************************************)
(* The file descriptor registry of src/zygote/src/file_descriptors.rs, as  *)
(* pure operators on two functions over the descriptor numbers:            *)
(*                                                                         *)
(*   tab  the kernel's descriptor table of the process (which numbers are  *)
(*        open and what open file description each one refers to);         *)
(*   reg  FileDescriptorRegistry::data.  The code keeps a vector sorted by *)
(*        descriptor; here it is the map that vector represents (module    *)
(*        SortedRegistry shows that the vector implements the map).        *)
(*                                                                         *)
(* A description records its kind, which stands for all that               *)
(* FileDescriptorInfo compares (address, path, inode, flags, offset), and  *)
(* whether this process opened it itself ("own") or inherited it from the  *)
(* process that forked it, in which case both share one kernel structure.  *)
(***************************************************************************)
EXTENDS Integers

CONSTANTS
  MaxFd,      (* the largest descriptor number of the instance             *)
  HasLogger,  (* the species keeps a logger descriptor (AndroidNative)     *)
  Faults      (* what the environment may refuse: opening /dev/null        *)
              (* ("devnull"), a path again ("reopen"), a new listening     *)
              (* socket ("socket") or epoll instance ("epoll")             *)

ASSUME RegistryAssumption ==
  /\ MaxFd \in Nat /\ MaxFd >= 3
  /\ HasLogger \in BOOLEAN
  /\ Faults \subseteq {"devnull", "reopen", "socket", "epoll"}

Fd == 0 .. MaxFd
Stdio == 0 .. 2

(***************************************************************************)
(* Kinds of descriptors.  The server's own: an epoll instance, a listening *)
(* socket, a client connection, the signalfd.  The rest: stdio, the        *)
(* logger's socket, a bound socket on an allow list, an allowed file,      *)
(* /dev/null, and anything that is on no allow list.                       *)
(***************************************************************************)
ServerKind == {"Epoll", "Listen", "Client", "Signal"}
Kind == ServerKind \cup
        {"Stdio", "Log", "Bound", "File", "DevNull", "Unlisted"}

Description == [kind : Kind, own : BOOLEAN]
Free == [kind |-> "Free", own |-> FALSE]
Table == [Fd -> Description \cup {Free}]

Action == {"Close", "CloseUnlessSpawnSubspecies", "DupeNull", "Ignore", "Reopen"}
Entry == [kind : Kind, action : Action, executed : BOOLEAN]
NoEntry == [kind |-> "None", action |-> "None", executed |-> FALSE]
Registry == [Fd -> Entry \cup {NoEntry}]

ForkType == {"Application", "Subspecies"}

-----------------------------------------------------------------------------
(* The kernel side: what open, close, dup3 and fork do to the table.       *)

IsOpen(tab, f) == tab[f] # Free

(* A new descriptor gets the lowest free number.                           *)
IsLowestFree(tab, f) ==
  /\ ~ IsOpen(tab, f)
  /\ \A g \in Fd : g < f => IsOpen(tab, g)

HasFree(tab) == \E f \in Fd : IsLowestFree(tab, f)

LowestFree(tab) == CHOOSE f \in Fd : IsLowestFree(tab, f)

Opened(tab, f, kind) == [tab EXCEPT ![f] = [kind |-> kind, own |-> TRUE]]

ClosedFd(tab, f) == [tab EXCEPT ![f] = Free]

(* The child of a fork shares every description with its parent.           *)
Forked(tab) ==
  [f \in Fd |-> IF IsOpen(tab, f) THEN [tab[f] EXCEPT !.own = FALSE] ELSE Free]

-----------------------------------------------------------------------------
(* Entries.                                                                *)

HasEntry(reg, f) == reg[f] # NoEntry

NewEntry(tab, f, action) ==
  [kind |-> tab[f].kind, action |-> action, executed |-> FALSE]

(* FileDescriptorEntry::closed: only the closing actions count.            *)
Closed(entry) ==
  /\ entry.action \in {"Close", "CloseUnlessSpawnSubspecies"}
  /\ entry.executed

Live(reg) == {f \in Fd : HasEntry(reg, f) /\ ~ Closed(reg[f])}

-----------------------------------------------------------------------------
(* register and remove.                                                    *)

FileKind == {"Stdio", "File", "DevNull"}

(* A number may be registered again once its entry has been closed; the    *)
(* Reopen check applies to numbers that have no entry only.                *)
CanRegister(reg, tab, f, action) ==
  IF HasEntry(reg, f)
  THEN Closed(reg[f])
  ELSE action = "Reopen" => tab[f].kind \in FileKind

(* Faulty Registered: an entry that is taken over stays executed.          *)
RegisteredExecuted(reg, tab, f, action) ==
  [reg EXCEPT ![f] = [kind |-> tab[f].kind, action |-> action,
                      executed |-> reg[f].executed]]

Registered(reg, tab, f, action) ==
  [reg EXCEPT ![f] = NewEntry(tab, f, action)]

(* Faulty Removed: blanks the entry in place.                              *)
RemovedInPlace(reg, f) == [reg EXCEPT ![f].action = "None"]

Removed(reg, f) == [reg EXCEPT ![f] = NoEntry]

-----------------------------------------------------------------------------
(* execute_actions: open /dev/null, execute every entry in order, let the  *)
(* species synchronise its own descriptors.                                *)

(* Faulty Acts: a closing action taken for applications only, and Reopen   *)
(* forgotten.                                                              *)
ActsForApplications(entry, forkType) ==
  /\ ~ entry.executed
  /\ \/ entry.action \in {"DupeNull", "Reopen"}
     \/ /\ entry.action \in {"Close", "CloseUnlessSpawnSubspecies"}
        /\ forkType = "Application"

ActsWithoutReopen(entry, forkType) ==
  /\ ~ entry.executed
  /\ \/ entry.action \in {"Close", "DupeNull"}
     \/ entry.action = "CloseUnlessSpawnSubspecies" /\ forkType = "Application"

(* The entries FileDescriptorEntry::execute does something for.            *)
Acts(entry, forkType) ==
  /\ ~ entry.executed
  /\ \/ entry.action \in {"Close", "DupeNull", "Reopen"}
     \/ entry.action = "CloseUnlessSpawnSubspecies" /\ forkType = "Application"

(* The entries executed when the loop stops before `stop`.                 *)
Swept(reg, forkType, stop) ==
  {f \in Fd : f < stop /\ HasEntry(reg, f) /\ Acts(reg[f], forkType)}

(* Reopen opens the recorded path again and dup3 replaces the descriptor;  *)
(* DupeNull makes it a second descriptor of this process's /dev/null.      *)
AfterExecute(entry) ==
  CASE entry.action \in {"Close", "CloseUnlessSpawnSubspecies"} -> Free
    [] entry.action = "DupeNull" -> [kind |-> "DevNull", own |-> TRUE]
    [] OTHER -> [kind |-> entry.kind, own |-> TRUE]

SweptTable(tab, reg, forkType, stop) ==
  [f \in Fd |-> IF f \in Swept(reg, forkType, stop)
                THEN AfterExecute(reg[f]) ELSE tab[f]]

SweptRegistry(reg, forkType, stop) ==
  [f \in Fd |-> IF f \in Swept(reg, forkType, stop)
                THEN [reg[f] EXCEPT !.executed = TRUE] ELSE reg[f]]

(* close(2) reports EBADF for a number that is not open; opening a path    *)
(* again may fail for reasons outside the process.                         *)
MustFail(tab, reg, f) ==
  /\ reg[f].action \in {"Close", "CloseUnlessSpawnSubspecies"}
  /\ ~ IsOpen(tab, f)

MayFail(tab, reg, f) ==
  MustFail(tab, reg, f) \/ ("reopen" \in Faults /\ reg[f].action = "Reopen")

(* The loop runs to its end: no entry it reaches is bound to fail.         *)
SweepPasses(tab, reg, forkType, stop) ==
  \A f \in Swept(reg, forkType, stop) : ~ MustFail(tab, reg, f)

(* The loop returns the error of the entry at f.                           *)
SweepFailsAt(tab, reg, forkType, f) ==
  /\ f \in Swept(reg, forkType, MaxFd + 1)
  /\ MayFail(tab, reg, f)
  /\ SweepPasses(tab, reg, forkType, f)

(* /dev/null is opened for the sweep and not closed after it.              *)
WithDevNull(tab) == Opened(tab, LowestFree(tab), "DevNull")

(* Species::sync_fd_state; on Android, __android_log_close.                *)
SyncFdState(tab) ==
  [f \in Fd |-> IF HasLogger /\ tab[f].kind = "Log" THEN Free ELSE tab[f]]

(* Writing to the log opens the logger's descriptor if it is closed.       *)
Logged(tab) ==
  IF HasLogger /\ HasFree(tab) /\ \A f \in Fd : tab[f].kind # "Log"
  THEN Opened(tab, LowestFree(tab), "Log")
  ELSE tab

-----------------------------------------------------------------------------
(* register_new: an entry for every open number that has none.             *)

(* Faulty DefaultAction: what is on no list is ignored.                    *)
DefaultIgnores(kind) ==
  CASE kind = "Bound" -> "DupeNull"
    [] kind \in {"Stdio", "File", "DevNull"} -> "Reopen"
    [] OTHER -> "Ignore"

(* The default action of each kind; "None" stands for the error returns.   *)
DefaultAction(kind) ==
  CASE kind = "Bound" -> "DupeNull"
    [] kind = "Log" -> "Ignore"
    [] kind \in {"Stdio", "File", "DevNull"} -> "Reopen"
    [] OTHER -> "None"

(* is_registered compares numbers only: a closed entry counts.             *)
IsRegistered(reg, f) == HasEntry(reg, f)

Unregistered(reg, tab) == {f \in Fd : IsOpen(tab, f) /\ ~ IsRegistered(reg, f)}

Refused(reg, tab) ==
  {f \in Unregistered(reg, tab) : DefaultAction(tab[f].kind) = "None"}

(* The loop pushes as it goes, so the entries before the first refused     *)
(* descriptor stay in the registry when it returns an error.               *)
NewlyRegistered(reg, tab) ==
  [f \in Fd |-> IF /\ f \in Unregistered(reg, tab)
                   /\ \A g \in Refused(reg, tab) : f < g
                THEN NewEntry(tab, f, DefaultAction(tab[f].kind))
                ELSE reg[f]]

-----------------------------------------------------------------------------
(* audit: the entries that are not closed, in order, against the open      *)
(* descriptors, in order.                                                  *)

AuditPasses(reg, tab) ==
  /\ Live(reg) = {f \in Fd : IsOpen(tab, f)}
  /\ \A f \in Live(reg) : reg[f].kind = tab[f].kind

-----------------------------------------------------------------------------
(* override_and_close: close every entry but the ignored ones, executed or *)
(* not, and stop at the first close that fails.                            *)

Overridden(reg) == {f \in Fd : HasEntry(reg, f) /\ reg[f].action # "Ignore"}

OverrideFails(reg, tab) == \E f \in Overridden(reg) : ~ IsOpen(tab, f)

OverriddenTable(reg, tab) ==
  [f \in Fd |->
     IF /\ f \in Overridden(reg)
        /\ \A g \in Overridden(reg) : g <= f => IsOpen(tab, g)
     THEN Free ELSE tab[f]]

ShutdownTable(reg, tab) ==
  IF OverrideFails(reg, tab)
  THEN OverriddenTable(reg, tab)
  ELSE SyncFdState(OverriddenTable(reg, tab))

=============================================================================
