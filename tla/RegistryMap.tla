----------------------------- MODULE RegistryMap -----------------------------
(***************************************************************************)
(* What a FileDescriptorRegistry promises its callers: a map from the      *)
(* descriptor numbers to entries, by the operators of FdRegistry.  The     *)
(* code keeps a sorted vector instead (module SortedRegistry).             *)
(*                                                                         *)
(* The one blemish of the vector that shows is behind a register_new that  *)
(* returned an error: the registry is then fit to be executed and thrown   *)
(* away, and remove may miss an entry.                                     *)
(***************************************************************************)
EXTENDS FdRegistry, FiniteSets

CONSTANTS RegistrySize, OpenKinds, CallerActions   (* as in SortedRegistry   *)

VARIABLES
  tab,   (* the process's descriptor table                                 *)
  reg,   (* the map                                                        *)
  state  (* live; refused: register_new failed; done: of no more use       *)

map == <<tab, reg, state>>

Init ==
  /\ tab = [f \in Fd |-> IF f \in Stdio THEN [kind |-> "Stdio", own |-> TRUE] ELSE Free]
  /\ reg = [f \in Fd |-> IF f \in Stdio THEN NewEntry(tab, f, "Ignore") ELSE NoEntry]
  /\ state = "live"

Entries == {f \in Fd : HasEntry(reg, f)}

(* The process opens and closes descriptors.                               *)
Open(f, kind) ==
  /\ state # "done" /\ IsLowestFree(tab, f)
  /\ tab' = Opened(tab, f, kind)
  /\ UNCHANGED <<reg, state>>

Close(f) ==
  /\ state # "done" /\ IsOpen(tab, f) /\ f \notin Stdio
  /\ tab' = ClosedFd(tab, f)
  /\ UNCHANGED <<reg, state>>

(* The program panics if there is no room for another entry.               *)
Register(f, action) ==
  /\ state = "live" /\ IsOpen(tab, f)
  /\ CanRegister(reg, tab, f, action)
  /\ IF HasEntry(reg, f) \/ Cardinality(Entries) < RegistrySize
     THEN reg' = Registered(reg, tab, f, action) /\ UNCHANGED state
     ELSE state' = "done" /\ UNCHANGED reg
  /\ UNCHANGED tab

Remove(f) ==
  /\ state # "done" /\ HasEntry(reg, f)
  /\ reg' = Removed(reg, f)
  /\ UNCHANGED <<tab, state>>

RegisterNew ==
  /\ state = "live"
  /\ LET new == NewlyRegistered(reg, tab)
     IN IF Cardinality({f \in Fd : HasEntry(new, f)}) > RegistrySize
        THEN state' = "done" /\ UNCHANGED reg
        ELSE /\ reg' = new
             /\ state' = IF Refused(reg, tab) = {} THEN "live" ELSE "refused"
  /\ UNCHANGED tab

(* The sweep for an application is the last use of a registry.             *)
After(forkType) == IF forkType = "Application" THEN "done" ELSE "live"

MayExecute(forkType) ==
  /\ state = "live" \/ (state = "refused" /\ forkType = "Application")
  /\ HasFree(tab)

Execute(forkType) ==
  /\ MayExecute(forkType)
  /\ SweepPasses(WithDevNull(tab), reg, forkType, MaxFd + 1)
  /\ tab' = SyncFdState(SweptTable(WithDevNull(tab), reg, forkType, MaxFd + 1))
  /\ reg' = SweptRegistry(reg, forkType, MaxFd + 1)
  /\ state' = After(forkType)

ExecuteFails(forkType) ==
  /\ MayExecute(forkType)
  /\ IF state = "live"
     THEN \E f \in Fd :
            /\ SweepFailsAt(WithDevNull(tab), reg, forkType, f)
            /\ tab' = SweptTable(WithDevNull(tab), reg, forkType, f)
            /\ reg' = SweptRegistry(reg, forkType, f)
     ELSE tab' \in Table /\ reg' \in Registry
  /\ state' = After(forkType)

OverrideAndClose ==
  /\ state = "live"
  /\ tab' = ShutdownTable(reg, tab)
  /\ state' = "done"
  /\ UNCHANGED reg

Next ==
  \/ \E f \in Fd :
       \/ \E kind \in OpenKinds : Open(f, kind)
       \/ Close(f)
       \/ f \notin Stdio /\ Remove(f)
       \/ \E action \in CallerActions : Register(f, action)
  \/ RegisterNew \/ OverrideAndClose
  \/ \E forkType \in ForkType : Execute(forkType) \/ ExecuteFails(forkType)

Spec == Init /\ [][Next]_map

=============================================================================
