---------------------------- MODULE SortedRegistry ----------------------------
(***************************************************************************)
(* FileDescriptorRegistry::data as src/zygote/src/file_descriptors.rs      *)
(* keeps it: a vector ordered by descriptor, searched by bisection in      *)
(* register and remove, walked in step with the open descriptors in        *)
(* register_new (one descriptor at a time) and audit, executed from front  *)
(* to back.                                                                *)
(***************************************************************************)
EXTENDS FdRegistry, Subsequences

Seqs == INSTANCE SequencesExt

CONSTANTS
  RegistrySize,  (* REGISTRY_SIZE                                          *)
  OpenKinds,     (* kinds of descriptors that get opened in the instance   *)
  CallerActions  (* actions that callers of register ask for               *)

ASSUME RegistrySizeAssumption ==
  /\ RegistrySize \in Nat /\ RegistrySize >= 3
  /\ OpenKinds \subseteq Kind
  /\ CallerActions \subseteq Action

VARIABLES
  tab, state,   (* as in RegistryMap                                       *)
  data,         (* the vector                                              *)
  walk          (* where register_new is                                   *)

vars == <<tab, data, state, walk>>

Item == [fd : Fd, entry : Entry]

(* The descriptors below `next` have been seen, the entries before `index` *)
(* passed; `end` is num_preexisting_entries.                               *)
NoWalk == [next |-> 0, index |-> 0, end |-> 0]
walking == walk # NoWalk

Init ==
  /\ tab = [f \in Fd |-> IF f \in Stdio THEN [kind |-> "Stdio", own |-> TRUE] ELSE Free]
  /\ data = [i \in 1 .. 3 |-> [fd |-> i - 1, entry |-> NewEntry(tab, i - 1, "Ignore")]]
  /\ state = "live"
  /\ walk = NoWalk

(* The map a vector stands for.  What register_new has pushed shows when   *)
(* it returns.                                                             *)
MapOf(items) ==
  [f \in Fd |-> LET at == {i \in DOMAIN items : items[i].fd = f}
                IN IF at = {} THEN NoEntry ELSE items[CHOOSE i \in at : TRUE].entry]

Shown == IF walking THEN walk.end ELSE Len(data)

AsMap == MapOf(SubSeq(data, 1, Shown))

Map == INSTANCE RegistryMap WITH reg <- AsMap

-----------------------------------------------------------------------------
(* The process opens and closes descriptors.                               *)
Open(f, kind) ==
  /\ state # "done" /\ IsLowestFree(tab, f)
  /\ tab' = Opened(tab, f, kind)
  /\ UNCHANGED <<data, state, walk>>

Close(f) ==
  /\ state # "done" /\ IsOpen(tab, f) /\ f \notin Stdio
  /\ tab' = ClosedFd(tab, f)
  /\ UNCHANGED <<data, state, walk>>

-----------------------------------------------------------------------------
(* register and remove.                                                    *)

(* What binary_search_by may return: Ok of an index that compared equal,   *)
(* or Err of an index to insert at.  On a vector that is out of order the  *)
(* result is unspecified.                                                  *)
FoundAt(f) == {i \in DOMAIN data : data[i].fd = f}

Ordered == \A i, j \in DOMAIN data : i < j => data[i].fd < data[j].fd

(* Faulty MissingAt: a new entry goes to the end.                          *)
MissingAtEnd(f) == IF FoundAt(f) = {} THEN {Len(data) + 1} ELSE {}

MissingAt(f) ==
  {i \in 1 .. Len(data) + 1 :
     Ordered => \A j \in DOMAIN data : IF j < i THEN data[j].fd < f ELSE data[j].fd > f}

Register(f, action) ==
  /\ state = "live" /\ IsOpen(tab, f)
  /\ LET item == [fd |-> f, entry |-> NewEntry(tab, f, action)]
     IN \/ \E i \in FoundAt(f) :
             /\ Closed(data[i].entry)
             /\ data' = [data EXCEPT ![i] = item]
             /\ UNCHANGED state
        \/ \E i \in MissingAt(f) :
             /\ action = "Reopen" => tab[f].kind \in FileKind
             /\ IF Len(data) < RegistrySize
                THEN data' = Seqs!InsertAt(data, i, item) /\ UNCHANGED state
                ELSE state' = "done" /\ UNCHANGED data
  /\ UNCHANGED <<tab, walk>>

(* An entry that is not found is an error and changes nothing.             *)
Remove(f) ==
  /\ state # "done"
  /\ \E i \in FoundAt(f) :
       data' = Seqs!RemoveAt(data, i)
  /\ UNCHANGED <<tab, state, walk>>

-----------------------------------------------------------------------------
(* register_new.                                                           *)

RegisterNew ==
  /\ state = "live"
  /\ walk' = [next |-> 0, index |-> 1, end |-> Len(data)]
  /\ UNCHANGED <<tab, data, state>>

(* ProcFdIterator: the open descriptors in ascending order.                *)
IsNext(f) ==
  /\ IsOpen(tab, f) /\ f >= walk.next
  /\ \A g \in Fd : IsOpen(tab, g) /\ g >= walk.next => f <= g

(* Faulty SkippedTo: also moves past the entry of f.                       *)
SkippedPast(f, i) ==
  /\ i \in walk.index .. walk.end + 1
  /\ \A j \in walk.index .. i - 1 : data[j].fd <= f
  /\ i <= walk.end => data[i].fd > f

(* is_registered moves the index past the entries below f; only those that *)
(* were there before the loop are looked at.                               *)
SkippedTo(f, i) ==
  /\ i \in walk.index .. walk.end + 1
  /\ \A j \in walk.index .. i - 1 : data[j].fd < f
  /\ i <= walk.end => data[i].fd >= f

IsAt(f, i) == i <= walk.end /\ data[i].fd = f

VisitRegistered(f) ==
  /\ IsNext(f)
  /\ \E i \in DOMAIN data :
       /\ SkippedTo(f, i) /\ IsAt(f, i)
       /\ walk' = [walk EXCEPT !.next = f + 1, !.index = i + 1]
  /\ UNCHANGED <<tab, data, state>>

NewItem(f) == [fd |-> f, entry |-> NewEntry(tab, f, DefaultAction(tab[f].kind))]

(* Faulty VisitNew: registers what is on no list.                          *)
VisitUnchecked(f) ==
  /\ IsNext(f) /\ Len(data) < RegistrySize
  /\ \E i \in 1 .. Len(data) + 1 :
       /\ SkippedTo(f, i) /\ ~ IsAt(f, i)
       /\ walk' = [walk EXCEPT !.next = f + 1, !.index = i]
  /\ data' = Append(data, NewItem(f))
  /\ UNCHANGED <<tab, state>>

VisitNew(f) ==
  /\ IsNext(f) /\ Len(data) < RegistrySize
  /\ DefaultAction(tab[f].kind) # "None"
  /\ \E i \in 1 .. Len(data) + 1 :
       /\ SkippedTo(f, i) /\ ~ IsAt(f, i)
       /\ walk' = [walk EXCEPT !.next = f + 1, !.index = i]
  /\ data' = Append(data, NewItem(f))
  /\ UNCHANGED <<tab, state>>

(* The vector is full: push panics.                                        *)
VisitFull(f) ==
  /\ IsNext(f) /\ Len(data) = RegistrySize
  /\ DefaultAction(tab[f].kind) # "None"
  /\ \E i \in 1 .. Len(data) + 1 : SkippedTo(f, i) /\ ~ IsAt(f, i)
  /\ state' = "done"
  /\ UNCHANGED <<tab, data, walk>>

(* A descriptor that is on no list: the entries pushed so far stay behind  *)
(* the others.                                                             *)
VisitRefused(f) ==
  /\ IsNext(f)
  /\ DefaultAction(tab[f].kind) = "None"
  /\ \E i \in 1 .. Len(data) + 1 : SkippedTo(f, i) /\ ~ IsAt(f, i)
  /\ state' = "refused"
  /\ walk' = NoWalk
  /\ UNCHANGED <<tab, data>>

(* sort_by_key is stable.                                                  *)
Place(i) ==
  Cardinality({j \in DOMAIN data : \/ data[j].fd < data[i].fd
                                   \/ data[j].fd = data[i].fd /\ j <= i})

Sorted == [n \in DOMAIN data |-> data[CHOOSE i \in DOMAIN data : Place(i) = n]]

(* Faulty WalkEnds: the new entries stay behind the old ones.              *)
WalkEndsUnsorted ==
  /\ ~ \E f \in Fd : IsNext(f)
  /\ walk' = NoWalk
  /\ UNCHANGED <<tab, data, state>>

WalkEnds ==
  /\ ~ \E f \in Fd : IsNext(f)
  /\ data' = IF Len(data) = walk.end THEN data ELSE Sorted
  /\ walk' = NoWalk
  /\ UNCHANGED <<tab, state>>

-----------------------------------------------------------------------------
(* execute_actions and override_and_close: from front to back, up to the   *)
(* first entry that fails.                                                 *)

Position(f) == CHOOSE i \in DOMAIN data : data[i].fd = f

ExecutedBefore(n, forkType) ==
  {i \in 1 .. n - 1 : Acts(data[i].entry, forkType)}

Fails(t, item) ==
  /\ item.entry.action \in {"Close", "CloseUnlessSpawnSubspecies"}
  /\ ~ IsOpen(t, item.fd)

MayExecute(forkType) ==
  /\ state = "live" \/ (state = "refused" /\ forkType = "Application")
  /\ HasFree(tab)

(* The table and the vector when the loop stops before the n-th entry.     *)
TableAfter(n, forkType) ==
  [f \in Fd |->
     IF \E i \in ExecutedBefore(n, forkType) : data[i].fd = f
     THEN AfterExecute(data[Position(f)].entry)
     ELSE WithDevNull(tab)[f]]

DataAfter(n, forkType) ==
  [i \in DOMAIN data |->
     IF i \in ExecutedBefore(n, forkType)
     THEN [data[i] EXCEPT !.entry.executed = TRUE] ELSE data[i]]

After(forkType) == IF forkType = "Application" THEN "done" ELSE "live"

Execute(forkType) ==
  LET end == Len(data) + 1
  IN /\ MayExecute(forkType)
     /\ \A i \in ExecutedBefore(end, forkType) : ~ Fails(WithDevNull(tab), data[i])
     /\ tab' = SyncFdState(TableAfter(end, forkType))
     /\ data' = DataAfter(end, forkType)
     /\ state' = After(forkType)
     /\ UNCHANGED walk

ExecuteFails(forkType) ==
  /\ MayExecute(forkType)
  /\ \E n \in DOMAIN data :
       /\ Acts(data[n].entry, forkType)
       /\ \/ Fails(WithDevNull(tab), data[n])
          \/ "reopen" \in Faults /\ data[n].entry.action = "Reopen"
       /\ \A i \in ExecutedBefore(n, forkType) : ~ Fails(WithDevNull(tab), data[i])
       /\ tab' = TableAfter(n, forkType)
       /\ data' = DataAfter(n, forkType)
  /\ state' = After(forkType)
  /\ UNCHANGED walk

(* The entries closed: those before the first that is not open.            *)
ClosedByOverride ==
  {i \in DOMAIN data :
     /\ data[i].entry.action # "Ignore"
     /\ \A j \in 1 .. i : data[j].entry.action # "Ignore" => IsOpen(tab, data[j].fd)}

OverrideAndClose ==
  /\ state = "live"
  /\ LET closed == [f \in Fd |-> IF \E i \in ClosedByOverride : data[i].fd = f
                                THEN Free ELSE tab[f]]
         complete == \A i \in DOMAIN data :
                       data[i].entry.action # "Ignore" => i \in ClosedByOverride
     IN tab' = IF complete THEN SyncFdState(closed) ELSE closed
  /\ state' = "done"
  /\ UNCHANGED <<data, walk>>

-----------------------------------------------------------------------------

Operation ==
  \/ \E f \in Fd :
       \/ \E kind \in OpenKinds : Open(f, kind)
       \/ Close(f)
       \/ f \notin Stdio /\ Remove(f)
       \/ \E action \in CallerActions : Register(f, action)
  \/ RegisterNew \/ OverrideAndClose
  \/ \E forkType \in ForkType : Execute(forkType) \/ ExecuteFails(forkType)

WalkStep ==
  \/ \E f \in Fd : VisitRegistered(f) \/ VisitNew(f) \/ VisitFull(f) \/ VisitRefused(f)
  \/ WalkEnds

Next ==
  \/ ~ walking /\ Operation
  \/ walking /\ state = "live" /\ WalkStep

Spec == Init /\ [][Next]_vars

-----------------------------------------------------------------------------
(* Properties                                                              *)

TypeOK ==
  /\ tab \in Table
  /\ data \in Seq(Item)
  /\ state \in {"live", "refused", "done"}
  /\ walk \in [next : Nat, index : Nat, end : Nat]

(***************************************************************************)
(* Every operation on the vector does what it does to the map: bisection   *)
(* finds the entry wherever it is, the walk of register_new misses none,   *)
(* and the sweeps stop at the entry with the lowest number that fails.     *)
(***************************************************************************)
ImplementsMap == Map!Spec

(***************************************************************************)
(* No descriptor has two entries, and the vector is in order unless a      *)
(* register_new was refused (is_sorted is asserted by register_new); while *)
(* register_new runs, the part it searches is.                             *)
(***************************************************************************)
OneEntryEach == \A i, j \in DOMAIN data : data[i].fd = data[j].fd => i = j

StrictlyOrdered ==
  /\ OneEntryEach
  /\ state = "live" => \A i, j \in 1 .. Shown : i < j => data[i].fd < data[j].fd

(***************************************************************************)
(* While register_new runs: the entries passed are those of descriptors    *)
(* that have been seen, and every open descriptor that has been seen has   *)
(* an entry, a new one if it was pushed.                                   *)
(***************************************************************************)
Pushed == walk.end + 1 .. Len(data)

WalkInv ==
  /\ state = "refused" => ~ walking
  /\ Len(data) <= RegistrySize
  /\ walking =>
       /\ walk.index \in 1 .. walk.end + 1 /\ walk.end <= Len(data)
       /\ \A i \in 1 .. walk.end : i < walk.index <=> data[i].fd < walk.next
       /\ \A i \in Pushed :
            /\ IsOpen(tab, data[i].fd) /\ data[i].fd < walk.next
            /\ data[i] = NewItem(data[i].fd)
       /\ \A f \in Fd : IsOpen(tab, f) /\ f < walk.next => FoundAt(f) # {}

RegistryInv == StrictlyOrdered /\ WalkInv

(***************************************************************************)
(* audit compares the n-th live entry with the n-th open descriptor, which *)
(* decides whether the two sets agree as long as the vector is in order.   *)
(***************************************************************************)
Audit ==
  LET live == Select(data, {i \in DOMAIN data : ~ Closed(data[i].entry)})
      open == Ascending({f \in Fd : IsOpen(tab, f)})
  IN /\ Len(live) = Len(open)
     /\ \A n \in DOMAIN open : /\ live[n].fd = open[n]
                               /\ live[n].entry.kind = tab[open[n]].kind

AuditDecides ==
  state = "live" /\ ~ walking => (Audit <=> AuditPasses(AsMap, tab))

=============================================================================
