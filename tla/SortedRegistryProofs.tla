------------------------- MODULE SortedRegistryProofs -------------------------
(***************************************************************************)
(* Proofs about SortedRegistry, for any size of the descriptor table and   *)
(* of the registry: the vector stays in order, register_new keeps track of *)
(* what it has seen, audit decides what it is asked, and the vector        *)
(* implements the map of module RegistryMap.                               *)
(***************************************************************************)
EXTENDS SortedRegistry, SubsequencesProofs, SequenceTheorems

-----------------------------------------------------------------------------
(* Insertion and removal in the middle of a vector.                        *)

LEMMA Element ==
  ASSUME NEW S, NEW s \in Seq(S), NEW i \in DOMAIN s
  PROVE  s[i] \in S
  OBVIOUS

LEMMA Concatenation ==
  ASSUME NEW S, NEW x \in Seq(S), NEW y \in Seq(S), NEW n \in 1 .. Len(x) + Len(y)
  PROVE  (x \o y)[n] = IF n <= Len(x) THEN x[n] ELSE y[n - Len(x)]
  OBVIOUS

LEMMA ConcatenationType ==
  ASSUME NEW S, NEW x \in Seq(S), NEW y \in Seq(S)
  PROVE  x \o y \in Seq(S) /\ Len(x \o y) = Len(x) + Len(y)
  BY ConcatProperties, Zenon

LEMMA Insertion ==
  ASSUME NEW S, NEW s \in Seq(S), NEW i \in 1 .. Len(s) + 1, NEW e \in S
  PROVE  /\ Seqs!InsertAt(s, i, e) \in Seq(S)
         /\ Len(Seqs!InsertAt(s, i, e)) = Len(s) + 1
         /\ \A n \in 1 .. Len(s) + 1 :
              Seqs!InsertAt(s, i, e)[n] = IF n < i THEN s[n]
                                          ELSE IF n = i THEN e ELSE s[n - 1]
<1>. DEFINE a == SubSeq(s, 1, i - 1)
            b == SubSeq(s, i, Len(s))
<1>1. /\ a \in Seq(S) /\ Len(a) = i - 1
      /\ \A n \in 1 .. i - 1 : a[n] = s[n]
  OBVIOUS
<1>2. /\ b \in Seq(S) /\ Len(b) = Len(s) - i + 1
      /\ \A n \in 1 .. Len(s) - i + 1 : b[n] = s[n + i - 1]
  OBVIOUS
<1>. HIDE DEF a, b
<1>. DEFINE c == a \o <<e>>
<1>3. /\ c \in Seq(S) /\ Len(c) = i
      /\ \A n \in 1 .. i : c[n] = IF n < i THEN s[n] ELSE e
  BY <1>1
<1>. HIDE DEF c
<1>4. c \o b \in Seq(S) /\ Len(c \o b) = Len(s) + 1
  <2>1. c \o b \in Seq(S) /\ Len(c \o b) = Len(c) + Len(b)
    BY <1>2, <1>3, ConcatenationType
  <2>2. i \in Int /\ Len(s) \in Int
    OBVIOUS
  <2>. QED
    BY <1>2, <1>3, <2>1, <2>2
<1>5. ASSUME NEW n \in 1 .. Len(s) + 1
      PROVE  (c \o b)[n] = IF n < i THEN s[n] ELSE IF n = i THEN e ELSE s[n - 1]
  <2>0. n \in Int /\ i \in Int
    OBVIOUS
  <2>1. (c \o b)[n] = IF n <= i THEN c[n] ELSE b[n - i]
    BY <1>2, <1>3, Concatenation
  <2>2. CASE n <= i
    BY <1>3, <2>1, <2>2
  <2>3. CASE ~(n <= i)
    BY <1>2, <2>0, <2>1, <2>3
  <2>. QED
    BY <2>2, <2>3, Zenon
<1>. QED
  BY <1>4, <1>5, Zenon DEF Seqs!InsertAt, a, b, c

LEMMA Removal ==
  ASSUME NEW S, NEW s \in Seq(S), NEW i \in 1 .. Len(s)
  PROVE  /\ Seqs!RemoveAt(s, i) \in Seq(S)
         /\ Len(Seqs!RemoveAt(s, i)) = Len(s) - 1
         /\ \A n \in 1 .. Len(s) - 1 :
              Seqs!RemoveAt(s, i)[n] = IF n < i THEN s[n] ELSE s[n + 1]
<1>. DEFINE a == SubSeq(s, 1, i - 1)
            b == SubSeq(s, i + 1, Len(s))
<1>1. /\ a \in Seq(S) /\ Len(a) = i - 1
      /\ \A n \in 1 .. i - 1 : a[n] = s[n]
  OBVIOUS
<1>2. /\ b \in Seq(S) /\ Len(b) = Len(s) - i
      /\ \A n \in 1 .. Len(s) - i : b[n] = s[n + i]
  OBVIOUS
<1>. HIDE DEF a, b
<1>3. a \o b \in Seq(S) /\ Len(a \o b) = Len(s) - 1
  <2>1. Len(s) \in Nat /\ i \in 1 .. Len(s)
    OBVIOUS
  <2>2. a \o b \in Seq(S) /\ Len(a \o b) = Len(a) + Len(b)
    BY <1>1, <1>2, ConcatenationType
  <2>. QED
    BY <1>1, <1>2, <2>1, <2>2
<1>4. ASSUME NEW n \in 1 .. Len(s) - 1
      PROVE  (a \o b)[n] = IF n < i THEN s[n] ELSE s[n + 1]
  <2>0. n \in Int /\ i \in Int
    OBVIOUS
  <2>1. (a \o b)[n] = IF n <= i - 1 THEN a[n] ELSE b[n - (i - 1)]
    BY <1>1, <1>2, Concatenation
  <2>2. CASE n < i
    BY <1>1, <2>1, <2>2
  <2>3. CASE ~(n < i)
    BY <1>2, <2>0, <2>1, <2>3
  <2>. QED
    BY <2>2, <2>3, Zenon
<1>. QED
  BY <1>3, <1>4, Zenon DEF Seqs!RemoveAt, a, b

-----------------------------------------------------------------------------
(* Type correctness.                                                       *)

LEMMA NewEntryType ==
  ASSUME NEW t \in Table, NEW f \in Fd, IsOpen(t, f), NEW action \in Action
  PROVE  NewEntry(t, f, action) \in Entry
  BY DEF NewEntry, Entry, IsOpen, Table, Description

LEMMA DefaultActionType ==
  ASSUME NEW kind, DefaultAction(kind) # "None" PROVE DefaultAction(kind) \in Action
  BY DEF DefaultAction, Action

LEMMA OpenedType ==
  ASSUME NEW t \in Table, NEW f \in Fd, NEW kind \in Kind
  PROVE  Opened(t, f, kind) \in Table
  BY DEF Opened, Table, Description

LEMMA WithDevNullType ==
  ASSUME NEW t \in Table, HasFree(t)
  PROVE  LowestFree(t) \in Fd /\ WithDevNull(t) \in Table
<1>1. LowestFree(t) \in Fd
  BY DEF HasFree, LowestFree
<1>2. "DevNull" \in Kind
  BY DEF Kind
<1>. QED
  BY <1>1, <1>2, OpenedType DEF WithDevNull

LEMMA AfterExecuteType ==
  ASSUME NEW e \in Entry PROVE AfterExecute(e) \in Description \cup {Free}
  BY DEF AfterExecute, Entry, Description, Kind

LEMMA SyncFdStateType ==
  ASSUME NEW t \in Table PROVE SyncFdState(t) \in Table
  BY DEF SyncFdState, Table

LEMMA ExecutedItemType ==
  ASSUME NEW item \in Item PROVE [item EXCEPT !.entry.executed = TRUE] \in Item
  BY DEF Item, Entry

LEMMA InitTypeOK == Init => TypeOK
<1>. SUFFICES ASSUME Init PROVE TypeOK
  OBVIOUS
<1>1. tab \in Table
  BY DEF Init, Table, Description, Kind, Free
<1>2. Stdio \subseteq Fd
  BY RegistryAssumption DEF Stdio, Fd
<1>3. \A i \in 1 .. 3 : [fd |-> i - 1, entry |-> NewEntry(tab, i - 1, "Ignore")] \in Item
  <2>. SUFFICES ASSUME NEW i \in 1 .. 3
       PROVE  i - 1 \in Fd /\ NewEntry(tab, i - 1, "Ignore") \in Entry
    BY DEF Item
  <2>1. i - 1 \in Stdio
    BY DEF Stdio
  <2>2. i - 1 \in Fd
    BY <1>2, <2>1
  <2>3. tab[i - 1] = [kind |-> "Stdio", own |-> TRUE]
    BY <2>1, <2>2 DEF Init
  <2>4. IsOpen(tab, i - 1)
    BY <2>3 DEF IsOpen, Free
  <2>. QED
    BY <1>1, <2>2, <2>4, NewEntryType DEF Action
<1>4. data \in Seq(Item)
  BY <1>3 DEF Init
<1>. QED
  BY <1>1, <1>4 DEF Init, TypeOK, NoWalk

(* The sweep leaves a well-typed table and vector, wherever it stops.      *)
LEMMA SweepType ==
  ASSUME TypeOK, NEW forkType, MayExecute(forkType), NEW n \in 1 .. Len(data) + 1
  PROVE  /\ TableAfter(n, forkType) \in Table
         /\ DataAfter(n, forkType) \in Seq(Item)
         /\ Len(DataAfter(n, forkType)) = Len(data)
<1>1. data \in Seq(Item) /\ WithDevNull(tab) \in Table
  BY WithDevNullType DEF TypeOK, MayExecute
<1>2. ExecutedBefore(n, forkType) \subseteq DOMAIN data
  BY <1>1 DEF ExecutedBefore
<1>3. ASSUME NEW f \in Fd, \E i \in ExecutedBefore(n, forkType) : data[i].fd = f
      PROVE  AfterExecute(data[Position(f)].entry) \in Description \cup {Free}
  <2>1. Position(f) \in DOMAIN data
    BY <1>2, <1>3 DEF Position
  <2>2. data[Position(f)] \in Item
    BY <1>1, <2>1, Element
  <2>3. data[Position(f)].entry \in Entry
    BY <2>2 DEF Item
  <2>. QED
    BY <2>3, AfterExecuteType
<1>4. TableAfter(n, forkType) \in Table
  BY <1>1, <1>3 DEF TableAfter, Table
<1>5. \A i \in 1 .. Len(data) : DataAfter(n, forkType)[i] \in Item
  BY <1>1, ExecutedItemType DEF DataAfter
<1>6. DOMAIN DataAfter(n, forkType) = 1 .. Len(data) /\ Len(data) \in Nat
  BY <1>1 DEF DataAfter
<1>7. DataAfter(n, forkType) = [i \in 1 .. Len(data) |-> DataAfter(n, forkType)[i]]
  BY <1>6 DEF DataAfter
<1>. QED
  BY <1>4, <1>5, <1>6, <1>7

LEMMA ItemType ==
  ASSUME TypeOK, NEW i \in DOMAIN data
  PROVE  /\ data[i] \in Item /\ data[i].fd \in Fd /\ data[i].fd \in Int
         /\ data[i].entry \in Entry
<1>1. data[i] \in Item
  BY Element DEF TypeOK
<1>. QED
  BY <1>1 DEF Item, Fd

LEMMA NewItemType ==
  ASSUME TypeOK, NEW f \in Fd, IsOpen(tab, f), DefaultAction(tab[f].kind) # "None"
  PROVE  NewItem(f) \in Item
  BY NewEntryType, DefaultActionType DEF TypeOK, NewItem, Item

-----------------------------------------------------------------------------
(* The vector as a set of numbers.                                         *)

Numbers(positions) == {data[i].fd : i \in positions}

(* There are as many numbers as positions.                                 *)
LEMMA NumbersCount ==
  ASSUME TypeOK, OneEntryEach, NEW D \in SUBSET DOMAIN data
  PROVE  /\ IsFiniteSet(D) /\ D \in SUBSET Int
         /\ IsFiniteSet(Numbers(D)) /\ Numbers(D) \in SUBSET Int
         /\ Cardinality(Numbers(D)) = Cardinality(D)
<1>. DEFINE h == [i \in D |-> data[i].fd]
<1>1. Len(data) \in Nat /\ DOMAIN data = 1 .. Len(data)
  BY DEF TypeOK
<1>2. IsFiniteSet(1 .. Len(data))
  BY <1>1, FS_Interval
<1>3. IsFiniteSet(D) /\ D \in SUBSET Int
  BY <1>1, <1>2, FS_Subset
<1>4. Numbers(D) \in SUBSET Int
  BY ItemType DEF Numbers
<1>5. h \in Bijection(D, Numbers(D))
  BY DEF Bijection, Injection, Surjection, IsInjective, Numbers, OneEntryEach
<1>6. ExistsBijection(D, Numbers(D))
  BY <1>5 DEF ExistsBijection
<1>. QED
  BY <1>3, <1>4, <1>6, FS_Bijection

LEMMA CountTo == ASSUME NEW n \in Nat PROVE Cardinality(1 .. n) = n
<1>0. 1 \in Int /\ n \in Int
  OBVIOUS
<1>1. Cardinality(1 .. n) = IF 1 > n THEN 0 ELSE n - 1 + 1
  BY <1>0, FS_Interval, Zenon
<1>. QED
  BY <1>1

LEMMA AllNumbers ==
  ASSUME TypeOK, OneEntryEach
  PROVE  /\ Cardinality(Numbers(DOMAIN data)) = Len(data)
         /\ IsFiniteSet(Numbers(DOMAIN data)) /\ Numbers(DOMAIN data) \in SUBSET Int
<1>1. Len(data) \in Nat /\ DOMAIN data = 1 .. Len(data)
  BY DEF TypeOK
<1>2. Cardinality(1 .. Len(data)) = Len(data)
  BY <1>1, CountTo
<1>. QED
  BY <1>1, <1>2, NumbersCount

-----------------------------------------------------------------------------
(* sort_by_key.                                                            *)

(* An entry is put where its number belongs among the numbers.             *)
LEMMA PlaceIsRank ==
  ASSUME TypeOK, OneEntryEach, NEW i \in DOMAIN data
  PROVE  Place(i) = Rank(Numbers(DOMAIN data), data[i].fd)
<1>. DEFINE D == {j \in DOMAIN data : \/ data[j].fd < data[i].fd
                                      \/ data[j].fd = data[i].fd /\ j <= i}
<1>1. \A j \in DOMAIN data : data[j].fd \in Int /\ j \in Int
  BY ItemType DEF TypeOK
<1>2. \A j \in DOMAIN data : j \in D <=> data[j].fd <= data[i].fd
  BY <1>1 DEF OneEntryEach
<1>. HIDE DEF D
<1>3. D \in SUBSET DOMAIN data
  BY DEF D
<1>4. Numbers(D) = {f \in Numbers(DOMAIN data) : f <= data[i].fd}
  BY <1>2, <1>3 DEF Numbers
<1>5. Cardinality(Numbers(D)) = Cardinality(D)
  BY <1>3, NumbersCount
<1>. QED
  BY <1>4, <1>5, Zenon DEF Place, Rank, D

(* Sorting keeps the entries and puts them in strict order.                *)
LEMMA Sorting ==
  ASSUME TypeOK, OneEntryEach
  PROVE  /\ Sorted \in Seq(Item) /\ Len(Sorted) = Len(data)
         /\ \A n \in DOMAIN data : \E i \in DOMAIN data : Sorted[n] = data[i]
         /\ \A i \in DOMAIN data : \E n \in DOMAIN data : Sorted[n] = data[i]
         /\ \A m, n \in DOMAIN data : m < n => Sorted[m].fd < Sorted[n].fd
<1>. DEFINE F == Numbers(DOMAIN data)
            from(n) == CHOOSE i \in DOMAIN data : Place(i) = n
<1>0. F \in SUBSET Int /\ IsFiniteSet(F) /\ Cardinality(F) = Len(data)
  BY AllNumbers
<1>1. DOMAIN data = 1 .. Cardinality(F) /\ Len(data) \in Nat
  BY <1>0 DEF TypeOK
<1>. HIDE DEF F
<1>2. ASSUME NEW n \in DOMAIN data
      PROVE  from(n) \in DOMAIN data /\ data[from(n)].fd = Nth(F, n)
  <2>1. Nth(F, n) \in F /\ Rank(F, Nth(F, n)) = n
    BY <1>0, <1>1, NthType
  <2>2. PICK i \in DOMAIN data : data[i].fd = Nth(F, n)
    BY <2>1 DEF F, Numbers
  <2>3. Place(i) = n
    BY <2>1, <2>2, PlaceIsRank DEF F
  <2>4. from(n) \in DOMAIN data /\ Place(from(n)) = n
    BY <2>3
  <2>. HIDE DEF from
  <2>5. data[from(n)].fd \in F /\ Rank(F, data[from(n)].fd) = n
    BY <2>4, PlaceIsRank DEF F, Numbers
  <2>6. Nth(F, Rank(F, data[from(n)].fd)) = data[from(n)].fd
    BY <1>0, <2>5, NthOfRank
  <2>. QED
    BY <2>4, <2>5, <2>6
<1>3. Sorted = [n \in DOMAIN data |-> data[from(n)]]
  BY DEF Sorted
<1>. HIDE DEF from
<1>4. \A n \in DOMAIN data : Sorted[n] = data[from(n)] /\ Sorted[n].fd = Nth(F, n)
  BY <1>2, <1>3
<1>5. \A n \in 1 .. Len(data) : Sorted[n] \in Item
  BY <1>0, <1>1, <1>2, <1>4, ItemType
<1>6. Sorted \in Seq(Item) /\ Len(Sorted) = Len(data)
  BY <1>0, <1>1, <1>3, <1>5
<1>7. \A n \in DOMAIN data : \E i \in DOMAIN data : Sorted[n] = data[i]
  BY <1>2, <1>4
<1>8. ASSUME NEW i \in DOMAIN data
      PROVE  \E n \in DOMAIN data : Sorted[n] = data[i]
  <2>1. data[i].fd \in F
    BY DEF F, Numbers
  <2>2. Rank(F, data[i].fd) \in DOMAIN data /\ Nth(F, Rank(F, data[i].fd)) = data[i].fd
    BY <1>0, <1>1, <2>1, RankType, NthOfRank
  <2>3. data[from(Rank(F, data[i].fd))].fd = data[i].fd
    BY <1>2, <2>2
  <2>4. from(Rank(F, data[i].fd)) = i
    BY <1>2, <2>2, <2>3 DEF OneEntryEach
  <2>. QED
    BY <1>4, <2>2, <2>4
<1>9. ASSUME NEW m \in DOMAIN data, NEW n \in DOMAIN data, m < n
      PROVE  Sorted[m].fd < Sorted[n].fd
  <2>1. Nth(F, m) < Nth(F, n)
    BY <1>0, <1>1, <1>9, NthMonotone
  <2>. QED
    BY <1>4, <2>1
<1>. QED
  BY <1>6, <1>7, <1>8, <1>9

-----------------------------------------------------------------------------
(* Type correctness of the steps.                                          *)

LEMMA RegisterType ==
  ASSUME TypeOK, NEW f \in Fd, NEW action \in CallerActions, Register(f, action)
  PROVE  TypeOK'
<1>. DEFINE item == [fd |-> f, entry |-> NewEntry(tab, f, action)]
<1>1. item \in Item
  <2>1. NewEntry(tab, f, action) \in Entry
    BY NewEntryType, RegistrySizeAssumption DEF Register, TypeOK
  <2>. QED
    BY <2>1 DEF Item
<1>. HIDE DEF item
<1>2. UNCHANGED <<tab, walk>> /\ state' \in {"live", "refused", "done"}
  BY DEF Register, TypeOK
<1>3. CASE data' = data
  BY <1>2, <1>3 DEF TypeOK
<1>4. CASE \E i \in FoundAt(f) : data' = [data EXCEPT ![i] = item]
  <2>1. data' \in Seq(Item)
    BY <1>1, <1>4 DEF TypeOK, FoundAt
  <2>. QED
    BY <1>2, <2>1 DEF TypeOK
<1>5. CASE \E i \in MissingAt(f) : data' = Seqs!InsertAt(data, i, item)
  <2>1. PICK i \in 1 .. Len(data) + 1 : data' = Seqs!InsertAt(data, i, item)
    BY <1>5 DEF MissingAt
  <2>2. data' \in Seq(Item)
    BY <1>1, <2>1, Insertion DEF TypeOK
  <2>. QED
    BY <1>2, <2>2 DEF TypeOK
<1>. QED
  BY <1>3, <1>4, <1>5 DEF Register, item

LEMMA NextTypeOK == TypeOK /\ OneEntryEach /\ [Next]_vars => TypeOK'
<1>. SUFFICES ASSUME TypeOK, OneEntryEach, [Next]_vars PROVE TypeOK'
  OBVIOUS
<1>0. tab \in Table /\ data \in Seq(Item) /\ Len(data) \in Nat
  BY DEF TypeOK
<1>1. CASE UNCHANGED vars
  BY <1>1 DEF TypeOK, vars
<1>2. ASSUME NEW f \in Fd, NEW kind \in OpenKinds, Open(f, kind) PROVE TypeOK'
  BY <1>0, <1>2, OpenedType, RegistrySizeAssumption DEF Open, TypeOK
<1>3. ASSUME NEW f \in Fd, Close(f) PROVE TypeOK'
  BY <1>3 DEF Close, ClosedFd, TypeOK, Table
<1>4. ASSUME NEW f \in Fd, Remove(f) PROVE TypeOK'
  <2>1. PICK i \in 1 .. Len(data) : data' = Seqs!RemoveAt(data, i)
    BY <1>0, <1>4 DEF Remove, FoundAt
  <2>2. data' \in Seq(Item)
    BY <1>0, <2>1, Removal
  <2>. QED
    BY <1>4, <2>2 DEF Remove, TypeOK
<1>5. ASSUME NEW f \in Fd, NEW action \in CallerActions, Register(f, action) PROVE TypeOK'
  BY <1>5, RegisterType
<1>6. CASE RegisterNew
  BY <1>0, <1>6 DEF RegisterNew, TypeOK
<1>7. CASE OverrideAndClose
  <2>. DEFINE closed == [f \in Fd |-> IF \E i \in ClosedByOverride : data[i].fd = f
                                     THEN Free ELSE tab[f]]
  <2>1. closed \in Table
    BY <1>0 DEF Table
  <2>. HIDE DEF closed
  <2>2. tab' \in {closed, SyncFdState(closed)}
    BY <1>7 DEF OverrideAndClose, closed
  <2>3. tab' \in Table
    BY <2>1, <2>2, SyncFdStateType
  <2>. QED
    BY <1>7, <2>3 DEF OverrideAndClose, TypeOK
<1>8. ASSUME NEW forkType \in ForkType, Execute(forkType) PROVE TypeOK'
  <2>1. Len(data) + 1 \in 1 .. Len(data) + 1 /\ MayExecute(forkType)
    BY <1>0, <1>8 DEF Execute
  <2>2. /\ TableAfter(Len(data) + 1, forkType) \in Table
        /\ DataAfter(Len(data) + 1, forkType) \in Seq(Item)
    BY <2>1, SweepType
  <2>3. tab' \in Table /\ data' \in Seq(Item)
    BY <1>8, <2>2, SyncFdStateType DEF Execute
  <2>. QED
    BY <1>8, <2>3 DEF Execute, After, TypeOK
<1>9. ASSUME NEW forkType \in ForkType, ExecuteFails(forkType) PROVE TypeOK'
  <2>1. PICK n \in DOMAIN data :
          tab' = TableAfter(n, forkType) /\ data' = DataAfter(n, forkType)
    BY <1>9 DEF ExecuteFails
  <2>2. n \in 1 .. Len(data) + 1 /\ MayExecute(forkType)
    BY <1>0, <1>9 DEF ExecuteFails
  <2>3. tab' \in Table /\ data' \in Seq(Item)
    BY <2>1, <2>2, SweepType
  <2>. QED
    BY <1>9, <2>3 DEF ExecuteFails, After, TypeOK
<1>10. ASSUME NEW f \in Fd, VisitRegistered(f) PROVE TypeOK'
  <2>1. PICK i \in DOMAIN data : walk' = [walk EXCEPT !.next = f + 1, !.index = i + 1]
    BY <1>10 DEF VisitRegistered
  <2>2. f + 1 \in Nat /\ i + 1 \in Nat
    BY <1>0 DEF Fd
  <2>. QED
    BY <1>10, <2>1, <2>2 DEF VisitRegistered, TypeOK
<1>11. ASSUME NEW f \in Fd, VisitNew(f) PROVE TypeOK'
  <2>1. NewItem(f) \in Item
    BY <1>11, NewItemType DEF VisitNew, IsNext
  <2>2. data' \in Seq(Item)
    BY <1>0, <1>11, <2>1 DEF VisitNew
  <2>3. walk' \in [next : Nat, index : Nat, end : Nat]
    <3>1. PICK i \in 1 .. Len(data) + 1 : walk' = [walk EXCEPT !.next = f + 1, !.index = i]
      BY <1>11 DEF VisitNew
    <3>2. f + 1 \in Nat /\ i \in Nat
      BY <1>0 DEF Fd
    <3>. QED
      BY <3>1, <3>2 DEF TypeOK
  <2>. QED
    BY <1>11, <2>2, <2>3 DEF VisitNew, TypeOK
<1>12. ASSUME NEW f \in Fd, VisitFull(f) \/ VisitRefused(f) PROVE TypeOK'
  BY <1>12 DEF VisitFull, VisitRefused, TypeOK, NoWalk
<1>13. CASE WalkEnds
  <2>1. data' \in Seq(Item)
    BY <1>0, <1>13, Sorting DEF WalkEnds
  <2>. QED
    BY <1>13, <2>1 DEF WalkEnds, TypeOK, NoWalk
<1>. QED
  BY <1>1, <1>2, <1>3, <1>4, <1>5, <1>6, <1>7, <1>8, <1>9, <1>10, <1>11, <1>12, <1>13
     DEF Next, Operation, WalkStep

-----------------------------------------------------------------------------
(* The vector stays in order.                                              *)

LEMMA InitRegistryInv == Init => RegistryInv
<1>. SUFFICES ASSUME Init PROVE RegistryInv
  OBVIOUS
<1>1. data \in Seq(Item) /\ Len(data) = 3 /\ ~ walking /\ state = "live"
  BY InitTypeOK DEF Init, TypeOK, walking
<1>2. \A i \in 1 .. 3 : data[i].fd = i - 1
  BY DEF Init
<1>3. StrictlyOrdered
  BY <1>1, <1>2 DEF StrictlyOrdered, OneEntryEach, Shown
<1>4. WalkInv
  BY <1>1, RegistrySizeAssumption DEF WalkInv
<1>. QED
  BY <1>3, <1>4 DEF RegistryInv

LEMMA LiveOrdered ==
  ASSUME TypeOK, RegistryInv, state = "live", ~ walking
  PROVE  Ordered /\ Shown = Len(data)
<1>1. DOMAIN data = 1 .. Len(data)
  BY DEF TypeOK
<1>. QED
  BY <1>1 DEF RegistryInv, StrictlyOrdered, Shown, Ordered

(* What an operation that is over leaves.                                  *)
LEMMA SettledStep ==
  ASSUME TypeOK', ~ walking', Len(data') <= RegistrySize, OneEntryEach',
         state' = "live" => Ordered'
  PROVE  RegistryInv'
<1>1. DOMAIN data' = 1 .. Len(data')
  BY DEF TypeOK
<1>2. Shown' = Len(data')
  BY DEF Shown
<1>3. StrictlyOrdered'
  BY <1>1, <1>2 DEF StrictlyOrdered, Ordered
<1>4. WalkInv'
  BY DEF WalkInv
<1>. QED
  BY <1>3, <1>4 DEF RegistryInv

LEMMA SameNumbers ==
  ASSUME TypeOK, RegistryInv, TypeOK', DOMAIN data' = DOMAIN data,
         \A i \in DOMAIN data : data'[i].fd = data[i].fd,
         ~ walking, walk' = walk, state' = "live" => state = "live"
  PROVE  RegistryInv'
<1>1. Len(data') = Len(data) /\ Len(data) <= RegistrySize
  BY DEF TypeOK, RegistryInv, WalkInv
<1>2. OneEntryEach'
  BY DEF RegistryInv, StrictlyOrdered, OneEntryEach
<1>3. ~ walking'
  BY DEF walking
<1>4. state' = "live" => Ordered'
  BY LiveOrdered DEF Ordered
<1>. QED
  BY <1>1, <1>2, <1>3, <1>4, SettledStep

(* Insertion into the vector.                                              *)
LEMMA InsertedItem ==
  ASSUME TypeOK, NEW i \in 1 .. Len(data) + 1, NEW item \in Item,
         data' = Seqs!InsertAt(data, i, item)
  PROVE  /\ Len(data') = Len(data) + 1
         /\ \A n \in 1 .. Len(data) + 1 :
              data'[n] = IF n < i THEN data[n] ELSE IF n = i THEN item ELSE data[n - 1]
<1>1. data \in Seq(Item)
  BY DEF TypeOK
<1>2. /\ Len(Seqs!InsertAt(data, i, item)) = Len(data) + 1
      /\ \A n \in 1 .. Len(data) + 1 :
           Seqs!InsertAt(data, i, item)[n]
             = IF n < i THEN data[n] ELSE IF n = i THEN item ELSE data[n - 1]
  BY <1>1, Insertion
<1>. QED
  BY <1>2, Zenon

(* A new entry goes behind those below it and before those above it.       *)
LEMMA InsertKeepsOrder ==
  ASSUME TypeOK, RegistryInv, TypeOK', NEW f \in Fd, state = "live", ~ walking,
         NEW i \in MissingAt(f), NEW entry \in Entry, Len(data) < RegistrySize,
         data' = Seqs!InsertAt(data, i, [fd |-> f, entry |-> entry]),
         walk' = walk
  PROVE  RegistryInv'
<1>1. Ordered /\ data \in Seq(Item) /\ Len(data) \in Nat /\ DOMAIN data = 1 .. Len(data)
  BY LiveOrdered DEF TypeOK
<1>2. i \in 1 .. Len(data) + 1
  BY DEF MissingAt
<1>3. \A j \in 1 .. Len(data) :
        IF j < i THEN data[j].fd < f ELSE data[j].fd > f
  BY <1>1 DEF MissingAt
<1>. DEFINE item == [fd |-> f, entry |-> entry]
<1>4. item \in Item /\ item.fd = f
  BY DEF Item
<1>. HIDE DEF item
<1>5. /\ Len(data') = Len(data) + 1
      /\ \A n \in 1 .. Len(data) + 1 :
           data'[n] = IF n < i THEN data[n] ELSE IF n = i THEN item ELSE data[n - 1]
  <2>1. data' = Seqs!InsertAt(data, i, item)
    BY DEF item
  <2>. QED
    <3>1. i \in 1 .. Len(data) + 1 /\ item \in Item
      BY <1>1, <1>2, <1>4
    <3>. QED
      BY <2>1, <3>1, InsertedItem
<1>6. DOMAIN data' = 1 .. Len(data) + 1
  BY <1>5 DEF TypeOK
<1>7. \A n \in 1 .. Len(data) : data[n].fd \in Int
  BY <1>1, ItemType
<1>8. ASSUME NEW m \in 1 .. Len(data) + 1, NEW n \in 1 .. Len(data) + 1, m < n
      PROVE  data'[m].fd < data'[n].fd
  <2>0. f \in Int /\ i \in Int /\ m \in Int /\ n \in Int
    BY <1>1, <1>2 DEF Fd
  <2>1. CASE n < i
    <3>1. data'[m] = data[m] /\ data'[n] = data[n] /\ m \in DOMAIN data /\ n \in DOMAIN data
      BY <1>1, <1>2, <1>5, <1>8, <2>0, <2>1
    <3>. QED
      BY <1>1, <1>8, <3>1 DEF Ordered
  <2>2. CASE n = i
    <3>1. data'[m] = data[m] /\ data'[n] = item /\ m \in 1 .. Len(data) /\ m < i
      BY <1>1, <1>2, <1>5, <1>8, <2>0, <2>2
    <3>. QED
      BY <1>3, <1>4, <3>1
  <2>3. CASE n > i /\ m < i
    <3>1. /\ data'[m] = data[m] /\ data'[n] = data[n - 1]
          /\ m \in 1 .. Len(data) /\ n - 1 \in 1 .. Len(data) /\ ~(n - 1 < i)
      BY <1>1, <1>2, <1>5, <1>8, <2>0, <2>3
    <3>. QED
      BY <1>3, <1>7, <2>0, <2>3, <3>1
  <2>4. CASE n > i /\ m = i
    <3>1. /\ data'[m] = item /\ data'[n] = data[n - 1]
          /\ n - 1 \in 1 .. Len(data) /\ ~(n - 1 < i)
      BY <1>1, <1>2, <1>5, <1>8, <2>0, <2>4
    <3>. QED
      BY <1>3, <1>4, <1>7, <2>0, <3>1
  <2>5. CASE n > i /\ m > i
    <3>1. /\ data'[m] = data[m - 1] /\ data'[n] = data[n - 1]
          /\ m - 1 \in DOMAIN data /\ n - 1 \in DOMAIN data /\ m - 1 < n - 1
      BY <1>1, <1>2, <1>5, <1>8, <2>0, <2>5
    <3>. QED
      BY <1>1, <3>1 DEF Ordered
  <2>. QED
    BY <1>8, <2>0, <2>1, <2>2, <2>3, <2>4, <2>5
<1>9. Ordered'
  BY <1>6, <1>8 DEF Ordered
<1>10. OneEntryEach'
  <2>0. data' \in Seq(Item)
    BY DEF TypeOK
  <2>1. \A n \in DOMAIN data' : n \in Int /\ data'[n].fd \in Int
    <3>1. \A n \in DOMAIN data' : data'[n] \in Item
      BY <2>0, Element
    <3>. QED
      BY <1>6, <3>1 DEF Item, Fd
  <2>. QED
    BY <1>6, <1>9, <2>1 DEF OneEntryEach, Ordered
<1>11. Len(data') <= RegistrySize /\ ~ walking'
  BY <1>1, <1>5, RegistrySizeAssumption DEF walking
<1>. QED
  BY <1>9, <1>10, <1>11, SettledStep

LEMMA RemoveKeepsOrder ==
  ASSUME TypeOK, RegistryInv, TypeOK', NEW f \in Fd, Remove(f), ~ walking
  PROVE  RegistryInv'
<1>1. data \in Seq(Item) /\ Len(data) \in Nat /\ DOMAIN data = 1 .. Len(data)
  BY DEF TypeOK
<1>2. PICK i \in 1 .. Len(data) : data' = Seqs!RemoveAt(data, i)
  BY <1>1 DEF Remove, FoundAt
<1>3. /\ Len(data') = Len(data) - 1
      /\ \A n \in 1 .. Len(data) - 1 : data'[n] = IF n < i THEN data[n] ELSE data[n + 1]
  BY <1>1, <1>2, Removal
<1>4. DOMAIN data' = 1 .. Len(data) - 1
  BY <1>3 DEF TypeOK
<1>. DEFINE old(n) == IF n < i THEN n ELSE n + 1
<1>5. \A n \in 1 .. Len(data) - 1 : old(n) \in DOMAIN data /\ data'[n] = data[old(n)]
  BY <1>1, <1>3
<1>6. \A m, n \in 1 .. Len(data) - 1 : (m < n => old(m) < old(n)) /\ (old(m) = old(n) => m = n)
  BY <1>1
<1>. HIDE DEF old
<1>7. OneEntryEach'
  BY <1>4, <1>5, <1>6 DEF RegistryInv, StrictlyOrdered, OneEntryEach
<1>8. state' = "live" => Ordered'
  BY <1>4, <1>5, <1>6, LiveOrdered DEF Ordered, Remove
<1>9. Len(data') <= RegistrySize /\ ~ walking'
  BY <1>1, <1>3, RegistrySizeAssumption DEF RegistryInv, WalkInv, Remove, walking
<1>. QED
  BY <1>7, <1>8, <1>9, SettledStep

-----------------------------------------------------------------------------
(* register_new keeps track of what it has seen.                           *)

LEMMA WalkFacts ==
  ASSUME TypeOK, RegistryInv, walking
  PROVE  /\ walk.end \in Nat /\ walk.index \in Nat /\ walk.next \in Nat /\ Len(data) \in Nat
         /\ DOMAIN data = 1 .. Len(data) /\ walk.end <= Len(data)
         /\ Shown = walk.end
         /\ 1 .. walk.end \subseteq DOMAIN data /\ Pushed \subseteq DOMAIN data
         /\ \A i \in DOMAIN data : i \in 1 .. walk.end \/ i \in Pushed
         /\ \A i \in DOMAIN data : data[i].fd \in Int /\ i \in Int
<1>1. /\ walk.end \in Nat /\ walk.index \in Nat /\ walk.next \in Nat /\ Len(data) \in Nat
      /\ DOMAIN data = 1 .. Len(data) /\ walk.end <= Len(data)
      /\ Shown = walk.end
  BY DEF TypeOK, RegistryInv, WalkInv, Shown
<1>2. \A i \in DOMAIN data : data[i].fd \in Int
  BY ItemType
<1>. QED
  BY <1>1, <1>2 DEF Pushed

(* The index is in step with the descriptors: what was not passed is not   *)
(* below the descriptor, so is_registered is right.                        *)
LEMMA InStep ==
  ASSUME TypeOK, RegistryInv, walking, state = "live",
         NEW f \in Fd, IsNext(f), NEW i, SkippedTo(f, i)
  PROVE  /\ i \in 1 .. walk.end + 1
         /\ \A j \in 1 .. walk.end : j < i <=> data[j].fd < f
         /\ \A j \in Pushed : data[j].fd < f
         /\ ~ IsAt(f, i) => FoundAt(f) = {}
         /\ \A g \in Fd : IsOpen(tab, g) /\ g < f => FoundAt(g) # {}
<1>1. /\ walk.index \in 1 .. walk.end + 1
      /\ \A j \in 1 .. walk.end : j < walk.index <=> data[j].fd < walk.next
      /\ \A j \in Pushed : data[j].fd < walk.next
      /\ \A g \in Fd : IsOpen(tab, g) /\ g < walk.next => FoundAt(g) # {}
      /\ \A j, k \in 1 .. walk.end : j < k => data[j].fd < data[k].fd
  BY WalkFacts DEF RegistryInv, WalkInv, StrictlyOrdered
<1>2. /\ f >= walk.next /\ f \in Int
      /\ \A g \in Fd : IsOpen(tab, g) /\ g >= walk.next => f <= g
      /\ \A g \in Fd : g \in Int
  BY DEF IsNext, Fd
<1>3. /\ i \in walk.index .. walk.end + 1
      /\ \A j \in walk.index .. i - 1 : data[j].fd < f
      /\ i <= walk.end => data[i].fd >= f
  BY DEF SkippedTo
<1>4. /\ walk.end \in Nat /\ walk.index \in Nat /\ walk.next \in Nat
      /\ \A j \in DOMAIN data : data[j].fd \in Int /\ j \in Int
      /\ 1 .. walk.end \subseteq DOMAIN data /\ Pushed \subseteq DOMAIN data
  BY WalkFacts
<1>5. i \in 1 .. walk.end + 1 /\ i \in Int
  BY <1>1, <1>3, <1>4
<1>6. ASSUME NEW j \in 1 .. walk.end
      PROVE  j < i <=> data[j].fd < f
  <2>0. j \in Int /\ data[j].fd \in Int
    BY <1>4
  <2>1. ASSUME j < walk.index PROVE data[j].fd < f
    BY <1>1, <1>2, <1>4, <2>0, <2>1
  <2>2. ASSUME j >= walk.index, j < i PROVE data[j].fd < f
    BY <1>3, <1>4, <1>5, <2>0, <2>2
  <2>3. ASSUME j = i PROVE data[j].fd >= f
    BY <1>3, <2>0, <2>3
  <2>4. ASSUME i < j PROVE data[j].fd >= f
    <3>1. i \in 1 .. walk.end
      BY <1>4, <1>5, <2>0, <2>4
    <3>2. data[i].fd >= f /\ data[i].fd < data[j].fd /\ data[i].fd \in Int
      BY <1>1, <1>3, <1>4, <2>4, <3>1
    <3>. QED
      BY <1>2, <2>0, <3>2
  <2>. QED
    BY <1>2, <1>4, <1>5, <2>0, <2>1, <2>2, <2>3, <2>4
<1>7. \A j \in Pushed : data[j].fd < f
  BY <1>1, <1>2, <1>4
<1>8. ASSUME ~ IsAt(f, i) PROVE FoundAt(f) = {}
  <2>. SUFFICES ASSUME NEW j \in DOMAIN data PROVE data[j].fd # f
    BY DEF FoundAt
  <2>1. CASE j \in Pushed
    BY <1>2, <1>7, <2>1
  <2>2. CASE j \in 1 .. walk.end
    <3>1. CASE j = i
      BY <1>8, <2>2, <3>1 DEF IsAt
    <3>2. CASE j < i
      BY <1>2, <1>6, <2>2, <3>2
    <3>3. CASE i < j
      <4>1. i \in 1 .. walk.end
        BY <1>4, <1>5, <2>2, <3>3
      <4>2. data[i].fd < data[j].fd /\ data[i].fd >= f /\ data[i].fd \in Int /\ data[j].fd \in Int
        BY <1>1, <1>3, <1>4, <2>2, <3>3, <4>1
      <4>. QED
        BY <1>2, <4>2
    <3>. QED
      BY <1>4, <1>5, <2>2, <3>1, <3>2, <3>3
  <2>. QED
    BY <2>1, <2>2, WalkFacts
<1>9. \A g \in Fd : IsOpen(tab, g) /\ g < f => FoundAt(g) # {}
  BY <1>1, <1>2, <1>4
<1>. QED
  BY <1>5, <1>6, <1>7, <1>8, <1>9

LEMMA VisitRegisteredStep ==
  ASSUME TypeOK, RegistryInv, TypeOK', walking, state = "live",
         NEW f \in Fd, VisitRegistered(f)
  PROVE  RegistryInv' /\ walking' /\ walk'.end = walk.end
<1>1. PICK i \in DOMAIN data :
        /\ SkippedTo(f, i) /\ IsAt(f, i)
        /\ walk' = [walk EXCEPT !.next = f + 1, !.index = i + 1]
  BY DEF VisitRegistered
<1>2. IsNext(f) /\ UNCHANGED <<tab, data, state>>
  BY DEF VisitRegistered
<1>3. /\ i \in 1 .. walk.end + 1
      /\ \A j \in 1 .. walk.end : j < i <=> data[j].fd < f
      /\ \A j \in Pushed : data[j].fd < f
      /\ \A g \in Fd : IsOpen(tab, g) /\ g < f => FoundAt(g) # {}
  BY <1>1, <1>2, InStep
<1>4. i <= walk.end /\ data[i].fd = f /\ i \in Int /\ f \in Int
  BY <1>1, <1>3, WalkFacts DEF IsAt, Fd
<1>5. walk'.next = f + 1 /\ walk'.index = i + 1 /\ walk'.end = walk.end
  BY <1>1 DEF TypeOK
<1>6. walking' /\ Shown' = walk.end
  BY <1>4, <1>5 DEF walking, NoWalk, Shown, Fd
<1>7. StrictlyOrdered'
  BY <1>2, <1>6, WalkFacts DEF RegistryInv, StrictlyOrdered, OneEntryEach
<1>8. ASSUME NEW j \in 1 .. walk.end
      PROVE  j < i + 1 <=> data[j].fd < f + 1
  <2>1. j \in Int /\ data[j].fd \in Int
    BY WalkFacts
  <2>2. j # i => data[j].fd # f
    BY <1>1, <1>4, <2>1, WalkFacts DEF RegistryInv, StrictlyOrdered, OneEntryEach
  <2>. QED
    BY <1>3, <1>4, <2>1, <2>2
<1>9. \A j \in Pushed : data[j].fd < f + 1
  BY <1>3, <1>4, WalkFacts
<1>10. \A g \in Fd : IsOpen(tab, g) /\ g < f + 1 => FoundAt(g) # {}
  <2>1. FoundAt(f) # {}
    BY <1>1, <1>4 DEF FoundAt
  <2>. QED
    BY <1>3, <1>4, <2>1 DEF Fd
<1>11. i + 1 \in 1 .. walk.end + 1 /\ walk.end <= Len(data)
  BY <1>3, <1>4, WalkFacts
<1>12. Pushed' = Pushed /\ \A g \in Fd : FoundAt(g)' = FoundAt(g)
  BY <1>2, <1>5 DEF Pushed, FoundAt
<1>13. /\ Len(data) <= RegistrySize
       /\ \A j \in Pushed : IsOpen(tab, data[j].fd) /\ data[j] = NewItem(data[j].fd)
  BY DEF RegistryInv, WalkInv
<1>14. \A j \in Pushed : data[j].fd \in Fd
  BY ItemType, WalkFacts
<1>15. WalkInv'
  <2>1. state' # "refused" /\ Len(data') <= RegistrySize
    BY <1>2, <1>13
  <2>2. walk'.index \in 1 .. walk'.end + 1 /\ walk'.end <= Len(data')
    BY <1>2, <1>5, <1>11
  <2>3. \A j \in 1 .. walk'.end : j < walk'.index <=> data'[j].fd < walk'.next
    BY <1>2, <1>5, <1>8
  <2>4. \A j \in Pushed' :
          /\ IsOpen(tab', data'[j].fd) /\ data'[j].fd < walk'.next
          /\ data'[j] = NewItem(data'[j].fd)
    BY <1>2, <1>5, <1>9, <1>12, <1>13, <1>14
  <2>5. \A g \in Fd : IsOpen(tab', g) /\ g < walk'.next => FoundAt(g)' # {}
    BY <1>2, <1>5, <1>10, <1>12
  <2>. QED
    BY <1>2, <2>1, <2>2, <2>3, <2>4, <2>5 DEF WalkInv, NewItem
<1>. QED
  BY <1>5, <1>6, <1>7, <1>15 DEF RegistryInv

LEMMA VisitNewStep ==
  ASSUME TypeOK, RegistryInv, TypeOK', walking, state = "live",
         NEW f \in Fd, VisitNew(f)
  PROVE  RegistryInv' /\ walking' /\ walk'.end = walk.end
<1>1. PICK i \in 1 .. Len(data) + 1 :
        /\ SkippedTo(f, i) /\ ~ IsAt(f, i)
        /\ walk' = [walk EXCEPT !.next = f + 1, !.index = i]
  BY DEF VisitNew
<1>2. /\ IsNext(f) /\ IsOpen(tab, f) /\ UNCHANGED <<tab, state>>
      /\ Len(data) < RegistrySize /\ data' = Append(data, NewItem(f))
  BY DEF VisitNew, IsNext
<1>3. /\ i \in 1 .. walk.end + 1
      /\ \A j \in 1 .. walk.end : j < i <=> data[j].fd < f
      /\ \A j \in Pushed : data[j].fd < f
      /\ FoundAt(f) = {}
      /\ \A g \in Fd : IsOpen(tab, g) /\ g < f => FoundAt(g) # {}
  BY <1>1, <1>2, InStep
<1>. DEFINE n == Len(data) + 1
<1>4. /\ n \in Nat /\ DOMAIN data' = 1 .. n /\ Len(data') = n
      /\ \A j \in DOMAIN data : data'[j] = data[j]
      /\ data'[n] = NewItem(f) /\ data'[n].fd = f
      /\ n \notin DOMAIN data /\ 1 .. n = DOMAIN data \cup {n}
  BY <1>2 DEF TypeOK, NewItem
<1>5. walk'.next = f + 1 /\ walk'.index = i /\ walk'.end = walk.end /\ f \in Int
  BY <1>1 DEF TypeOK, Fd
<1>6. walking' /\ Shown' = walk.end
  BY <1>5 DEF walking, NoWalk, Shown, Fd
<1>. HIDE DEF n
<1>7. \A j \in DOMAIN data : data[j].fd # f
  BY <1>3 DEF FoundAt
<1>8. StrictlyOrdered'
  <2>1. OneEntryEach'
    BY <1>4, <1>7 DEF RegistryInv, StrictlyOrdered, OneEntryEach
  <2>2. \A j, k \in 1 .. walk.end : j < k => data'[j].fd < data'[k].fd
    BY <1>4, WalkFacts DEF RegistryInv, StrictlyOrdered
  <2>. QED
    BY <1>6, <2>1, <2>2 DEF StrictlyOrdered
<1>9. ASSUME NEW j \in 1 .. walk.end
      PROVE  j < i <=> data'[j].fd < f + 1
  <2>1. j \in DOMAIN data /\ data[j].fd \in Int /\ data'[j] = data[j] /\ data[j].fd # f
    BY <1>4, <1>7, WalkFacts
  <2>. QED
    BY <1>3, <1>5, <2>1
<1>10. Pushed' = Pushed \cup {n}
  BY <1>4, <1>5, WalkFacts DEF Pushed, n
<1>11. /\ Len(data) <= RegistrySize
       /\ \A j \in Pushed : IsOpen(tab, data[j].fd) /\ data[j] = NewItem(data[j].fd)
  BY DEF RegistryInv, WalkInv
<1>13. \A j \in Pushed : data[j].fd \in Fd /\ data[j].fd < f + 1 /\ data'[j] = data[j]
  BY <1>3, <1>4, <1>5, ItemType, WalkFacts
<1>14. WalkInv'
  <2>1. state' # "refused" /\ Len(data') <= RegistrySize
    BY <1>2, <1>4, RegistrySizeAssumption DEF n
  <2>2. walk'.index \in 1 .. walk'.end + 1 /\ walk'.end <= Len(data')
    BY <1>3, <1>4, <1>5, WalkFacts DEF n
  <2>3. \A j \in 1 .. walk'.end : j < walk'.index <=> data'[j].fd < walk'.next
    BY <1>5, <1>9
  <2>4. \A j \in Pushed' :
          /\ IsOpen(tab', data'[j].fd) /\ data'[j].fd < walk'.next
          /\ data'[j] = NewItem(data'[j].fd)
    <3>1. /\ IsOpen(tab', data'[n].fd) /\ data'[n].fd < walk'.next
          /\ data'[n] = NewItem(data'[n].fd)
      BY <1>2, <1>4, <1>5
    <3>2. ASSUME NEW j \in Pushed
          PROVE  /\ IsOpen(tab', data'[j].fd) /\ data'[j].fd < walk'.next
                 /\ data'[j] = NewItem(data'[j].fd)
      BY <1>2, <1>5, <1>11, <1>13
    <3>. QED
      BY <1>10, <3>1, <3>2
  <2>5. ASSUME NEW g \in Fd, IsOpen(tab', g), g < walk'.next
        PROVE  FoundAt(g)' # {}
    <3>1. CASE g = f
      BY <1>4, <3>1 DEF FoundAt
    <3>2. CASE g # f
      <4>1. g < f
        BY <1>5, <2>5, <3>2 DEF Fd
      <4>2. PICK j \in DOMAIN data : data[j].fd = g
        BY <1>2, <1>3, <2>5, <4>1 DEF FoundAt
      <4>. QED
        BY <1>4, <4>2 DEF FoundAt
    <3>. QED
      BY <3>1, <3>2
  <2>. QED
    BY <1>2, <2>1, <2>2, <2>3, <2>4, <2>5 DEF WalkInv, NewItem
<1>. QED
  BY <1>5, <1>6, <1>8, <1>14 DEF RegistryInv

LEMMA WalkEndsStep ==
  ASSUME TypeOK, RegistryInv, TypeOK', walking, state = "live", WalkEnds
  PROVE  RegistryInv'
<1>1. ~ walking'
  BY DEF WalkEnds, walking
<1>2. CASE Len(data) = walk.end
  <2>1. data' = data
    BY <1>2 DEF WalkEnds
  <2>2. Ordered'
    BY <1>2, <2>1, WalkFacts DEF Ordered, RegistryInv, StrictlyOrdered
  <2>. QED
    BY <1>1, <2>1, <2>2, SettledStep DEF RegistryInv, StrictlyOrdered, OneEntryEach, WalkInv
<1>3. CASE Len(data) # walk.end
  <2>1. data' = Sorted
    BY <1>3 DEF WalkEnds
  <2>2. /\ Len(data') = Len(data)
        /\ \A m, n \in DOMAIN data : m < n => data'[m].fd < data'[n].fd
    BY <2>1, Sorting DEF RegistryInv, StrictlyOrdered
  <2>3. DOMAIN data' = DOMAIN data /\ DOMAIN data = 1 .. Len(data)
    BY <2>2 DEF TypeOK
  <2>4. Ordered'
    BY <2>2, <2>3 DEF Ordered
  <2>5. OneEntryEach'
    <3>1. data' \in Seq(Item)
      BY DEF TypeOK
    <3>2. \A n \in DOMAIN data' : data'[n] \in Item
      BY <3>1, Element
    <3>3. \A n \in DOMAIN data' : n \in Int /\ data'[n].fd \in Int
      BY <2>3, <3>2 DEF Item, Fd
    <3>. QED
      BY <2>4, <3>3 DEF OneEntryEach, Ordered
  <2>. QED
    BY <1>1, <2>2, <2>4, <2>5, SettledStep DEF RegistryInv, WalkInv
<1>. QED
  BY <1>2, <1>3

LEMMA NextRegistryInv == TypeOK /\ RegistryInv /\ TypeOK' /\ [Next]_vars => RegistryInv'
<1>. SUFFICES ASSUME TypeOK, RegistryInv, TypeOK', [Next]_vars PROVE RegistryInv'
  OBVIOUS
<1>0. data \in Seq(Item) /\ Len(data) \in Nat /\ DOMAIN data = 1 .. Len(data)
  BY DEF TypeOK
<1>1. CASE UNCHANGED vars
  BY <1>1 DEF vars, RegistryInv, StrictlyOrdered, OneEntryEach, WalkInv, Shown, walking,
              Pushed, FoundAt, NewItem
<1>2. ASSUME ~ walking, data' = data, walk' = walk, state' = "live" => state = "live"
      PROVE  RegistryInv'
  BY <1>2, SameNumbers
<1>3. CASE ~ walking /\ Operation
  <2>1. ASSUME NEW f \in Fd, NEW kind \in OpenKinds, Open(f, kind) PROVE RegistryInv'
    BY <1>2, <1>3, <2>1 DEF Open
  <2>2. ASSUME NEW f \in Fd, Close(f) PROVE RegistryInv'
    BY <1>2, <1>3, <2>2 DEF Close
  <2>3. ASSUME NEW f \in Fd, Remove(f) PROVE RegistryInv'
    BY <1>3, <2>3, RemoveKeepsOrder
  <2>4. ASSUME NEW f \in Fd, NEW action \in CallerActions, Register(f, action)
        PROVE  RegistryInv'
    <3>. DEFINE item == [fd |-> f, entry |-> NewEntry(tab, f, action)]
    <3>1. /\ state = "live" /\ IsOpen(tab, f) /\ walk' = walk
          /\ \/ \E i \in FoundAt(f) : data' = [data EXCEPT ![i] = item] /\ state' = state
             \/ \E i \in MissingAt(f) :
                  IF Len(data) < RegistrySize
                  THEN data' = Seqs!InsertAt(data, i, item) /\ state' = state
                  ELSE state' = "done" /\ data' = data
      BY <2>4 DEF Register
    <3>2. NewEntry(tab, f, action) \in Entry
      BY <3>1, NewEntryType, RegistrySizeAssumption DEF TypeOK
    <3>3. ASSUME NEW i \in FoundAt(f), data' = [data EXCEPT ![i] = item]
          PROVE  RegistryInv'
      <4>1. DOMAIN data' = DOMAIN data /\ \A j \in DOMAIN data : data'[j].fd = data[j].fd
        BY <3>3 DEF FoundAt
      <4>. QED
        BY <1>3, <3>1, <4>1, SameNumbers
    <3>4. ASSUME NEW i \in MissingAt(f), Len(data) < RegistrySize,
                 data' = Seqs!InsertAt(data, i, item)
          PROVE  RegistryInv'
      BY <1>3, <3>1, <3>2, <3>4, InsertKeepsOrder
    <3>5. CASE state' = "done" /\ data' = data
      BY <1>2, <1>3, <3>1, <3>5
    <3>. QED
      BY <3>1, <3>3, <3>4, <3>5
  <2>5. CASE RegisterNew
    <3>1. /\ state' = "live" /\ state = "live" /\ tab' = tab /\ data' = data
          /\ walk' = [next |-> 0, index |-> 1, end |-> Len(data)]
      BY <2>5 DEF RegisterNew
    <3>2. walking' /\ Shown' = Len(data)
      BY <3>1 DEF walking, NoWalk, Shown
    <3>3. StrictlyOrdered'
      BY <1>3, <3>1, <3>2 DEF RegistryInv, StrictlyOrdered, OneEntryEach, Shown
    <3>4. \A f \in Fd : ~(f < 0)
      BY DEF Fd
    <3>5. Pushed' = {} /\ \A i \in 1 .. Len(data) : ~(i < 1) /\ data[i].fd \in Fd
      BY <1>0, <3>1, ItemType DEF Pushed
    <3>6. WalkInv'
      BY <1>0, <3>1, <3>4, <3>5 DEF RegistryInv, WalkInv
    <3>. QED
      BY <3>3, <3>6 DEF RegistryInv
  <2>6. CASE OverrideAndClose
    BY <1>2, <1>3, <2>6 DEF OverrideAndClose
  <2>7. ASSUME NEW forkType \in ForkType, Execute(forkType) \/ ExecuteFails(forkType)
        PROVE  RegistryInv'
    <3>1. PICK n : data' = DataAfter(n, forkType)
      BY <2>7 DEF Execute, ExecuteFails
    <3>2. DOMAIN data' = DOMAIN data /\ \A j \in DOMAIN data : data'[j].fd = data[j].fd
      BY <1>0, <3>1, ItemType DEF DataAfter, Item
    <3>3. walk' = walk /\ (state' = "live" => state = "live")
      BY <2>7 DEF Execute, ExecuteFails, MayExecute, After
    <3>. QED
      BY <1>3, <3>2, <3>3, SameNumbers
  <2>. QED
    BY <1>3, <2>1, <2>2, <2>3, <2>4, <2>5, <2>6, <2>7 DEF Operation
<1>4. CASE walking /\ state = "live" /\ WalkStep
  <2>1. ASSUME NEW f \in Fd, VisitRegistered(f) \/ VisitNew(f) PROVE RegistryInv'
    BY <1>4, <2>1, VisitRegisteredStep, VisitNewStep
  <2>2. ASSUME NEW f \in Fd, VisitFull(f) PROVE RegistryInv'
    BY <1>4, <2>2 DEF VisitFull, RegistryInv, StrictlyOrdered, OneEntryEach, WalkInv, Shown,
                      walking, Pushed, FoundAt, NewItem
  <2>3. ASSUME NEW f \in Fd, VisitRefused(f) PROVE RegistryInv'
    <3>1. data' = data /\ ~ walking' /\ state' # "live"
      BY <2>3 DEF VisitRefused, walking
    <3>2. OneEntryEach' /\ Len(data') <= RegistrySize
      BY <3>1 DEF RegistryInv, StrictlyOrdered, OneEntryEach, WalkInv
    <3>. QED
      BY <3>1, <3>2, SettledStep
  <2>4. CASE WalkEnds
    BY <1>4, <2>4, WalkEndsStep
  <2>. QED
    BY <1>4, <2>1, <2>2, <2>3, <2>4 DEF WalkStep
<1>. QED
  BY <1>1, <1>3, <1>4 DEF Next

(* Descriptors, entries and the index of register_new are well typed, for  *)
(* every size of the table and of the registry.                            *)
THEOREM TypeCorrect == Spec => []TypeOK
<1>1. Init => TypeOK /\ RegistryInv
  BY InitTypeOK, InitRegistryInv
<1>2. TypeOK /\ RegistryInv /\ [Next]_vars => TypeOK' /\ RegistryInv'
  BY NextTypeOK, NextRegistryInv DEF RegistryInv, StrictlyOrdered
<1>. QED
  BY <1>1, <1>2, PTL DEF Spec

(* The inductive invariant of the vector: no descriptor has two entries,   *)
(* what is searched is in order (the assertion at the top of register_new  *)
(* never fails), and register_new has an entry for everything it has seen. *)
THEOREM VectorInOrder == Spec => []RegistryInv
<1>1. Init => TypeOK /\ RegistryInv
  BY InitTypeOK, InitRegistryInv
<1>2. TypeOK /\ RegistryInv /\ [Next]_vars => TypeOK' /\ RegistryInv'
  BY NextTypeOK, NextRegistryInv DEF RegistryInv, StrictlyOrdered
<1>. QED
  BY <1>1, <1>2, PTL DEF Spec

-----------------------------------------------------------------------------
(* The map a vector stands for.                                            *)

LEMMA NoEntryIsNone == NoEntry \notin Entry
  BY DEF NoEntry, Entry, Kind, ServerKind

LEMMA Front ==
  ASSUME NEW S, NEW s \in Seq(S), NEW n \in 0 .. Len(s)
  PROVE  /\ SubSeq(s, 1, n) \in Seq(S) /\ DOMAIN SubSeq(s, 1, n) = 1 .. n
         /\ 1 .. n \subseteq DOMAIN s
         /\ \A i \in 1 .. n : SubSeq(s, 1, n)[i] = s[i]
  OBVIOUS

LEMMA MapEntries ==
  ASSUME NEW items \in Seq(Item), NEW n \in 0 .. Len(items),
         \A i, j \in DOMAIN items : items[i].fd = items[j].fd => i = j
  PROVE  /\ MapOf(SubSeq(items, 1, n)) \in Registry
         /\ \A i \in 1 .. n : MapOf(SubSeq(items, 1, n))[items[i].fd] = items[i].entry
         /\ \A f \in Fd : IF \E i \in 1 .. n : items[i].fd = f
                           THEN HasEntry(MapOf(SubSeq(items, 1, n)), f)
                           ELSE MapOf(SubSeq(items, 1, n))[f] = NoEntry
<1>. DEFINE front == SubSeq(items, 1, n)
            at(f) == {i \in DOMAIN front : front[i].fd = f}
<1>1. /\ DOMAIN front = 1 .. n /\ 1 .. n \subseteq DOMAIN items
      /\ \A i \in 1 .. n : front[i] = items[i]
  BY Front
<1>. HIDE DEF front
<1>2. \A i \in 1 .. n : items[i].fd \in Fd /\ items[i].entry \in Entry
  <2>1. \A i \in DOMAIN items : items[i] \in Item
    BY Element
  <2>. QED
    BY <1>1, <2>1 DEF Item
<1>3. MapOf(front) = [f \in Fd |-> IF at(f) = {} THEN NoEntry
                                  ELSE front[CHOOSE i \in at(f) : TRUE].entry]
  BY DEF MapOf
<1>4. ASSUME NEW i \in 1 .. n
      PROVE  MapOf(front)[items[i].fd] = items[i].entry
  <2>1. at(items[i].fd) = {i}
    BY <1>1
  <2>2. (CHOOSE j \in at(items[i].fd) : TRUE) = i
    BY <2>1
  <2>. HIDE DEF at
  <2>3. at(items[i].fd) # {} /\ items[i].fd \in Fd
    BY <1>2, <2>1
  <2>4. MapOf(front)[items[i].fd] = front[CHOOSE j \in at(items[i].fd) : TRUE].entry
    BY <1>3, <2>3, Zenon
  <2>. QED
    BY <1>1, <2>2, <2>4, Zenon
<1>5. ASSUME NEW f \in Fd, \A i \in 1 .. n : items[i].fd # f
      PROVE  MapOf(front)[f] = NoEntry
  <2>1. at(f) = {}
    BY <1>1, <1>5
  <2>. QED
    BY <1>3, <2>1
<1>6. ASSUME NEW f \in Fd
      PROVE  /\ MapOf(front)[f] \in Entry \cup {NoEntry}
             /\ (\E i \in 1 .. n : items[i].fd = f) => MapOf(front)[f] \in Entry
  BY <1>2, <1>4, <1>5
<1>7. MapOf(front) \in Registry
  BY <1>3, <1>6 DEF Registry
<1>8. \A f \in Fd : IF \E i \in 1 .. n : items[i].fd = f
                    THEN HasEntry(MapOf(front), f) ELSE MapOf(front)[f] = NoEntry
  BY <1>5, <1>6, NoEntryIsNone DEF HasEntry
<1>. QED
  BY <1>4, <1>7, <1>8 DEF front

(* Two maps are the same if they have the same entries.                    *)
LEMMA MapIs ==
  ASSUME NEW items \in Seq(Item), NEW n \in 0 .. Len(items),
         \A i, j \in DOMAIN items : items[i].fd = items[j].fd => i = j,
         NEW reg, reg = [f \in Fd |-> reg[f]],
         \A i \in 1 .. n : reg[items[i].fd] = items[i].entry,
         \A f \in Fd : (\A i \in 1 .. n : items[i].fd # f) => reg[f] = NoEntry
  PROVE  MapOf(SubSeq(items, 1, n)) = reg
<1>. DEFINE map == MapOf(SubSeq(items, 1, n))
<1>1. map = [f \in Fd |-> map[f]]
  BY DEF MapOf
<1>2. /\ \A i \in 1 .. n : map[items[i].fd] = items[i].entry
      /\ \A f \in Fd : (\A i \in 1 .. n : items[i].fd # f) => map[f] = NoEntry
  BY MapEntries
<1>. HIDE DEF map
<1>3. \A f \in Fd : map[f] = reg[f]
  BY <1>2
<1>4. map = reg
  BY <1>1, <1>3
<1>. QED
  BY <1>4 DEF map

LEMMA AsMapEntries ==
  ASSUME TypeOK, RegistryInv
  PROVE  /\ AsMap \in Registry
         /\ Shown \in 0 .. Len(data) /\ 1 .. Shown \subseteq DOMAIN data
         /\ \A i \in 1 .. Shown : data[i].fd \in Fd /\ AsMap[data[i].fd] = data[i].entry
         /\ \A f \in Fd : HasEntry(AsMap, f) <=> \E i \in 1 .. Shown : data[i].fd = f
         /\ \A f \in Fd : ~ HasEntry(AsMap, f) => AsMap[f] = NoEntry
<1>1. data \in Seq(Item) /\ Len(data) \in Nat /\ Shown \in 0 .. Len(data)
  BY WalkFacts DEF TypeOK, Shown
<1>2. \A i, j \in DOMAIN data : data[i].fd = data[j].fd => i = j
  BY DEF RegistryInv, StrictlyOrdered, OneEntryEach
<1>3. /\ AsMap \in Registry
      /\ \A i \in 1 .. Shown : AsMap[data[i].fd] = data[i].entry
      /\ \A f \in Fd : IF \E i \in 1 .. Shown : data[i].fd = f
                        THEN HasEntry(AsMap, f) ELSE AsMap[f] = NoEntry
  BY <1>1, <1>2, MapEntries, Zenon DEF AsMap
<1>4. 1 .. Shown \subseteq DOMAIN data
  BY <1>1
<1>. QED
  BY <1>1, <1>3, <1>4, ItemType DEF HasEntry

-----------------------------------------------------------------------------
(* audit.                                                                  *)

LEMMA FdFinite == Fd \in SUBSET Int /\ IsFiniteSet(Fd)
  BY RegistryAssumption, FS_Interval DEF Fd

(* The positions and the numbers found there are in the same order.        *)
LEMMA RankOfNumber ==
  ASSUME TypeOK, OneEntryEach, Ordered, NEW D \in SUBSET DOMAIN data, NEW i \in D
  PROVE  Rank(D, i) = Rank(Numbers(D), data[i].fd)
<1>. DEFINE E == {j \in D : j <= i}
<1>1. \A j \in DOMAIN data : data[j].fd \in Int /\ j \in Int
  BY ItemType DEF TypeOK
<1>2. \A j \in D : j \in E <=> data[j].fd <= data[i].fd
  BY <1>1 DEF Ordered
<1>3. E \in SUBSET DOMAIN data
  OBVIOUS
<1>. HIDE DEF E
<1>4. Numbers(E) = {f \in Numbers(D) : f <= data[i].fd}
  <2>1. E \subseteq D
    BY DEF E
  <2>. QED
    BY <1>2, <2>1 DEF Numbers
<1>5. Cardinality(Numbers(E)) = Cardinality(E)
  BY <1>3, NumbersCount
<1>. QED
  BY <1>4, <1>5, Zenon DEF Rank, E


(* The n-th live entry and the n-th open descriptor have the same number   *)
(* for every n just when the sets of numbers are the same.                 *)
LEMMA AuditMeaning ==
  ASSUME TypeOK, RegistryInv, state = "live", ~ walking
  PROVE  Audit <=> AuditPasses(AsMap, tab)
<1>. DEFINE live == {i \in DOMAIN data : ~ Closed(data[i].entry)}
            open == {f \in Fd : IsOpen(tab, f)}
            N == Numbers(live)
<1>1. OneEntryEach /\ Ordered /\ Shown = Len(data) /\ DOMAIN data = 1 .. Len(data)
  BY LiveOrdered DEF RegistryInv, StrictlyOrdered, Shown, TypeOK
<1>2. \A i \in DOMAIN data : data[i].fd \in Fd /\ AsMap[data[i].fd] = data[i].entry
  BY <1>1, AsMapEntries
<1>3. Live(AsMap) = N
  <2>1. \A f \in Fd : HasEntry(AsMap, f) <=> \E i \in DOMAIN data : data[i].fd = f
    BY <1>1, AsMapEntries
  <2>. QED
    BY <1>2, <2>1 DEF Live, Numbers
<1>4. /\ IsFiniteSet(live) /\ live \in SUBSET Int
      /\ IsFiniteSet(N) /\ N \in SUBSET Int /\ Cardinality(N) = Cardinality(live)
  <2>1. live \in SUBSET DOMAIN data
    OBVIOUS
  <2>. QED
    BY <1>1, <2>1, NumbersCount
<1>5. IsFiniteSet(open) /\ open \in SUBSET Int
  BY FdFinite, FS_Subset
<1>6. /\ live \in SUBSET DOMAIN data /\ N = {data[i].fd : i \in live}
      /\ \A i \in live : Rank(live, i) = Rank(N, data[i].fd)
  BY <1>1, RankOfNumber DEF Numbers
<1>7. Audit <=> /\ Cardinality(live) = Cardinality(open)
                /\ \A n \in 1 .. Cardinality(open) :
                     /\ data[Nth(live, n)].fd = Nth(open, n)
                     /\ data[Nth(live, n)].entry.kind = tab[Nth(open, n)].kind
  <2>1. /\ Len(Select(data, live)) = Cardinality(live)
        /\ \A n \in 1 .. Cardinality(live) : Select(data, live)[n] = data[Nth(live, n)]
    BY <1>4, SelectElements DEF Select
  <2>2. /\ Cardinality(open) \in Nat /\ DOMAIN Ascending(open) = 1 .. Cardinality(open)
        /\ \A n \in 1 .. Cardinality(open) : Ascending(open)[n] = Nth(open, n)
    BY <1>5, FS_CardinalityType DEF Ascending
  <2>3. Len(Ascending(open)) = Cardinality(open)
    BY <2>2
  <2>4. Audit <=> /\ Len(Select(data, live)) = Len(Ascending(open))
                  /\ \A n \in DOMAIN Ascending(open) :
                       /\ Select(data, live)[n].fd = Ascending(open)[n]
                       /\ Select(data, live)[n].entry.kind = tab[Ascending(open)[n]].kind
    BY Zenon DEF Audit
  <2>. HIDE DEF live, open
  <2>. QED
    BY <2>1, <2>2, <2>3, <2>4
<1>8. AuditPasses(AsMap, tab)
        <=> N = open /\ \A i \in live : data[i].entry.kind = tab[data[i].fd].kind
  <2>1. AuditPasses(AsMap, tab)
          <=> N = open /\ \A f \in N : AsMap[f].kind = tab[f].kind
    BY <1>3 DEF AuditPasses
  <2>. HIDE DEF live, open, N
  <2>2. (\A f \in N : AsMap[f].kind = tab[f].kind)
          <=> \A i \in live : data[i].entry.kind = tab[data[i].fd].kind
    BY <1>2, <1>6
  <2>. QED
    BY <2>1, <2>2
<1>. HIDE DEF live, open, N
<1>9. ASSUME NEW n \in 1 .. Cardinality(live)
      PROVE  Nth(live, n) \in live /\ data[Nth(live, n)].fd = Nth(N, n)
  <2>1. Nth(live, n) \in live /\ Rank(live, Nth(live, n)) = n
    BY <1>4, NthType
  <2>2. data[Nth(live, n)].fd \in N /\ Rank(N, data[Nth(live, n)].fd) = n
    BY <1>6, <2>1
  <2>3. Nth(N, Rank(N, data[Nth(live, n)].fd)) = data[Nth(live, n)].fd
    BY <1>4, <2>2, NthOfRank
  <2>. QED
    BY <2>1, <2>2, <2>3
<1>10. ASSUME AuditPasses(AsMap, tab)
       PROVE  Audit
  BY <1>4, <1>7, <1>8, <1>9, <1>10
<1>11. ASSUME Audit
       PROVE  AuditPasses(AsMap, tab)
  <2>1. Cardinality(live) = Cardinality(open) /\ Cardinality(N) = Cardinality(open)
    BY <1>4, <1>7, <1>11
  <2>2. \A n \in 1 .. Cardinality(open) : Nth(N, n) = Nth(open, n)
    BY <1>7, <1>9, <1>11, <2>1
  <2>3. ASSUME NEW f \in N PROVE f \in open
    <3>1. Rank(N, f) \in 1 .. Cardinality(open) /\ Nth(N, Rank(N, f)) = f
      BY <1>4, <2>1, RankType, NthOfRank
    <3>. QED
      BY <1>5, <2>2, <3>1, NthType
  <2>4. ASSUME NEW f \in open PROVE f \in N
    <3>1. Rank(open, f) \in 1 .. Cardinality(open) /\ Nth(open, Rank(open, f)) = f
      BY <1>5, RankType, NthOfRank
    <3>. QED
      BY <1>4, <2>1, <2>2, <3>1, NthType
  <2>5. ASSUME NEW i \in live PROVE data[i].entry.kind = tab[data[i].fd].kind
    <3>1. Rank(live, i) \in 1 .. Cardinality(open) /\ Nth(live, Rank(live, i)) = i
      BY <1>4, <2>1, RankType, NthOfRank
    <3>. QED
      BY <1>7, <1>11, <3>1
  <2>. QED
    BY <1>8, <2>3, <2>4, <2>5
<1>. QED
  BY <1>10, <1>11

(* What audit compares, position by position, decides whether the live     *)
(* entries are the open descriptors.                                       *)
THEOREM AuditIsRight == Spec => []AuditDecides
<1>1. Init => TypeOK /\ RegistryInv
  BY InitTypeOK, InitRegistryInv
<1>2. TypeOK /\ RegistryInv /\ [Next]_vars => TypeOK' /\ RegistryInv'
  BY NextTypeOK, NextRegistryInv DEF RegistryInv, StrictlyOrdered
<1>3. TypeOK /\ RegistryInv => AuditDecides
  BY AuditMeaning DEF AuditDecides
<1>. QED
  BY <1>1, <1>2, <1>3, PTL DEF Spec


-----------------------------------------------------------------------------
(* The operators of FdRegistry as module RegistryMap has them are those of  *)
(* this module.                                                            *)

LEMMA SameTables ==
  /\ Map!Fd = Fd /\ Map!Stdio = Stdio /\ Map!Free = Free /\ Map!Table = Table
  /\ \A t, f : Map!IsOpen(t, f) <=> IsOpen(t, f)
  /\ \A t, f : Map!IsLowestFree(t, f) <=> IsLowestFree(t, f)
  /\ \A t : Map!HasFree(t) <=> HasFree(t)
  /\ \A t, f, kind : Map!Opened(t, f, kind) = Opened(t, f, kind)
  /\ \A t, f : Map!ClosedFd(t, f) = ClosedFd(t, f)
  /\ \A t : Map!WithDevNull(t) = WithDevNull(t)
  /\ \A t : Map!SyncFdState(t) = SyncFdState(t)
  BY Zenon DEF Fd, Stdio, Free, Table, Map!Fd, Map!Stdio, Map!Free, Map!Table,
     IsOpen, IsLowestFree, HasFree, LowestFree, Opened, ClosedFd, WithDevNull, SyncFdState,
     Map!IsOpen, Map!IsLowestFree, Map!HasFree, Map!LowestFree, Map!Opened, Map!ClosedFd,
     Map!WithDevNull, Map!SyncFdState, Description, Kind, ServerKind,
     Map!Description, Map!Kind, Map!ServerKind

LEMMA SameEntries ==
  /\ Map!Entry = Entry /\ Map!NoEntry = NoEntry /\ Map!Registry = Registry
  /\ Map!ForkType = ForkType
  /\ \A reg, f : Map!HasEntry(reg, f) <=> HasEntry(reg, f)
  /\ \A t, f, action : Map!NewEntry(t, f, action) = NewEntry(t, f, action)
  /\ \A entry : Map!Closed(entry) <=> Closed(entry)
  /\ \A reg, t, f, action : Map!CanRegister(reg, t, f, action) <=> CanRegister(reg, t, f, action)
  /\ \A reg, t, f, action : Map!Registered(reg, t, f, action) = Registered(reg, t, f, action)
  /\ \A reg, f : Map!Removed(reg, f) = Removed(reg, f)
  BY Zenon DEF Fd, Map!Fd, Entry, Kind, ServerKind, Action, NoEntry, Registry, ForkType, HasEntry,
     NewEntry, Closed, FileKind, CanRegister, Registered, Removed, Map!Entry, Map!Kind,
     Map!ServerKind, Map!Action, Map!NoEntry, Map!Registry, Map!ForkType, Map!HasEntry,
     Map!NewEntry, Map!Closed, Map!FileKind, Map!CanRegister, Map!Registered, Map!Removed

LEMMA SameSweeps ==
  /\ \A reg, forkType, stop : Map!Swept(reg, forkType, stop) = Swept(reg, forkType, stop)
  /\ \A t, reg, forkType, stop :
       /\ Map!SweptTable(t, reg, forkType, stop) = SweptTable(t, reg, forkType, stop)
       /\ Map!SweepPasses(t, reg, forkType, stop) <=> SweepPasses(t, reg, forkType, stop)
       /\ Map!SweepFailsAt(t, reg, forkType, stop) <=> SweepFailsAt(t, reg, forkType, stop)
  /\ \A reg, forkType, stop :
       Map!SweptRegistry(reg, forkType, stop) = SweptRegistry(reg, forkType, stop)
<1>1. /\ \A entry, forkType : Map!Acts(entry, forkType) <=> Acts(entry, forkType)
      /\ \A entry : Map!AfterExecute(entry) = AfterExecute(entry)
      /\ \A t, reg, f : Map!MustFail(t, reg, f) <=> MustFail(t, reg, f)
      /\ \A t, reg, f : Map!MayFail(t, reg, f) <=> MayFail(t, reg, f)
      /\ Map!Fd = Fd
      /\ \A reg, f : Map!HasEntry(reg, f) <=> HasEntry(reg, f)
  BY Zenon DEF Acts, AfterExecute, MustFail, MayFail, IsOpen, Free, Map!Acts, Map!AfterExecute,
     Map!MustFail, Map!MayFail, Map!IsOpen, Map!Free, Map!Fd, Fd, HasEntry, NoEntry,
     Map!HasEntry, Map!NoEntry
<1>2. ASSUME NEW reg, NEW forkType, NEW stop
      PROVE  /\ Map!Swept(reg, forkType, stop) = Swept(reg, forkType, stop)
             /\ Map!SweptRegistry(reg, forkType, stop) = SweptRegistry(reg, forkType, stop)
  <2>1. Map!Swept(reg, forkType, stop) = Swept(reg, forkType, stop)
    BY <1>1 DEF Swept, Map!Swept
  <2>. QED
    BY <1>1, <2>1, Zenon DEF SweptRegistry, Map!SweptRegistry
<1>3. ASSUME NEW t, NEW reg, NEW forkType, NEW stop
      PROVE  /\ Map!SweptTable(t, reg, forkType, stop) = SweptTable(t, reg, forkType, stop)
             /\ Map!SweepPasses(t, reg, forkType, stop) <=> SweepPasses(t, reg, forkType, stop)
             /\ Map!SweepFailsAt(t, reg, forkType, stop) <=> SweepFailsAt(t, reg, forkType, stop)
  <2>1. Map!SweptTable(t, reg, forkType, stop) = SweptTable(t, reg, forkType, stop)
    BY <1>1, <1>2, Zenon DEF SweptTable, Map!SweptTable
  <2>2. ASSUME NEW s
        PROVE  Map!SweepPasses(t, reg, forkType, s) <=> SweepPasses(t, reg, forkType, s)
    <3>1. Map!Swept(reg, forkType, s) = Swept(reg, forkType, s)
      BY <1>2
    <3>. QED
      BY <1>1, <3>1, Zenon DEF SweepPasses, Map!SweepPasses
  <2>3. Map!SweepFailsAt(t, reg, forkType, stop) <=> SweepFailsAt(t, reg, forkType, stop)
    <3>1. Map!Swept(reg, forkType, MaxFd + 1) = Swept(reg, forkType, MaxFd + 1)
      BY <1>2
    <3>. QED
      BY <1>1, <2>2, <3>1, Zenon DEF SweepFailsAt, Map!SweepFailsAt
  <2>. QED
    BY <2>1, <2>2, <2>3
<1>. QED
  BY <1>2, <1>3

LEMMA SameRegistration ==
  /\ \A reg, t : Map!Unregistered(reg, t) = Unregistered(reg, t)
  /\ \A reg, t : Map!Refused(reg, t) = Refused(reg, t)
  /\ \A reg, t : Map!NewlyRegistered(reg, t) = NewlyRegistered(reg, t)
  /\ \A reg, t : Map!ShutdownTable(reg, t) = ShutdownTable(reg, t)
  BY Zenon DEF Fd, NoEntry, HasEntry, Free, IsOpen, IsRegistered, Unregistered,
     DefaultAction, Refused, NewEntry, NewlyRegistered, Overridden, OverrideFails,
     OverriddenTable, ShutdownTable, SyncFdState,
     Map!Fd, Map!NoEntry, Map!HasEntry, Map!Free, Map!IsOpen, Map!IsRegistered,
     Map!Unregistered, Map!DefaultAction, Map!Refused, Map!NewEntry, Map!NewlyRegistered,
     Map!Overridden, Map!OverrideFails, Map!OverriddenTable, Map!ShutdownTable, Map!SyncFdState

LEMMA SameCardinality == \A S : Map!Cardinality(S) = Cardinality(S)
  BY Zenon DEF Cardinality, Map!Cardinality, IsFiniteSet, Map!IsFiniteSet

-----------------------------------------------------------------------------
(* The operations, one by one.                                             *)

(* What a step leaves is a given map if that map has its entries.          *)
LEMMA NewMap ==
  ASSUME TypeOK', RegistryInv', NEW reg, reg = [f \in Fd |-> reg[f]],
         \A i \in 1 .. Shown' : reg[data'[i].fd] = data'[i].entry,
         \A f \in Fd : (\A i \in 1 .. Shown' : data'[i].fd # f) => reg[f] = NoEntry
  PROVE  AsMap' = reg
<1>1. data' \in Seq(Item) /\ Len(data') \in Nat
  BY DEF TypeOK
<1>2. Shown' \in 0 .. Len(data')
  BY <1>1 DEF Shown, TypeOK, RegistryInv, WalkInv
<1>3. \A i, j \in DOMAIN data' : data'[i].fd = data'[j].fd => i = j
  BY DEF RegistryInv, StrictlyOrdered, OneEntryEach
<1>4. MapOf(SubSeq(data', 1, Shown')) = reg
  BY <1>1, <1>2, <1>3, MapIs
<1>. QED
  BY <1>4 DEF AsMap

LEMMA MapUnchanged ==
  ASSUME TypeOK, RegistryInv, TypeOK', RegistryInv', Shown' = Shown,
         \A i \in 1 .. Shown : data'[i] = data[i]
  PROVE  AsMap' = AsMap
<1>1. AsMap = [f \in Fd |-> AsMap[f]]
  BY AsMapEntries DEF Registry
<1>2. \A i \in 1 .. Shown' : AsMap[data'[i].fd] = data'[i].entry
  BY AsMapEntries
<1>3. ASSUME NEW f \in Fd, \A i \in 1 .. Shown' : data'[i].fd # f
      PROVE  AsMap[f] = NoEntry
  BY <1>3, AsMapEntries
<1>. QED
  BY <1>1, <1>2, <1>3, NewMap

(* Between the operations the whole vector shows.                          *)
LEMMA SettledMap ==
  ASSUME TypeOK, RegistryInv, ~ walking
  PROVE  /\ AsMap = [f \in Fd |-> AsMap[f]]
         /\ Len(data) \in Nat /\ DOMAIN data = 1 .. Len(data)
         /\ \A i \in DOMAIN data : /\ data[i].fd \in Fd /\ data[i].entry \in Entry
                                   /\ AsMap[data[i].fd] = data[i].entry
         /\ \A f \in Fd : HasEntry(AsMap, f) <=> FoundAt(f) # {}
         /\ \A f \in Fd : ~ HasEntry(AsMap, f) => AsMap[f] = NoEntry
         /\ {f \in Fd : HasEntry(AsMap, f)} = Numbers(DOMAIN data)
         /\ Cardinality({f \in Fd : HasEntry(AsMap, f)}) = Len(data)
<1>1. Len(data) \in Nat /\ DOMAIN data = 1 .. Len(data) /\ Shown = Len(data)
  BY DEF TypeOK, Shown
<1>2. \A f \in Fd : HasEntry(AsMap, f) <=> \E i \in DOMAIN data : data[i].fd = f
  BY <1>1, AsMapEntries
<1>3. {f \in Fd : HasEntry(AsMap, f)} = Numbers(DOMAIN data)
  BY <1>2, ItemType DEF Numbers
<1>4. Cardinality(Numbers(DOMAIN data)) = Len(data)
  BY AllNumbers DEF RegistryInv, StrictlyOrdered
<1>5. \A f \in Fd : HasEntry(AsMap, f) <=> FoundAt(f) # {}
  BY <1>2 DEF FoundAt
<1>6. \A i \in DOMAIN data : AsMap[data[i].fd] = data[i].entry
  BY <1>1, AsMapEntries
<1>7. \A i \in DOMAIN data : data[i].fd \in Fd /\ data[i].entry \in Entry
  BY ItemType
<1>8. AsMap = [f \in Fd |-> AsMap[f]] /\ \A f \in Fd : ~ HasEntry(AsMap, f) => AsMap[f] = NoEntry
  BY AsMapEntries DEF Registry
<1>. QED
  BY <1>1, <1>3, <1>4, <1>5, <1>6, <1>7, <1>8

(* What an operation that is over leaves is a given map if that map has    *)
(* its entries.                                                            *)
LEMMA SettledNewMap ==
  ASSUME TypeOK', RegistryInv', ~ walking', NEW reg, reg = [f \in Fd |-> reg[f]],
         \A i \in DOMAIN data' : reg[data'[i].fd] = data'[i].entry,
         \A f \in Fd : (\A i \in DOMAIN data' : data'[i].fd # f) => reg[f] = NoEntry
  PROVE  AsMap' = reg
<1>1. Shown' = Len(data') /\ DOMAIN data' = 1 .. Len(data')
  BY DEF Shown, TypeOK
<1>. QED
  BY <1>1, NewMap

LEMMA OpenMaps ==
  ASSUME AsMap' = AsMap, NEW f \in Fd, NEW kind \in OpenKinds, Open(f, kind)
  PROVE  Map!Open(f, kind)
  BY SameTables, Zenon DEF Open, Map!Open

LEMMA CloseMaps ==
  ASSUME AsMap' = AsMap, NEW f \in Fd, Close(f)
  PROVE  Map!Close(f)
  BY SameTables, Zenon DEF Close, Map!Close

LEMMA NewEntryIsOne ==
  ASSUME NEW t, NEW f, NEW action \in Action
  PROVE  NewEntry(t, f, action) # NoEntry
  BY DEF NewEntry, NoEntry, Action

LEMMA RegisterMaps ==
  ASSUME TypeOK, RegistryInv, TypeOK', RegistryInv', ~ walking,
         NEW f \in Fd, NEW action \in CallerActions, Register(f, action)
  PROVE  Map!Register(f, action)
<1>. DEFINE item == [fd |-> f, entry |-> NewEntry(tab, f, action)]
            reg == [AsMap EXCEPT ![f] = NewEntry(tab, f, action)]
<1>1. state = "live" /\ IsOpen(tab, f) /\ UNCHANGED <<tab, walk>> /\ ~ walking'
  BY DEF Register, walking
<1>2. /\ AsMap = [g \in Fd |-> AsMap[g]]
      /\ \A i \in DOMAIN data : data[i].fd \in Fd /\ AsMap[data[i].fd] = data[i].entry
      /\ \A g \in Fd : HasEntry(AsMap, g) <=> FoundAt(g) # {}
      /\ \A g \in Fd : ~ HasEntry(AsMap, g) => AsMap[g] = NoEntry
      /\ Cardinality({g \in Fd : HasEntry(AsMap, g)}) = Len(data)
      /\ OneEntryEach /\ Ordered
  BY <1>1, SettledMap, LiveOrdered DEF RegistryInv, StrictlyOrdered
<1>3. /\ reg = [g \in Fd |-> reg[g]] /\ reg[f] = item.entry
      /\ \A g \in Fd : g # f => reg[g] = AsMap[g]
      /\ reg = Registered(AsMap, tab, f, action)
      /\ item.fd = f /\ NewEntry(tab, f, action) # NoEntry
  BY <1>2, NewEntryIsOne, RegistrySizeAssumption DEF Registered
<1>. HIDE DEF reg, item
<1>4. /\ Map!Register(f, action) <=>
           /\ CanRegister(AsMap, tab, f, action)
           /\ IF HasEntry(AsMap, f) \/ Len(data) < RegistrySize
              THEN AsMap' = reg /\ UNCHANGED state
              ELSE state' = "done" /\ AsMap' = AsMap
  <2>1. Map!Cardinality(Map!Entries) = Len(data)
    BY <1>2, SameTables, SameEntries, SameCardinality, Zenon DEF Map!Entries
  <2>2. /\ Map!IsOpen(tab, f) <=> IsOpen(tab, f)
        /\ Map!CanRegister(AsMap, tab, f, action) <=> CanRegister(AsMap, tab, f, action)
        /\ Map!HasEntry(AsMap, f) <=> HasEntry(AsMap, f)
        /\ Map!Registered(AsMap, tab, f, action) = reg
    BY <1>3, SameTables, SameEntries, Zenon
  <2>. QED
    BY <1>1, <2>1, <2>2, Zenon DEF Map!Register
<1>5. ASSUME NEW i \in FoundAt(f), Closed(data[i].entry),
             data' = [data EXCEPT ![i] = item], UNCHANGED state
      PROVE  Map!Register(f, action)
  <2>1. i \in DOMAIN data /\ data[i].fd = f
    BY DEF FoundAt
  <2>2. HasEntry(AsMap, f) /\ CanRegister(AsMap, tab, f, action)
    BY <1>2, <1>5, <2>1 DEF CanRegister
  <2>3. /\ DOMAIN data' = DOMAIN data /\ data'[i] = item
        /\ \A j \in DOMAIN data : j # i => data'[j] = data[j] /\ data[j].fd # f
        /\ \A j \in DOMAIN data : data'[j].fd = data[j].fd
    BY <1>2, <1>3, <1>5, <2>1 DEF OneEntryEach, TypeOK
  <2>4. \A j \in DOMAIN data' : reg[data'[j].fd] = data'[j].entry
    BY <1>2, <1>3, <2>1, <2>3
  <2>5. ASSUME NEW g \in Fd, \A j \in DOMAIN data' : data'[j].fd # g
        PROVE  reg[g] = NoEntry
    <3>1. g # f /\ FoundAt(g) = {}
      BY <2>1, <2>3, <2>5 DEF FoundAt
    <3>. QED
      BY <1>2, <1>3, <3>1
  <2>6. AsMap' = reg
    BY <1>1, <1>3, <2>4, <2>5, SettledNewMap
  <2>. QED
    BY <1>4, <1>5, <2>2, <2>6
<1>6. ASSUME NEW i \in MissingAt(f), action = "Reopen" => tab[f].kind \in FileKind
      PROVE  CanRegister(AsMap, tab, f, action) /\ ~ HasEntry(AsMap, f)
  <2>1. FoundAt(f) = {}
    <3>1. /\ f \in Int /\ DOMAIN data = 1 .. Len(data)
          /\ \A j \in DOMAIN data : data[j].fd \in Int
          /\ \A j \in DOMAIN data : IF j < i THEN data[j].fd < f ELSE data[j].fd > f
      <4>1. f \in Int /\ DOMAIN data = 1 .. Len(data)
        BY DEF Fd, TypeOK
      <4>2. \A j \in DOMAIN data : data[j].fd \in Int
        BY ItemType
      <4>3. \A j \in DOMAIN data : IF j < i THEN data[j].fd < f ELSE data[j].fd > f
        BY <1>2 DEF MissingAt
      <4>. QED
        BY <4>1, <4>2, <4>3
    <3>. QED
      BY <3>1 DEF FoundAt
  <2>. QED
    BY <1>2, <1>6, <2>1 DEF CanRegister
<1>7. ASSUME NEW i \in MissingAt(f), action = "Reopen" => tab[f].kind \in FileKind,
             Len(data) < RegistrySize, data' = Seqs!InsertAt(data, i, item), UNCHANGED state
      PROVE  Map!Register(f, action)
  <2>0. ~ HasEntry(AsMap, f) /\ FoundAt(f) = {}
    BY <1>2, <1>6, <1>7
  <2>1. data \in Seq(Item) /\ i \in 1 .. Len(data) + 1 /\ item \in Item /\ Len(data) \in Nat
    BY <1>1, NewEntryType, RegistrySizeAssumption DEF TypeOK, MissingAt, item, Item
  <2>2. /\ Len(data') = Len(data) + 1
        /\ \A n \in 1 .. Len(data) + 1 :
             data'[n] = IF n < i THEN data[n] ELSE IF n = i THEN item ELSE data[n - 1]
    BY <1>7, <2>1, InsertedItem
  <2>3. DOMAIN data' = 1 .. Len(data) + 1 /\ DOMAIN data = 1 .. Len(data) /\ i \in Int
    BY <2>1, <2>2 DEF TypeOK
  <2>4. \A j \in DOMAIN data : data[j].fd # f
    BY <2>0 DEF FoundAt
  <2>5. data'[i] = item
    BY <2>1, <2>2, <2>3
  <2>6. ASSUME NEW n \in DOMAIN data', n # i
        PROVE  \E j \in DOMAIN data : data'[n] = data[j]
    <3>0. n \in Int
      BY <2>3
    <3>1. CASE n < i
      BY <2>1, <2>2, <2>3, <3>0, <3>1
    <3>2. CASE ~(n < i)
      <4>1. n - 1 \in 1 .. Len(data)
        BY <2>1, <2>3, <2>6, <3>0, <3>2
      <4>. QED
        BY <2>2, <2>3, <2>6, <3>2, <4>1
    <3>. QED
      BY <3>1, <3>2
  <2>7. \A j \in DOMAIN data : \E n \in DOMAIN data' : data'[n] = data[j]
    <3>. SUFFICES ASSUME NEW j \in DOMAIN data
                  PROVE  \E n \in DOMAIN data' : data'[n] = data[j]
      OBVIOUS
    <3>0. j \in Int
      BY <2>3
    <3>1. CASE j < i
      BY <2>1, <2>2, <2>3, <3>0, <3>1
    <3>2. CASE ~(j < i)
      <4>1. j + 1 \in 1 .. Len(data) + 1 /\ ~(j + 1 < i) /\ j + 1 # i /\ (j + 1) - 1 = j
        BY <2>1, <2>3, <3>0, <3>2
      <4>. QED
        BY <2>2, <2>3, <4>1
    <3>. QED
      BY <3>1, <3>2
  <2>8. \A n \in DOMAIN data' : reg[data'[n].fd] = data'[n].entry
    BY <1>2, <1>3, <2>4, <2>5, <2>6
  <2>9. ASSUME NEW g \in Fd, \A n \in DOMAIN data' : data'[n].fd # g
        PROVE  reg[g] = NoEntry
    <3>1. g # f /\ FoundAt(g) = {}
      BY <1>3, <2>1, <2>3, <2>5, <2>7, <2>9 DEF FoundAt
    <3>. QED
      BY <1>2, <1>3, <3>1
  <2>10. AsMap' = reg
    BY <1>1, <1>3, <2>8, <2>9, SettledNewMap
  <2>. QED
    BY <1>4, <1>6, <1>7, <2>10
<1>8. ASSUME NEW i \in MissingAt(f), action = "Reopen" => tab[f].kind \in FileKind,
             ~ (Len(data) < RegistrySize), state' = "done", UNCHANGED data
      PROVE  Map!Register(f, action)
  <2>1. AsMap' = AsMap
    BY <1>1, <1>8 DEF AsMap, Shown, walking
  <2>. QED
    BY <1>4, <1>6, <1>8, <2>1
<1>. QED
  BY <1>5, <1>7, <1>8 DEF Register, item

LEMMA RemoveMaps ==
  ASSUME TypeOK, RegistryInv, TypeOK', RegistryInv', ~ walking, NEW f \in Fd, Remove(f)
  PROVE  Map!Remove(f)
<1>. DEFINE reg == [AsMap EXCEPT ![f] = NoEntry]
<1>1. /\ AsMap = [g \in Fd |-> AsMap[g]]
      /\ \A j \in DOMAIN data : data[j].fd \in Fd /\ AsMap[data[j].fd] = data[j].entry
      /\ \A g \in Fd : HasEntry(AsMap, g) <=> FoundAt(g) # {}
      /\ \A g \in Fd : ~ HasEntry(AsMap, g) => AsMap[g] = NoEntry
      /\ data \in Seq(Item) /\ Len(data) \in Nat /\ DOMAIN data = 1 .. Len(data)
      /\ OneEntryEach
  BY SettledMap DEF RegistryInv, StrictlyOrdered, TypeOK
<1>2. /\ reg = [g \in Fd |-> reg[g]] /\ reg[f] = NoEntry
      /\ \A g \in Fd : g # f => reg[g] = AsMap[g]
      /\ reg = Removed(AsMap, f)
  BY <1>1 DEF Removed
<1>. HIDE DEF reg
<1>3. PICK i \in FoundAt(f) : data' = Seqs!RemoveAt(data, i)
  BY DEF Remove
<1>4. i \in 1 .. Len(data) /\ data[i].fd = f
  BY <1>1 DEF FoundAt
<1>5. /\ Len(data') = Len(data) - 1
      /\ \A n \in 1 .. Len(data) - 1 : data'[n] = IF n < i THEN data[n] ELSE data[n + 1]
  BY <1>1, <1>3, <1>4, Removal
<1>6. DOMAIN data' = 1 .. Len(data) - 1 /\ ~ walking'
  BY <1>5 DEF TypeOK, Remove, walking
<1>7. ASSUME NEW n \in DOMAIN data'
      PROVE  \E j \in DOMAIN data : j # i /\ data'[n] = data[j]
  <2>0. n \in Int
    BY <1>6
  <2>1. CASE n < i
    BY <1>1, <1>5, <1>6, <2>0, <2>1
  <2>2. CASE ~(n < i)
    <3>1. n + 1 \in 1 .. Len(data) /\ n + 1 # i
      BY <1>1, <1>4, <1>6, <2>0, <2>2
    <3>. QED
      BY <1>1, <1>5, <1>6, <2>2, <3>1
  <2>. QED
    BY <2>1, <2>2
<1>8. ASSUME NEW j \in DOMAIN data, j # i
      PROVE  \E n \in DOMAIN data' : data'[n] = data[j]
  <2>0. j \in Int
    BY <1>1
  <2>1. CASE j < i
    <3>1. j \in 1 .. Len(data) - 1
      BY <1>1, <1>4, <2>0, <2>1
    <3>. QED
      BY <1>5, <1>6, <2>1, <3>1
  <2>2. CASE ~(j < i)
    <3>1. j - 1 \in 1 .. Len(data) - 1 /\ ~(j - 1 < i) /\ j - 1 + 1 = j
      BY <1>1, <1>4, <1>8, <2>0, <2>2
    <3>. QED
      BY <1>5, <1>6, <3>1
  <2>. QED
    BY <2>1, <2>2
<1>9. \A n \in DOMAIN data' : reg[data'[n].fd] = data'[n].entry
  BY <1>1, <1>2, <1>4, <1>7 DEF OneEntryEach
<1>10. ASSUME NEW g \in Fd, \A n \in DOMAIN data' : data'[n].fd # g
       PROVE  reg[g] = NoEntry
  <2>1. CASE g = f
    BY <1>2, <2>1
  <2>2. CASE g # f
    <3>1. FoundAt(g) = {}
      BY <1>4, <1>8, <1>10, <2>2 DEF FoundAt
    <3>. QED
      BY <1>1, <1>2, <2>2, <3>1
  <2>. QED
    BY <2>1, <2>2
<1>11. AsMap' = reg
  BY <1>2, <1>6, <1>9, <1>10, SettledNewMap
<1>12. HasEntry(AsMap, f) /\ state # "done" /\ UNCHANGED <<tab, state>>
  BY <1>1 DEF Remove
<1>13. Map!HasEntry(AsMap, f) /\ Map!Removed(AsMap, f) = reg
  BY <1>2, <1>12, SameEntries, Zenon
<1>. QED
  BY <1>11, <1>12, <1>13, Zenon DEF Map!Remove

(* register_new changes nothing that shows until it returns.               *)
LEMMA BeginStutters ==
  ASSUME TypeOK, RegistryInv, ~ walking, RegisterNew
  PROVE  UNCHANGED Map!map
<1>1. walking' /\ walk'.end = Len(data) /\ UNCHANGED <<tab, data, state>>
  BY DEF RegisterNew, walking, NoWalk
<1>2. Shown' = Shown
  BY <1>1 DEF Shown
<1>3. AsMap' = AsMap
  BY <1>1, <1>2 DEF AsMap
<1>. QED
  BY <1>1, <1>3, Zenon DEF Map!map

LEMMA VisitStutters ==
  ASSUME TypeOK, RegistryInv, TypeOK', RegistryInv', walking, state = "live",
         NEW f \in Fd, VisitRegistered(f) \/ VisitNew(f)
  PROVE  UNCHANGED Map!map
<1>1. UNCHANGED <<tab, state>> /\ walking' /\ walk'.end = walk.end
  BY VisitRegisteredStep, VisitNewStep DEF VisitRegistered, VisitNew
<1>2. Shown' = Shown
  BY <1>1 DEF Shown
<1>3. ASSUME NEW i \in 1 .. Shown PROVE data'[i] = data[i]
  <2>1. i \in 1 .. Len(data) /\ data \in Seq(Item)
    BY <1>3, WalkFacts DEF TypeOK
  <2>2. data' = data \/ data' = Append(data, NewItem(f))
    BY Zenon DEF VisitRegistered, VisitNew
  <2>. QED
    BY <2>1, <2>2
<1>4. AsMap' = AsMap
  BY <1>2, <1>3, MapUnchanged
<1>. QED
  BY <1>1, <1>4, Zenon DEF Map!map

-----------------------------------------------------------------------------
(* What register_new has done when it returns, or panics.                  *)

(* The entries that show and those pushed so far.                          *)
LEMMA WalkedMap ==
  ASSUME TypeOK, RegistryInv, walking
  PROVE  /\ AsMap = [g \in Fd |-> AsMap[g]]
         /\ \A i \in 1 .. walk.end : /\ i \in DOMAIN data /\ data[i].fd \in Fd
                                     /\ HasEntry(AsMap, data[i].fd)
                                     /\ AsMap[data[i].fd] = data[i].entry
         /\ \A i \in Pushed : /\ i \in DOMAIN data
                              /\ data[i].fd \in Unregistered(AsMap, tab)
                              /\ data[i].entry = NewItem(data[i].fd).entry
                              /\ DefaultAction(tab[data[i].fd].kind) # "None"
         /\ \A g \in Fd : ~ HasEntry(AsMap, g) => AsMap[g] = NoEntry
<1>1. /\ AsMap = [g \in Fd |-> AsMap[g]]
      /\ Shown = walk.end /\ walk.end \in Nat
      /\ \A i \in DOMAIN data : i \in Int /\ (i \in 1 .. walk.end \/ i \in Pushed)
      /\ 1 .. walk.end \subseteq DOMAIN data /\ Pushed \subseteq DOMAIN data
      /\ \A g \in Fd : ~ HasEntry(AsMap, g) => AsMap[g] = NoEntry
      /\ \A g \in Fd : HasEntry(AsMap, g) <=> \E i \in 1 .. walk.end : data[i].fd = g
      /\ \A i \in 1 .. walk.end : AsMap[data[i].fd] = data[i].entry
  BY AsMapEntries, WalkFacts DEF Registry
<1>2. \A i \in DOMAIN data : data[i].fd \in Fd /\ data[i].entry \in Entry
  BY ItemType
<1>3. ASSUME NEW i \in Pushed
      PROVE  /\ data[i].fd \in Unregistered(AsMap, tab)
             /\ data[i].entry = NewItem(data[i].fd).entry
             /\ DefaultAction(tab[data[i].fd].kind) # "None"
  <2>1. IsOpen(tab, data[i].fd) /\ data[i] = NewItem(data[i].fd)
    BY DEF RegistryInv, WalkInv
  <2>2. i \notin 1 .. walk.end
    BY <1>1 DEF Pushed
  <2>3. ~ HasEntry(AsMap, data[i].fd)
    BY <1>1, <1>2, <2>2 DEF RegistryInv, StrictlyOrdered, OneEntryEach
  <2>4. data[i].fd \in Unregistered(AsMap, tab)
    BY <1>1, <1>2, <2>1, <2>3 DEF Unregistered, IsRegistered
  <2>5. data[i].entry.action # "None"
    BY <1>1, <1>2 DEF Entry, Action
  <2>6. data[i].entry.action = DefaultAction(tab[data[i].fd].kind)
    BY <2>1 DEF NewItem, NewEntry
  <2>. QED
    BY <2>1, <2>4, <2>5, <2>6
<1>4. \A i \in 1 .. walk.end : HasEntry(AsMap, data[i].fd)
  BY <1>1, <1>2
<1>. QED
  BY <1>1, <1>2, <1>3, <1>4

LEMMA RefusedNotSeen ==
  ASSUME TypeOK, RegistryInv, walking, NEW h \in Refused(AsMap, tab)
  PROVE  h \in Fd /\ IsOpen(tab, h) /\ FoundAt(h) = {}
<1>1. /\ h \in Fd /\ IsOpen(tab, h) /\ ~ HasEntry(AsMap, h)
      /\ DefaultAction(tab[h].kind) = "None"
  BY DEF Refused, Unregistered, IsRegistered
<1>2. ASSUME NEW i \in DOMAIN data, data[i].fd = h PROVE FALSE
  <2>1. CASE i \in 1 .. walk.end
    BY <1>1, <1>2, <2>1, WalkedMap
  <2>2. CASE i \in Pushed
    BY <1>1, <1>2, <2>2, WalkedMap
  <2>. QED
    BY <2>1, <2>2, WalkFacts
<1>. QED
  BY <1>1, <1>2 DEF FoundAt

(* Once every unregistered descriptor below the first refused one has been *)
(* pushed, the vector is what register_new makes of the map.               *)
LEMMA AllPushed ==
  ASSUME TypeOK, RegistryInv, walking,
         \A h \in Refused(AsMap, tab) : \A i \in Pushed : data[i].fd < h,
         \A g \in Unregistered(AsMap, tab) :
           (\A h \in Refused(AsMap, tab) : g < h) => FoundAt(g) # {},
         NEW new, new = NewlyRegistered(AsMap, tab)
  PROVE  /\ new = [g \in Fd |-> new[g]]
         /\ \A i \in DOMAIN data : new[data[i].fd] = data[i].entry
         /\ \A g \in Fd : FoundAt(g) = {} => new[g] = NoEntry
         /\ Cardinality({g \in Fd : HasEntry(new, g)}) = Len(data)
<1>1. new = [g \in Fd |-> new[g]]
  BY DEF NewlyRegistered
<1>2. ASSUME NEW g \in Fd
      PROVE  new[g] = IF /\ g \in Unregistered(AsMap, tab)
                         /\ \A h \in Refused(AsMap, tab) : g < h
                      THEN NewItem(g).entry ELSE AsMap[g]
  BY DEF NewlyRegistered, NewItem
<1>3. ASSUME NEW i \in DOMAIN data
      PROVE  new[data[i].fd] = data[i].entry
  <2>1. CASE i \in 1 .. walk.end
    <3>1. data[i].fd \in Fd /\ data[i].fd \notin Unregistered(AsMap, tab)
      BY <2>1, WalkedMap DEF Unregistered, IsRegistered
    <3>. QED
      BY <1>2, <2>1, <3>1, WalkedMap
  <2>2. CASE i \in Pushed
    <3>1. /\ data[i].fd \in Unregistered(AsMap, tab)
          /\ data[i].entry = NewItem(data[i].fd).entry
      BY <2>2, WalkedMap
    <3>2. data[i].fd \in Fd
      BY ItemType
    <3>. QED
      BY <1>2, <2>2, <3>1, <3>2
  <2>. QED
    BY <2>1, <2>2, WalkFacts
<1>4. ASSUME NEW g \in Fd, FoundAt(g) = {}
      PROVE  new[g] = NoEntry
  <2>1. AsMap[g] = NoEntry
    <3>1. ~ \E i \in 1 .. Shown : data[i].fd = g
      BY <1>4, WalkFacts DEF FoundAt
    <3>. QED
      BY <3>1, AsMapEntries
  <2>. QED
    BY <1>2, <1>4, <2>1
<1>5. {g \in Fd : HasEntry(new, g)} = Numbers(DOMAIN data)
  <2>1. \A i \in DOMAIN data : data[i].fd \in Fd /\ data[i].entry # NoEntry
    BY ItemType, NoEntryIsNone
  <2>2. \A g \in Fd : HasEntry(new, g) <=> \E i \in DOMAIN data : data[i].fd = g
    BY <1>3, <1>4, <2>1 DEF HasEntry, FoundAt
  <2>. QED
    BY <2>1, <2>2 DEF Numbers
<1>. QED
  BY <1>1, <1>3, <1>4, <1>5, AllNumbers DEF RegistryInv, StrictlyOrdered

LEMMA RegisterNewIs ==
  ASSUME NEW new, new = NewlyRegistered(AsMap, tab), state = "live", UNCHANGED tab,
         IF Cardinality({f \in Fd : HasEntry(new, f)}) > RegistrySize
         THEN state' = "done" /\ AsMap' = AsMap
         ELSE /\ AsMap' = new
              /\ state' = IF Refused(AsMap, tab) = {} THEN "live" ELSE "refused"
  PROVE  Map!RegisterNew
<1>1. /\ Map!NewlyRegistered(AsMap, tab) = new /\ Map!Refused(AsMap, tab) = Refused(AsMap, tab)
      /\ Map!Fd = Fd
  BY SameRegistration, SameTables, Zenon
<1>2. Map!Cardinality({f \in Map!Fd : Map!HasEntry(new, f)})
        = Cardinality({f \in Fd : HasEntry(new, f)})
  BY <1>1, SameEntries, SameCardinality, Zenon
<1>. QED
  BY <1>1, <1>2, Zenon DEF Map!RegisterNew

LEMMA VisitRefusedMaps ==
  ASSUME TypeOK, RegistryInv, TypeOK', RegistryInv', walking, state = "live",
         NEW f \in Fd, VisitRefused(f)
  PROVE  Map!RegisterNew
<1>. DEFINE new == NewlyRegistered(AsMap, tab)
<1>1. /\ IsNext(f) /\ IsOpen(tab, f) /\ DefaultAction(tab[f].kind) = "None"
      /\ state' = "refused" /\ ~ walking' /\ UNCHANGED <<tab, data>>
  BY DEF VisitRefused, IsNext, walking
<1>2. PICK i \in 1 .. Len(data) + 1 : SkippedTo(f, i) /\ ~ IsAt(f, i)
  BY DEF VisitRefused
<1>3. /\ \A j \in Pushed : data[j].fd < f
      /\ FoundAt(f) = {}
      /\ \A g \in Fd : IsOpen(tab, g) /\ g < f => FoundAt(g) # {}
  BY <1>1, <1>2, InStep
<1>4. f \in Refused(AsMap, tab)
  <2>1. ~ HasEntry(AsMap, f)
    BY <1>3, AsMapEntries DEF FoundAt
  <2>. QED
    BY <1>1, <2>1 DEF Refused, Unregistered, IsRegistered
<1>5. ASSUME NEW h \in Refused(AsMap, tab), NEW j \in Pushed
      PROVE  data[j].fd < h
  <2>1. h \in Fd /\ IsOpen(tab, h) /\ FoundAt(h) = {}
    BY RefusedNotSeen
  <2>2. h \in Int /\ f \in Int /\ data[j].fd \in Int /\ data[j].fd < f /\ ~(h < f)
    BY <1>3, <2>1, WalkFacts DEF Fd
  <2>. QED
    BY <2>2
<1>6. ASSUME NEW g \in Unregistered(AsMap, tab), \A h \in Refused(AsMap, tab) : g < h
      PROVE  FoundAt(g) # {}
  BY <1>3, <1>4, <1>6 DEF Unregistered
<1>7. /\ new = [g \in Fd |-> new[g]]
      /\ \A j \in DOMAIN data : new[data[j].fd] = data[j].entry
      /\ \A g \in Fd : FoundAt(g) = {} => new[g] = NoEntry
      /\ Cardinality({g \in Fd : HasEntry(new, g)}) = Len(data)
  BY <1>5, <1>6, AllPushed
<1>. HIDE DEF new
<1>8. AsMap' = new
  <2>1. \A j \in DOMAIN data' : new[data'[j].fd] = data'[j].entry
    BY <1>1, <1>7
  <2>2. \A g \in Fd : (\A j \in DOMAIN data' : data'[j].fd # g) => new[g] = NoEntry
    BY <1>1, <1>7 DEF FoundAt
  <2>. QED
    BY <1>1, <1>7, <2>1, <2>2, SettledNewMap
<1>9. ~ (Cardinality({g \in Fd : HasEntry(new, g)}) > RegistrySize)
  BY <1>7, RegistrySizeAssumption DEF RegistryInv, WalkInv, TypeOK
<1>. QED
  BY <1>1, <1>4, <1>8, <1>9, RegisterNewIs DEF new

LEMMA VisitFullMaps ==
  ASSUME TypeOK, RegistryInv, walking, state = "live", NEW f \in Fd, VisitFull(f)
  PROVE  Map!RegisterNew
<1>. DEFINE new == NewlyRegistered(AsMap, tab)
            H == {g \in Fd : HasEntry(new, g)}
<1>1. /\ IsNext(f) /\ IsOpen(tab, f) /\ DefaultAction(tab[f].kind) # "None"
      /\ Len(data) = RegistrySize
      /\ state' = "done" /\ UNCHANGED <<tab, data, walk>>
  BY DEF VisitFull, IsNext
<1>2. PICK i \in 1 .. Len(data) + 1 : SkippedTo(f, i) /\ ~ IsAt(f, i)
  BY DEF VisitFull
<1>3. /\ \A j \in Pushed : data[j].fd < f
      /\ FoundAt(f) = {}
      /\ \A g \in Fd : IsOpen(tab, g) /\ g < f => FoundAt(g) # {}
  BY <1>1, <1>2, InStep
<1>4. f \in Unregistered(AsMap, tab) /\ f \notin Refused(AsMap, tab)
  <2>1. ~ HasEntry(AsMap, f)
    BY <1>3, AsMapEntries, WalkFacts DEF FoundAt
  <2>. QED
    BY <1>1, <2>1 DEF Refused, Unregistered, IsRegistered
<1>5. ASSUME NEW h \in Refused(AsMap, tab)
      PROVE  f < h /\ \A j \in Pushed : data[j].fd < h
  <2>1. h \in Fd /\ IsOpen(tab, h) /\ FoundAt(h) = {}
    BY RefusedNotSeen
  <2>2. h \in Int /\ f \in Int /\ ~(h < f) /\ h # f /\ \A j \in Pushed : data[j].fd \in Int
    BY <1>3, <1>4, <2>1, WalkFacts DEF Fd
  <2>. QED
    BY <1>3, <2>2
<1>6. ASSUME NEW g \in Fd
      PROVE  new[g] = IF /\ g \in Unregistered(AsMap, tab)
                         /\ \A h \in Refused(AsMap, tab) : g < h
                      THEN NewItem(g).entry ELSE AsMap[g]
  BY DEF NewlyRegistered, NewItem
<1>. HIDE DEF new
<1>7. f \in H
  <2>1. NewItem(f).entry # NoEntry
    BY <1>1 DEF NewItem, NewEntry, NoEntry
  <2>. QED
    BY <1>4, <1>5, <1>6, <2>1 DEF HasEntry
<1>8. ASSUME NEW j \in DOMAIN data
      PROVE  data[j].fd \in H
  <2>0. data[j].fd \in Fd /\ data[j].entry # NoEntry
    BY ItemType, NoEntryIsNone
  <2>1. CASE j \in 1 .. walk.end
    <3>1. data[j].fd \notin Unregistered(AsMap, tab) /\ AsMap[data[j].fd] = data[j].entry
      BY <2>1, WalkedMap DEF Unregistered, IsRegistered
    <3>. QED
      BY <1>6, <2>0, <3>1 DEF HasEntry
  <2>2. CASE j \in Pushed
    <3>1. /\ data[j].fd \in Unregistered(AsMap, tab)
          /\ data[j].entry = NewItem(data[j].fd).entry
      BY <2>2, WalkedMap
    <3>. QED
      BY <1>5, <1>6, <2>0, <2>2, <3>1 DEF HasEntry
  <2>. QED
    BY <2>1, <2>2, WalkFacts
<1>9. Cardinality(H) > RegistrySize
  <2>. DEFINE N == Numbers(DOMAIN data)
  <2>1. IsFiniteSet(N) /\ Cardinality(N) = RegistrySize
    BY <1>1, AllNumbers DEF RegistryInv, StrictlyOrdered
  <2>2. f \notin N
    BY <1>3 DEF Numbers, FoundAt
  <2>3. N \cup {f} \in SUBSET H
    BY <1>7, <1>8 DEF Numbers
  <2>. HIDE DEF N, H
  <2>4. IsFiniteSet(H)
    BY FdFinite, FS_Subset DEF H
  <2>5. Cardinality(N \cup {f}) = RegistrySize + 1
    BY <2>1, <2>2, FS_AddElement
  <2>6. Cardinality(N \cup {f}) <= Cardinality(H) /\ Cardinality(H) \in Nat
    BY <2>3, <2>4, FS_Subset, FS_CardinalityType
  <2>. QED
    BY <2>5, <2>6, RegistrySizeAssumption
<1>10. AsMap' = AsMap
  BY <1>1 DEF AsMap, Shown, walking
<1>. QED
  BY <1>1, <1>9, <1>10, RegisterNewIs DEF new

LEMMA WalkEndsMaps ==
  ASSUME TypeOK, RegistryInv, TypeOK', RegistryInv', walking, state = "live", WalkEnds
  PROVE  Map!RegisterNew
<1>. DEFINE new == NewlyRegistered(AsMap, tab)
<1>1. /\ ~ \E f \in Fd : IsNext(f)
      /\ ~ walking' /\ UNCHANGED <<tab, state>>
      /\ data' = IF Len(data) = walk.end THEN data ELSE Sorted
  BY DEF WalkEnds, walking
<1>2. ASSUME NEW g \in Fd, IsOpen(tab, g) PROVE FoundAt(g) # {}
  <2>. DEFINE S == {f \in Fd : IsOpen(tab, f) /\ f >= walk.next}
  <2>1. S = {}
    <3>1. S \in SUBSET Nat
      BY DEF Fd
    <3>2. ASSUME NEW f \in S, \A h \in S : f <= h PROVE IsNext(f)
      BY <3>2 DEF IsNext
    <3>. HIDE DEF S
    <3>3. S # {} => \E f \in S : \A h \in S : f <= h
      BY <3>1, Least
    <3>4. S \subseteq Fd
      BY DEF S
    <3>. QED
      BY <1>1, <3>2, <3>3, <3>4
  <2>2. g \in Int /\ walk.next \in Int
    BY WalkFacts DEF Fd
  <2>3. g < walk.next
    BY <1>2, <2>1, <2>2
  <2>. QED
    BY <1>2, <2>3 DEF RegistryInv, WalkInv
<1>3. Refused(AsMap, tab) = {}
  BY <1>2, RefusedNotSeen
<1>4. \A g \in Unregistered(AsMap, tab) : FoundAt(g) # {}
  BY <1>2 DEF Unregistered
<1>5. /\ new = [g \in Fd |-> new[g]]
      /\ \A j \in DOMAIN data : new[data[j].fd] = data[j].entry
      /\ \A g \in Fd : FoundAt(g) = {} => new[g] = NoEntry
      /\ Cardinality({g \in Fd : HasEntry(new, g)}) = Len(data)
  BY <1>3, <1>4, AllPushed
<1>. HIDE DEF new
<1>6. /\ \A n \in DOMAIN data' : \E j \in DOMAIN data : data'[n] = data[j]
      /\ \A j \in DOMAIN data : \E n \in DOMAIN data' : data'[n] = data[j]
  <2>1. CASE data' = data
    BY <2>1
  <2>2. CASE data' = Sorted
    <3>1. DOMAIN Sorted = DOMAIN data
      BY DEF Sorted
    <3>. QED
      BY <2>2, <3>1, Sorting DEF RegistryInv, StrictlyOrdered
  <2>. QED
    BY <1>1, <2>1, <2>2
<1>7. AsMap' = new
  <2>1. \A n \in DOMAIN data' : new[data'[n].fd] = data'[n].entry
    BY <1>5, <1>6
  <2>2. \A g \in Fd : (\A n \in DOMAIN data' : data'[n].fd # g) => new[g] = NoEntry
    BY <1>5, <1>6 DEF FoundAt
  <2>. QED
    BY <1>1, <1>5, <2>1, <2>2, SettledNewMap
<1>8. ~ (Cardinality({g \in Fd : HasEntry(new, g)}) > RegistrySize)
  BY <1>5, RegistrySizeAssumption DEF RegistryInv, WalkInv, TypeOK
<1>. QED
  BY <1>1, <1>3, <1>7, <1>8, RegisterNewIs DEF new

-----------------------------------------------------------------------------
(* The sweeps: if the positions before the n-th are those of the numbers   *)
(* below `stop`, the loop that stops there does what the map says.         *)

LEMMA SweepMaps ==
  ASSUME TypeOK, RegistryInv, ~ walking, NEW n \in 1 .. Len(data) + 1, NEW forkType,
         NEW stop \in Int, \A i \in DOMAIN data : i < n <=> data[i].fd < stop,
         NEW t
  PROVE  /\ \A i \in DOMAIN data :
              i \in ExecutedBefore(n, forkType)
                <=> data[i].fd \in Swept(AsMap, forkType, stop)
         /\ Swept(AsMap, forkType, stop) = Numbers(ExecutedBefore(n, forkType))
         /\ (\A i \in ExecutedBefore(n, forkType) : ~ Fails(t, data[i]))
              <=> SweepPasses(t, AsMap, forkType, stop)
<1>1. /\ Len(data) \in Nat /\ DOMAIN data = 1 .. Len(data)
      /\ \A i \in DOMAIN data : /\ data[i].fd \in Fd /\ data[i].entry \in Entry
                                /\ AsMap[data[i].fd] = data[i].entry
      /\ \A f \in Fd : HasEntry(AsMap, f) <=> FoundAt(f) # {}
  BY SettledMap
<1>2. \A i \in DOMAIN data : i < n <=> i \in 1 .. n - 1
  BY <1>1
<1>3. 1 .. n - 1 \subseteq DOMAIN data
  BY <1>1
<1>4. ASSUME NEW i \in DOMAIN data
      PROVE  i \in ExecutedBefore(n, forkType)
               <=> data[i].fd \in Swept(AsMap, forkType, stop)
  <2>1. HasEntry(AsMap, data[i].fd)
    BY <1>1 DEF FoundAt
  <2>. QED
    BY <1>1, <1>2, <2>1 DEF ExecutedBefore, Swept
<1>5. Swept(AsMap, forkType, stop) = Numbers(ExecutedBefore(n, forkType))
  <2>1. \A f \in Swept(AsMap, forkType, stop) : \E i \in DOMAIN data : data[i].fd = f
    BY <1>1 DEF Swept, FoundAt
  <2>2. ExecutedBefore(n, forkType) \subseteq DOMAIN data
    BY <1>3 DEF ExecutedBefore
  <2>. QED
    BY <1>4, <2>1, <2>2 DEF Numbers
<1>6. \A i \in ExecutedBefore(n, forkType) :
        Fails(t, data[i]) <=> MustFail(t, AsMap, data[i].fd)
  BY <1>1, <1>3 DEF Fails, MustFail, ExecutedBefore
<1>7. (\A i \in ExecutedBefore(n, forkType) : ~ Fails(t, data[i]))
        <=> SweepPasses(t, AsMap, forkType, stop)
  BY <1>5, <1>6 DEF SweepPasses, Numbers
<1>. QED
  BY <1>4, <1>5, <1>7

LEMMA PositionIs ==
  ASSUME OneEntryEach, NEW i \in DOMAIN data
  PROVE  Position(data[i].fd) = i
  BY DEF Position, OneEntryEach

LEMMA SweptTableMaps ==
  ASSUME TypeOK, RegistryInv, ~ walking, NEW n \in 1 .. Len(data) + 1, NEW forkType,
         NEW stop \in Int, \A i \in DOMAIN data : i < n <=> data[i].fd < stop
  PROVE  TableAfter(n, forkType) = SweptTable(WithDevNull(tab), AsMap, forkType, stop)
<1>1. Swept(AsMap, forkType, stop) = Numbers(ExecutedBefore(n, forkType))
  BY SweepMaps
<1>2. ASSUME NEW f \in Fd
      PROVE  (\E i \in ExecutedBefore(n, forkType) : data[i].fd = f)
               <=> f \in Swept(AsMap, forkType, stop)
  BY <1>1 DEF Numbers
<1>3. ASSUME NEW f \in Swept(AsMap, forkType, stop)
      PROVE  data[Position(f)].entry = AsMap[f]
  <2>1. PICK i \in ExecutedBefore(n, forkType) : data[i].fd = f
    BY <1>1 DEF Numbers
  <2>2. i \in DOMAIN data
    BY DEF ExecutedBefore, TypeOK
  <2>. QED
    BY <2>1, <2>2, PositionIs, SettledMap DEF RegistryInv, StrictlyOrdered
<1>4. \A f \in Fd :
        (IF \E i \in ExecutedBefore(n, forkType) : data[i].fd = f
         THEN AfterExecute(data[Position(f)].entry) ELSE WithDevNull(tab)[f])
        = IF f \in Swept(AsMap, forkType, stop)
          THEN AfterExecute(AsMap[f]) ELSE WithDevNull(tab)[f]
  BY <1>2, <1>3
<1>. QED
  BY <1>4, Zenon DEF TableAfter, SweptTable

LEMMA SweptMapMaps ==
  ASSUME TypeOK, RegistryInv, TypeOK', RegistryInv', ~ walking, ~ walking',
         NEW n \in 1 .. Len(data) + 1, NEW forkType,
         NEW stop \in Int, \A i \in DOMAIN data : i < n <=> data[i].fd < stop,
         data' = DataAfter(n, forkType)
  PROVE  AsMap' = SweptRegistry(AsMap, forkType, stop)
<1>. DEFINE reg == SweptRegistry(AsMap, forkType, stop)
<1>1. \A i \in DOMAIN data :
        i \in ExecutedBefore(n, forkType) <=> data[i].fd \in Swept(AsMap, forkType, stop)
  BY SweepMaps
<1>2. /\ DOMAIN data' = DOMAIN data
      /\ \A i \in DOMAIN data :
           data'[i] = IF i \in ExecutedBefore(n, forkType)
                      THEN [data[i] EXCEPT !.entry.executed = TRUE] ELSE data[i]
  BY DEF DataAfter
<1>3. \A i \in DOMAIN data : /\ data[i] \in Item /\ data[i].fd \in Fd
                             /\ AsMap[data[i].fd] = data[i].entry
  BY SettledMap, ItemType
<1>4. reg = [f \in Fd |-> reg[f]]
  BY DEF SweptRegistry
<1>5. \A f \in Fd : reg[f] = IF f \in Swept(AsMap, forkType, stop)
                             THEN [AsMap[f] EXCEPT !.executed = TRUE] ELSE AsMap[f]
  BY DEF SweptRegistry
<1>. HIDE DEF reg
<1>6. ASSUME NEW i \in DOMAIN data
      PROVE  data'[i].fd = data[i].fd /\ reg[data'[i].fd] = data'[i].entry
  <2>1. CASE i \in ExecutedBefore(n, forkType)
    <3>1. /\ data'[i].fd = data[i].fd
          /\ data'[i].entry = [data[i].entry EXCEPT !.executed = TRUE]
      BY <1>2, <1>3, <2>1 DEF Item, Entry
    <3>. QED
      BY <1>1, <1>3, <1>5, <2>1, <3>1
  <2>2. CASE i \notin ExecutedBefore(n, forkType)
    <3>1. data'[i] = data[i] /\ data[i].fd \notin Swept(AsMap, forkType, stop)
      BY <1>1, <1>2, <2>2
    <3>2. reg[data[i].fd] = AsMap[data[i].fd]
      BY <1>3, <1>5, <3>1
    <3>. QED
      BY <1>3, <3>1, <3>2
  <2>. QED
    BY <2>1, <2>2
<1>7. ASSUME NEW f \in Fd, \A i \in DOMAIN data' : data'[i].fd # f
      PROVE  reg[f] = NoEntry
  <2>1. FoundAt(f) = {}
    BY <1>2, <1>6, <1>7 DEF FoundAt
  <2>2. ~ HasEntry(AsMap, f) /\ AsMap[f] = NoEntry
    BY <2>1, SettledMap
  <2>. QED
    BY <1>5, <2>2 DEF Swept
<1>8. \A i \in DOMAIN data' : reg[data'[i].fd] = data'[i].entry
  BY <1>2, <1>6
<1>9. AsMap' = reg
  BY <1>4, <1>7, <1>8, SettledNewMap
<1>. QED
  BY <1>9 DEF reg

LEMMA MayExecuteMaps ==
  ASSUME NEW forkType
  PROVE  /\ Map!MayExecute(forkType) <=> MayExecute(forkType)
         /\ Map!After(forkType) = After(forkType)
  BY SameTables, Zenon DEF MayExecute, Map!MayExecute, After, Map!After

LEMMA ExecuteMaps ==
  ASSUME TypeOK, RegistryInv, TypeOK', RegistryInv', ~ walking,
         NEW forkType \in ForkType, Execute(forkType)
  PROVE  Map!Execute(forkType)
<1>. DEFINE end == Len(data) + 1
<1>1. /\ end \in 1 .. Len(data) + 1 /\ MaxFd + 1 \in Int
      /\ \A i \in DOMAIN data : i < end <=> data[i].fd < MaxFd + 1
  BY SettledMap, RegistryAssumption DEF Fd
<1>2. /\ MayExecute(forkType)
      /\ \A i \in ExecutedBefore(end, forkType) : ~ Fails(WithDevNull(tab), data[i])
      /\ tab' = SyncFdState(TableAfter(end, forkType))
      /\ data' = DataAfter(end, forkType)
      /\ state' = After(forkType)
      /\ ~ walking'
  BY DEF Execute, walking
<1>. HIDE DEF end
<1>3. SweepPasses(WithDevNull(tab), AsMap, forkType, MaxFd + 1)
  BY <1>1, <1>2, SweepMaps
<1>4. TableAfter(end, forkType) = SweptTable(WithDevNull(tab), AsMap, forkType, MaxFd + 1)
  BY <1>1, SweptTableMaps
<1>5. AsMap' = SweptRegistry(AsMap, forkType, MaxFd + 1)
  BY <1>1, <1>2, SweptMapMaps
<1>. QED
  BY <1>2, <1>3, <1>4, <1>5, MayExecuteMaps, SameTables, SameSweeps, Zenon DEF Map!Execute

LEMMA ExecuteFailsMaps ==
  ASSUME TypeOK, RegistryInv, TypeOK', RegistryInv', ~ walking,
         NEW forkType \in ForkType, ExecuteFails(forkType)
  PROVE  Map!ExecuteFails(forkType)
<1>1. MayExecute(forkType) /\ state' = After(forkType) /\ ~ walking'
  BY DEF ExecuteFails, walking
<1>2. PICK n \in DOMAIN data :
        /\ Acts(data[n].entry, forkType)
        /\ \/ Fails(WithDevNull(tab), data[n])
           \/ "reopen" \in Faults /\ data[n].entry.action = "Reopen"
        /\ \A i \in ExecutedBefore(n, forkType) : ~ Fails(WithDevNull(tab), data[i])
        /\ tab' = TableAfter(n, forkType)
        /\ data' = DataAfter(n, forkType)
  BY DEF ExecuteFails
<1>3. CASE state = "live"
  <2>. DEFINE f == data[n].fd
  <2>1. /\ f \in Fd /\ f \in Int /\ AsMap[f] = data[n].entry /\ HasEntry(AsMap, f)
        /\ n \in 1 .. Len(data) + 1 /\ Len(data) \in Nat /\ DOMAIN data = 1 .. Len(data)
    <3>1. FoundAt(f) # {}
      BY DEF FoundAt
    <3>. QED
      BY <3>1, SettledMap DEF Fd
  <2>2. \A i \in DOMAIN data : i < n <=> data[i].fd < f
    <3>1. Ordered /\ \A i \in DOMAIN data : i \in Int /\ data[i].fd \in Int
      BY <1>3, <2>1, LiveOrdered, ItemType
    <3>. QED
      BY <2>1, <3>1 DEF Ordered
  <2>3. SweepPasses(WithDevNull(tab), AsMap, forkType, f)
    BY <1>2, <2>1, <2>2, SweepMaps
  <2>4. tab' = SweptTable(WithDevNull(tab), AsMap, forkType, f)
    BY <1>2, <2>1, <2>2, SweptTableMaps
  <2>5. AsMap' = SweptRegistry(AsMap, forkType, f)
    BY <1>1, <1>2, <2>1, <2>2, SweptMapMaps
  <2>6. f \in Swept(AsMap, forkType, MaxFd + 1)
    BY <1>2, <2>1, RegistryAssumption DEF Swept, Fd
  <2>7. MayFail(WithDevNull(tab), AsMap, f)
    BY <1>2, <2>1 DEF Fails, MayFail, MustFail
  <2>. HIDE DEF f
  <2>8. Map!SweepFailsAt(WithDevNull(tab), AsMap, forkType, f)
    BY <2>3, <2>6, <2>7, SameSweeps DEF SweepFailsAt
  <2>. QED
    BY <1>1, <1>3, <2>1, <2>4, <2>5, <2>8, MayExecuteMaps, SameTables, SameSweeps, Zenon
    DEF Map!ExecuteFails
<1>4. CASE state # "live"
  <2>1. tab' \in Table /\ AsMap' \in Registry
    <3>1. data' \in Seq(Item) /\ Len(data') \in Nat /\ Shown' = Len(data') /\ tab' \in Table
      BY <1>1 DEF TypeOK, Shown
    <3>2. \A i, j \in DOMAIN data' : data'[i].fd = data'[j].fd => i = j
      BY DEF RegistryInv, StrictlyOrdered, OneEntryEach
    <3>3. Len(data') \in 0 .. Len(data')
      BY <3>1
    <3>4. MapOf(SubSeq(data', 1, Len(data'))) \in Registry
      BY <3>1, <3>2, <3>3, MapEntries
    <3>. QED
      BY <3>1, <3>4 DEF AsMap
  <2>. QED
    BY <1>1, <1>4, <2>1, MayExecuteMaps, SameTables, SameEntries, Zenon DEF Map!ExecuteFails
<1>. QED
  BY <1>3, <1>4

(* override_and_close: the positions before an entry are the numbers below *)
(* its own.                                                                *)
LEMMA OverrideMaps ==
  ASSUME TypeOK, RegistryInv, ~ walking, OverrideAndClose
  PROVE  Map!OverrideAndClose
<1>1. state = "live" /\ UNCHANGED <<data, walk>> /\ state' = "done" /\ AsMap' = AsMap
  BY DEF OverrideAndClose, AsMap, Shown, walking
<1>2. /\ Len(data) \in Nat /\ DOMAIN data = 1 .. Len(data)
      /\ \A i \in DOMAIN data : /\ data[i].fd \in Fd /\ data[i].fd \in Int /\ i \in Int
                                /\ AsMap[data[i].fd] = data[i].entry
      /\ \A f \in Fd : HasEntry(AsMap, f) <=> FoundAt(f) # {}
      /\ Ordered /\ OneEntryEach
  BY <1>1, SettledMap, LiveOrdered, ItemType DEF RegistryInv, StrictlyOrdered
<1>. DEFINE kept(i) == data[i].entry.action = "Ignore"
            stops == {i \in DOMAIN data : ~ kept(i)}
<1>3. /\ \A i \in DOMAIN data : i \in stops <=> data[i].fd \in Overridden(AsMap)
      /\ Overridden(AsMap) = Numbers(stops)
  <2>1. \A i \in DOMAIN data : HasEntry(AsMap, data[i].fd)
    BY <1>2 DEF FoundAt
  <2>2. \A f \in Overridden(AsMap) : \E i \in DOMAIN data : data[i].fd = f
    BY <1>2 DEF Overridden, FoundAt
  <2>3. \A i \in DOMAIN data : i \in stops <=> data[i].fd \in Overridden(AsMap)
    BY <1>2, <2>1 DEF Overridden
  <2>. QED
    BY <2>2, <2>3 DEF Numbers
<1>4. \A i \in DOMAIN data :
        i \in ClosedByOverride
          <=> i \in stops /\ \A j \in stops : j <= i => IsOpen(tab, data[j].fd)
  <2>. SUFFICES ASSUME NEW i \in DOMAIN data
                PROVE  i \in ClosedByOverride
                         <=> i \in stops /\ \A j \in stops : j <= i => IsOpen(tab, data[j].fd)
    OBVIOUS
  <2>1. \A j \in DOMAIN data : j \in 1 .. i <=> j <= i
    BY <1>2
  <2>2. 1 .. i \subseteq DOMAIN data
    BY <1>2
  <2>. QED
    BY <2>1, <2>2 DEF ClosedByOverride
<1>. HIDE DEF stops
<1>5. stops \subseteq DOMAIN data
  BY DEF stops
<1>6. \A i, j \in DOMAIN data : j <= i <=> data[j].fd <= data[i].fd
  BY <1>2 DEF Ordered, OneEntryEach
<1>7. \A f \in Fd :
        (\E i \in ClosedByOverride : data[i].fd = f)
          <=> /\ f \in Overridden(AsMap)
              /\ \A g \in Overridden(AsMap) : g <= f => IsOpen(tab, g)
  <2>1. ClosedByOverride \subseteq DOMAIN data
    BY DEF ClosedByOverride
  <2>2. ASSUME NEW i \in DOMAIN data
        PROVE  (\A j \in stops : j <= i => IsOpen(tab, data[j].fd))
                 <=> \A g \in Overridden(AsMap) : g <= data[i].fd => IsOpen(tab, g)
    BY <1>3, <1>5, <1>6 DEF Numbers
  <2>3. \A i \in DOMAIN data :
          i \in ClosedByOverride
            <=> /\ data[i].fd \in Overridden(AsMap)
                /\ \A g \in Overridden(AsMap) : g <= data[i].fd => IsOpen(tab, g)
    BY <1>3, <1>4, <2>2
  <2>. QED
    BY <1>3, <1>5, <2>1, <2>3 DEF Numbers
<1>. DEFINE closed == [f \in Fd |-> IF \E i \in ClosedByOverride : data[i].fd = f
                                    THEN Free ELSE tab[f]]
            complete == \A i \in DOMAIN data : ~ kept(i) => i \in ClosedByOverride
<1>8. closed = OverriddenTable(AsMap, tab)
  BY <1>7, Zenon DEF OverriddenTable
<1>9. complete <=> ~ OverrideFails(AsMap, tab)
  <2>1. complete <=> \A i \in stops : i \in ClosedByOverride
    BY DEF stops
  <2>2. (\A i \in stops : i \in ClosedByOverride) <=> \A i \in stops : IsOpen(tab, data[i].fd)
    BY <1>2, <1>4, <1>5
  <2>3. OverrideFails(AsMap, tab) <=> \E i \in stops : ~ IsOpen(tab, data[i].fd)
    BY <1>3 DEF OverrideFails, Numbers
  <2>. QED
    BY <2>1, <2>2, <2>3
<1>10. tab' = IF complete THEN SyncFdState(closed) ELSE closed
  BY Zenon DEF OverrideAndClose
<1>. HIDE DEF closed, complete
<1>11. tab' = ShutdownTable(AsMap, tab)
  BY <1>8, <1>9, <1>10 DEF ShutdownTable
<1>. QED
  BY <1>1, <1>11, SameRegistration, Zenon DEF Map!OverrideAndClose

-----------------------------------------------------------------------------
(* The refinement.                                                         *)

LEMMA InitMaps == Init => Map!Init
<1>. SUFFICES ASSUME Init PROVE Map!Init
  OBVIOUS
<1>1. TypeOK /\ RegistryInv /\ ~ walking
  BY InitTypeOK, InitRegistryInv DEF Init, walking
<1>2. /\ Len(data) = 3 /\ DOMAIN data = 1 .. 3
      /\ \A i \in 1 .. 3 : data[i].fd = i - 1 /\ data[i].entry = NewEntry(tab, i - 1, "Ignore")
  <2>1. Len(data) = 3 /\ DOMAIN data = 1 .. 3
    BY DEF Init
  <2>2. ASSUME NEW i \in 1 .. 3
        PROVE  data[i].fd = i - 1 /\ data[i].entry = NewEntry(tab, i - 1, "Ignore")
    <3>1. data[i] = [fd |-> i - 1, entry |-> NewEntry(tab, i - 1, "Ignore")]
      BY Zenon DEF Init
    <3>. QED
      BY <3>1
  <2>. QED
    BY <2>1, <2>2
<1>3. /\ AsMap = [f \in Fd |-> AsMap[f]]
      /\ \A i \in DOMAIN data : AsMap[data[i].fd] = data[i].entry
      /\ \A f \in Fd : HasEntry(AsMap, f) <=> FoundAt(f) # {}
      /\ \A f \in Fd : ~ HasEntry(AsMap, f) => AsMap[f] = NoEntry
  BY <1>1, SettledMap
<1>4. ASSUME NEW f \in Fd
      PROVE  AsMap[f] = IF f \in Stdio THEN NewEntry(tab, f, "Ignore") ELSE NoEntry
  <2>0. f \in Int
    BY DEF Fd
  <2>1. CASE f \in Stdio
    <3>1. PICK i \in 1 .. 3 : i - 1 = f
      <4>1. f + 1 \in 1 .. 3 /\ (f + 1) - 1 = f
        BY <2>0, <2>1 DEF Stdio
      <4>. QED
        BY <4>1
    <3>2. data[i].fd = i - 1 /\ data[i].entry = NewEntry(tab, i - 1, "Ignore")
      BY <1>2
    <3>3. data[i].fd = f /\ data[i].entry = NewEntry(tab, f, "Ignore")
      BY <3>1, <3>2, Zenon
    <3>4. AsMap[data[i].fd] = data[i].entry
      BY <1>2, <1>3
    <3>. QED
      BY <2>1, <3>3, <3>4, Zenon
  <2>2. CASE f \notin Stdio
    <3>1. FoundAt(f) = {}
      BY <1>2, <2>0, <2>2 DEF FoundAt, Stdio
    <3>. QED
      BY <1>3, <2>2, <3>1
  <2>. QED
    BY <2>1, <2>2
<1>5. AsMap = [f \in Fd |-> IF f \in Stdio THEN NewEntry(tab, f, "Ignore") ELSE NoEntry]
  BY <1>3, <1>4
<1>6. /\ Map!Fd = Fd /\ Map!Stdio = Stdio /\ Map!Free = Free /\ Map!NoEntry = NoEntry
      /\ \A t, f, action : Map!NewEntry(t, f, action) = NewEntry(t, f, action)
  BY SameTables, SameEntries, Zenon
<1>. QED
  BY <1>5, <1>6 DEF Init, Map!Init

LEMMA NextMaps ==
  TypeOK /\ RegistryInv /\ TypeOK' /\ RegistryInv' /\ [Next]_vars
    => [Map!Next]_(Map!map)
<1>. SUFFICES ASSUME TypeOK, RegistryInv, TypeOK', RegistryInv', [Next]_vars
              PROVE  Map!Next \/ UNCHANGED Map!map
  BY Zenon
<1>1. CASE UNCHANGED vars
  BY <1>1 DEF vars, Map!map, AsMap, Shown, walking
<1>2. ASSUME UNCHANGED <<data, walk>> PROVE AsMap' = AsMap
  BY <1>2 DEF AsMap, Shown, walking
<1>3. Map!Fd = Fd /\ Map!Stdio = Stdio /\ Map!ForkType = ForkType
  BY SameTables, SameEntries, Zenon
<1>4. CASE ~ walking /\ Operation
  <2>1. ASSUME NEW f \in Fd, NEW kind \in OpenKinds, Open(f, kind) PROVE Map!Next
    <3>1. AsMap' = AsMap
      BY <1>2, <2>1, Zenon DEF Open
    <3>2. Map!Open(f, kind)
      BY <2>1, <3>1, OpenMaps
    <3>. QED
      BY <1>3, <3>2, Zenon DEF Map!Next
  <2>2. ASSUME NEW f \in Fd, Close(f) PROVE Map!Next
    <3>1. AsMap' = AsMap
      BY <1>2, <2>2, Zenon DEF Close
    <3>2. Map!Close(f)
      BY <2>2, <3>1, CloseMaps
    <3>. QED
      BY <1>3, <3>2, Zenon DEF Map!Next
  <2>3. ASSUME NEW f \in Fd, f \notin Stdio, Remove(f) PROVE Map!Next
    BY <1>3, <1>4, <2>3, RemoveMaps, Zenon DEF Map!Next
  <2>4. ASSUME NEW f \in Fd, NEW action \in CallerActions, Register(f, action)
        PROVE  Map!Next
    BY <1>3, <1>4, <2>4, RegisterMaps, Zenon DEF Map!Next
  <2>5. CASE RegisterNew
    BY <1>4, <2>5, BeginStutters
  <2>6. CASE OverrideAndClose
    BY <1>4, <2>6, OverrideMaps, Zenon DEF Map!Next
  <2>7. ASSUME NEW forkType \in ForkType, Execute(forkType) PROVE Map!Next
    BY <1>3, <1>4, <2>7, ExecuteMaps, Zenon DEF Map!Next
  <2>8. ASSUME NEW forkType \in ForkType, ExecuteFails(forkType) PROVE Map!Next
    BY <1>3, <1>4, <2>8, ExecuteFailsMaps, Zenon DEF Map!Next
  <2>. QED
    BY <1>4, <2>1, <2>2, <2>3, <2>4, <2>5, <2>6, <2>7, <2>8, Zenon DEF Operation
<1>5. CASE walking /\ state = "live" /\ WalkStep
  <2>1. ASSUME NEW f \in Fd, VisitRegistered(f) \/ VisitNew(f) PROVE UNCHANGED Map!map
    BY <1>5, <2>1, VisitStutters
  <2>2. ASSUME NEW f \in Fd, VisitFull(f) PROVE Map!RegisterNew
    BY <1>5, <2>2, VisitFullMaps
  <2>3. ASSUME NEW f \in Fd, VisitRefused(f) PROVE Map!RegisterNew
    BY <1>5, <2>3, VisitRefusedMaps
  <2>4. CASE WalkEnds
    BY <1>5, <2>4, WalkEndsMaps, Zenon DEF Map!Next
  <2>. QED
    BY <1>5, <2>1, <2>2, <2>3, <2>4, Zenon DEF WalkStep, Map!Next
<1>. QED
  BY <1>1, <1>4, <1>5, Zenon DEF Next

(* The vector implements the map: register, remove, the sweeps and the     *)
(* whole of register_new do to the sorted vector what FdRegistry says of   *)
(* the map, for every size of the registry and of the table.               *)
THEOREM VectorImplementsMap == Spec => ImplementsMap
<1>1. Init => TypeOK /\ RegistryInv
  BY InitTypeOK, InitRegistryInv
<1>2. TypeOK /\ RegistryInv /\ [Next]_vars => TypeOK' /\ RegistryInv'
  BY NextTypeOK, NextRegistryInv DEF RegistryInv, StrictlyOrdered
<1>. QED
  BY <1>1, <1>2, InitMaps, NextMaps, PTL DEF Spec, ImplementsMap, Map!Spec

===============================================================================
