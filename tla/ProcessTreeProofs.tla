--------------------------- MODULE ProcessTreeProofs ---------------------------
(***************************************************************************)
(* Proofs about ProcessTree, for any number of processes and paths.        *)
(***************************************************************************)
EXTENDS ProcessTree, TLAPS

-----------------------------------------------------------------------------
(* Type correctness.                                                       *)

LEMMA InitTypeOK == Init => TypeOK
  BY TreeAssumption DEF Init, TypeOK, Phase

LEMMA NextTypeOK == TypeOK /\ [Next]_vars => TypeOK'
<1>. SUFFICES ASSUME TypeOK, [Next]_vars PROVE TypeOK'
  OBVIOUS
<1>. USE TreeAssumption DEF TypeOK, Phase, Become
<1>1. CASE UNCHANGED vars
  BY <1>1 DEF vars, copy
<1>2. ASSUME NEW p \in Pids, StartServer(p) PROVE TypeOK'
  <2>1. CASE Start(p)
    <3>1. PICK next \in {"construct", "check"} : phase' = [phase EXCEPT ![p] = next]
      BY <2>1 DEF Start
    <3>2. PICK a \in RootArgs : arg' = [arg EXCEPT ![p] = a]
      BY <2>1 DEF Start
    <3>. QED
      BY <2>1, <3>1, <3>2 DEF Start
  <2>2. CASE RootListens(p)
    BY <2>2 DEF RootListens, copy
  <2>3. CASE Construct(p)
    BY <2>3 DEF Construct
  <2>4. CASE ConstructFails(p)
    BY <2>4 DEF ConstructFails, copy
  <2>5. CASE PreloadFails(p)
    BY <2>5 DEF PreloadFails, copy
  <2>6. CASE BeginServing(p)
    BY <2>6 DEF BeginServing, copy
  <2>. QED
    BY <1>2, <2>1, <2>2, <2>3, <2>4, <2>5, <2>6 DEF StartServer
<1>3. ASSUME NEW p \in Pids, GetServerSocket(p) PROVE TypeOK'
  <2>1. CASE CheckPath(p)
    BY <2>1 DEF CheckPath, GiveUp, copy
  <2>2. CASE Bind(p)
    BY <2>2 DEF Bind, GiveUp, copy
  <2>3. CASE SocketFails(p)
    BY <2>3 DEF SocketFails, GiveUp, copy
  <2>. QED
    BY <1>3, <2>1, <2>2, <2>3 DEF GetServerSocket
<1>4. ASSUME NEW p \in Pids, BecomeSubspecies(p) PROVE TypeOK'
  <2>1. CASE Reset(p)
    BY <2>1 DEF Reset, copy
  <2>2. CASE ResetFails(p)
    BY <2>2 DEF ResetFails, copy
  <2>3. CASE TakePath(p)
    BY <2>3 DEF TakePath
  <2>4. CASE TakePid(p)
    BY <2>4 DEF TakePid
  <2>5. CASE EventsFail(p)
    BY <2>5 DEF EventsFail, copy
  <2>. QED
    BY <1>4, <2>1, <2>2, <2>3, <2>4, <2>5 DEF BecomeSubspecies
<1>5. ASSUME NEW p \in Pids, End(p) PROVE TypeOK'
  <2>1. CASE StopServing(p)
    BY <2>1 DEF StopServing, copy
  <2>2. CASE DropInChild(p)
    BY <2>2 DEF DropInChild, copy
  <2>3. CASE DropInServer(p)
    BY <2>3 DEF DropInServer, copy
  <2>4. CASE RemoveFile(p)
    BY <2>4 DEF RemoveFile, copy
  <2>5. CASE Crash(p)
    BY <2>5 DEF Crash, copy
  <2>. QED
    BY <1>5, <2>1, <2>2, <2>3, <2>4, <2>5 DEF End
<1>6. ASSUME NEW p \in Pids, NEW q \in Pids,
             ForkApplication(p, q) \/ ForkSubspecies(p, q)
      PROVE  TypeOK'
  BY <1>6 DEF ForkApplication, ForkSubspecies, Inherit
<1>. QED
  BY <1>1, <1>2, <1>3, <1>4, <1>5, <1>6 DEF Next

(* Every reachable state of the tree is well typed, and whoever has a      *)
(* Server knows which process constructed it.                              *)
THEOREM TypeCorrect == Spec => []TypeOK
  BY InitTypeOK, NextTypeOK, PTL DEF Spec

-----------------------------------------------------------------------------
(* Whose file is whose.                                                    *)

LEMMA InitTreeInv == Init => TreeInv
  BY TreeAssumption DEF Init, TreeInv, UnusedIsUnknown, CopyIsOwn, Holds, OwnsServer

(* The root server's own steps.                                            *)
LEMMA StartServerKeepsTreeInv ==
  ASSUME TypeOK, TypeOK', TreeInv, NEW p \in Pids, StartServer(p)
  PROVE  TreeInv'
<1>. USE TreeAssumption DEF TypeOK, Become, GiveUp, copy, TreeInv, UnusedIsUnknown,
                            CopyIsOwn, Holds, OwnsServer, Abandoned
<1>1. CASE Start(p)
  BY <1>1 DEF Start
<1>2. CASE RootListens(p)
  BY <1>2 DEF RootListens
<1>3. CASE Construct(p)
  BY <1>3 DEF Construct
<1>4. CASE ConstructFails(p)
  BY <1>4 DEF ConstructFails
<1>5. CASE PreloadFails(p)
  BY <1>5 DEF PreloadFails
<1>6. CASE BeginServing(p)
  BY <1>6 DEF BeginServing
<1>. QED
  BY <1>1, <1>2, <1>3, <1>4, <1>5, <1>6 DEF StartServer

(* get_server_socket, in a root or a subspecies.                           *)
LEMMA GetServerSocketKeepsTreeInv ==
  ASSUME TypeOK, TypeOK', TreeInv, NEW p \in Pids, GetServerSocket(p)
  PROVE  TreeInv'
<1>. USE TreeAssumption DEF TypeOK, Become, GiveUp, copy, TreeInv, UnusedIsUnknown,
                            CopyIsOwn, Holds, OwnsServer, Abandoned
<1>1. CASE CheckPath(p)
  BY <1>1 DEF CheckPath
<1>2. CASE Bind(p)
  BY <1>2 DEF Bind
<1>3. CASE SocketFails(p)
  BY <1>3 DEF SocketFails
<1>. QED
  BY <1>1, <1>2, <1>3 DEF GetServerSocket

(* The steps of a subspecies child.                                        *)
LEMMA BecomeSubspeciesKeepsTreeInv ==
  ASSUME TypeOK, TypeOK', TreeInv, NEW p \in Pids, BecomeSubspecies(p)
  PROVE  TreeInv'
<1>. USE TreeAssumption DEF TypeOK, Become, GiveUp, copy, TreeInv, UnusedIsUnknown,
                            CopyIsOwn, Holds, OwnsServer, Abandoned
<1>1. CASE Reset(p)
  BY <1>1 DEF Reset
<1>2. CASE ResetFails(p)
  BY <1>2 DEF ResetFails
<1>3. CASE TakePath(p)
  BY <1>3 DEF TakePath
<1>4. CASE TakePid(p)
  BY <1>4 DEF TakePid
<1>5. CASE EventsFail(p)
  BY <1>5 DEF EventsFail
<1>. QED
  BY <1>1, <1>2, <1>3, <1>4, <1>5 DEF BecomeSubspecies

(* The ends of a process.                                                  *)
LEMMA EndKeepsTreeInv ==
  ASSUME TypeOK, TypeOK', TreeInv, NEW p \in Pids, End(p)
  PROVE  TreeInv'
<1>. USE TreeAssumption DEF TypeOK, Become, GiveUp, copy, TreeInv, UnusedIsUnknown,
                            CopyIsOwn, Holds, OwnsServer, Abandoned
<1>1. CASE StopServing(p)
  BY <1>1 DEF StopServing
<1>2. CASE DropInChild(p)
  BY <1>2 DEF DropInChild
<1>3. CASE DropInServer(p)
  BY <1>3 DEF DropInServer
<1>4. CASE RemoveFile(p)
  BY <1>4 DEF RemoveFile
<1>5. CASE Crash(p)
  BY <1>5 DEF Crash
<1>. QED
  BY <1>1, <1>2, <1>3, <1>4, <1>5 DEF End

(* A fork gives the child a copy that names another process.               *)
LEMMA ForkKeepsTreeInv ==
  ASSUME TypeOK, TypeOK', TreeInv, NEW p \in Pids, NEW q \in Pids,
         ForkApplication(p, q) \/ ForkSubspecies(p, q)
  PROVE  TreeInv'
<1>. USE TreeAssumption DEF TypeOK, Become, Inherit, TreeInv, UnusedIsUnknown,
                            CopyIsOwn, Holds, OwnsServer, Abandoned
<1>1. CASE ForkApplication(p, q)
  BY <1>1 DEF ForkApplication
<1>2. CASE ForkSubspecies(p, q)
  BY <1>2 DEF ForkSubspecies
<1>. QED
  BY <1>1, <1>2

LEMMA NextTreeInv == TypeOK /\ TypeOK' /\ TreeInv /\ [Next]_vars => TreeInv'
<1>. SUFFICES ASSUME TypeOK, TypeOK', TreeInv, [Next]_vars PROVE TreeInv'
  OBVIOUS
<1>1. CASE UNCHANGED vars
  BY <1>1 DEF vars, copy, TreeInv, UnusedIsUnknown, CopyIsOwn, Holds, OwnsServer,
              Abandoned
<1>2. CASE Next
  BY <1>2, StartServerKeepsTreeInv, GetServerSocketKeepsTreeInv,
     BecomeSubspeciesKeepsTreeInv, EndKeepsTreeInv, ForkKeepsTreeInv DEF Next
<1>. QED
  BY <1>1, <1>2

(* The inductive invariant: at every point of every process it is known    *)
(* which file it has bound, and who is going to remove it.                 *)
THEOREM FilesAccountedFor == Spec => []TreeInv
<1>1. Spec => []TypeOK
  BY TypeCorrect
<1>. QED
  BY <1>1, InitTreeInv, NextTreeInv, PTL DEF Spec

(* A server that owns its Server is reached through its path, whatever its *)
(* children and siblings do.                                               *)
THEOREM ServersKeepTheirFiles == Spec => []FileIsOwners
<1>1. TypeOK /\ TreeInv => FileIsOwners
  BY DEF TypeOK, TreeInv, FileIsOwners, Holds, OwnsServer
<1>. QED
  BY <1>1, TypeCorrect, FilesAccountedFor, PTL

(* A Server dropped in its own process leaves no file behind.              *)
THEOREM ShutdownCleansUp == Spec => []ShutdownLeavesNoFile
<1>1. TreeInv => ShutdownLeavesNoFile
  BY DEF TreeInv, ShutdownLeavesNoFile, Holds, OwnsServer, Abandoned
<1>. QED
  BY <1>1, FilesAccountedFor, PTL

(* No process removes or takes over a file that another one has bound.     *)
THEOREM FilesRemovedByCreators == Spec => RemovedByItsCreator
<1>. DEFINE Kept == \A x \in Paths : file[x] # NoPid /\ file'[x] # file[x]
                      => file'[x] = NoPid /\ phase[file[x]] = "remove"
<1>1. ASSUME TypeOK, TreeInv, [Next]_vars PROVE Kept
  <2>1. CASE UNCHANGED file
    BY <2>1
  <2>2. ASSUME NEW p \in Pids, Bind(p) PROVE Kept
    BY <1>1, <2>2 DEF Bind, TypeOK
  <2>3. ASSUME NEW p \in Pids, RemoveFile(p) PROVE Kept
    <3>1. pid[p] = p /\ phase[p] = "remove"
      BY <1>1, <2>3 DEF RemoveFile, TreeInv, CopyIsOwn
    <3>2. path[p] \in Paths => file[path[p]] = p
      BY <1>1, <3>1 DEF TreeInv, Holds, OwnsServer
    <3>. QED
      BY <1>1, <2>3, <3>1, <3>2 DEF RemoveFile, TypeOK
  <2>4. CASE UNCHANGED vars
    BY <2>4, <2>1 DEF vars
  <2>5. ASSUME NEW p \in Pids,
               StartServer(p) \/ CheckPath(p) \/ SocketFails(p) \/ BecomeSubspecies(p)
        PROVE  UNCHANGED file
    BY <2>5 DEF StartServer, Start, RootListens, Construct, ConstructFails,
                PreloadFails, BeginServing, CheckPath, SocketFails,
                BecomeSubspecies, Reset, ResetFails, TakePath, TakePid, EventsFail
  <2>6. ASSUME NEW p \in Pids,
               StopServing(p) \/ DropInChild(p) \/ DropInServer(p) \/ Crash(p)
        PROVE  UNCHANGED file
    BY <2>6 DEF StopServing, DropInChild, DropInServer, Crash
  <2>7. ASSUME NEW p \in Pids, NEW q \in Pids,
               ForkApplication(p, q) \/ ForkSubspecies(p, q)
        PROVE  UNCHANGED file
    BY <2>7 DEF ForkApplication, ForkSubspecies
  <2>. QED
    BY <1>1, <2>1, <2>2, <2>3, <2>4, <2>5, <2>6, <2>7
       DEF Next, GetServerSocket, End
<1>2. TypeOK /\ TreeInv /\ [Next]_vars => [Kept]_vars
  BY <1>1
<1>. QED
  BY <1>2, TypeCorrect, FilesAccountedFor, PTL DEF Spec, RemovedByItsCreator

=============================================================================
