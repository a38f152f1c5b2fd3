------------------------------ MODULE SpawnProofs ------------------------------
(***************************************************************************)
(* More about ChildProcess: a child gets what was asked for, a request     *)
(* within its server's privileges does not fail, the system server is told *)
(* the truth, and a server has its own ids back before it serves.          *)
(***************************************************************************)
EXTENDS ChildProcessProofs, SubsequencesProofs

-----------------------------------------------------------------------------
(* Steps in general.                                                       *)

(* The child goes on at `to` with the credentials `next`.                  *)
Moves(to, next) ==
  /\ server' = server /\ report' = report
  /\ DOMAIN child' = ChildFields
  /\ child'.pc = to /\ child'.cred = next
  /\ child'.params = child.params /\ child'.payload = child.payload
  /\ child'.variant = child.variant /\ child'.end = child.end
  /\ child'.cause = child.cause

(* The child ends.                                                         *)
Dies(end, cause) ==
  /\ server' = server /\ report' = report
  /\ DOMAIN child' = ChildFields
  /\ child'.pc = "ended" /\ child'.end = Some(end) /\ child'.cause = Some(cause)
  /\ child'.cred = child.cred /\ child'.params = child.params
  /\ child'.payload = child.payload /\ child'.variant = child.variant
  /\ child'.limits_set = child.limits_set

LEMMA AliveIsChild == child.pc \in Alive => child # NoChild
  BY DEF NoChild, Alive, AfterBound, AfterSeccomp, AfterUid, AfterOverwrite, Ready

LEMMA ProceedMoves ==
  ASSUME PromisesKept, child.pc \in Alive, NEW next, Proceed(next)
  PROVE  Moves(After(child.pc), next) /\ child'.limits_set = child.limits_set
  BY AliveIsChild DEF Proceed, Moves, PromisesKept, ChildTyped, ChildFields

LEMMA BecomeMoves ==
  ASSUME PromisesKept, child.pc \in Alive, NEW to, NEW next, Become(to, next)
  PROVE  Moves(to, next) /\ child'.limits_set = child.limits_set
  BY AliveIsChild DEF Become, Moves, PromisesKept, ChildTyped, ChildFields

LEMMA EndedDies ==
  ASSUME PromisesKept, child.pc \in Alive, NEW end, NEW cause, Ended(end, cause)
  PROVE  Dies(end, cause)
  BY AliveIsChild DEF Ended, Dies, PromisesKept, ChildTyped, ChildFields

(* What a request is well-formed by does not change while a child runs.    *)
LEMMA WellFormedStays ==
  ASSUME server' = server, child'.params = child.params,
         child'.payload = child.payload, child'.variant = child.variant
  PROVE  WellFormed(server.cred)' <=> WellFormed(server.cred)
  BY DEF WellFormed, CapsRequestFits, params

LEMMA MovesInv ==
  ASSUME PromisesKept, child.pc \in Alive, NEW to \in Alive, NEW next, Moves(to, next),
         DOMAIN next = CredFields, CredOK(next),
         child'.limits_set \in 0..Len(params.rlimits),
         to = "serving" => child.variant = "SpawnSubspecies"
  PROVE  (ServerTyped /\ ChildTyped /\ EndTruthful /\ PrivilegesSuffice)'
<1>0. child # NoChild /\ child' # NoChild
  <2>1. child'.pc # "none"
    BY DEF Moves, Alive, AfterBound, AfterSeccomp, AfterUid, AfterOverwrite, Ready
  <2>. QED
    BY <2>1, AliveIsChild DEF NoChild
<1>a. to \notin {"ended", "reported"} /\ child.pc \notin {"ended", "reported"}
  BY DEF Alive, AfterBound, AfterSeccomp, AfterUid, AfterOverwrite, Ready
<1>1. ServerTyped'
  BY <1>0 DEF PromisesKept, ServerTyped, Moves
<1>2. ChildTyped'
  BY <1>0 DEF PromisesKept, ChildTyped, Moves, cred, params
<1>3. EndTruthful'
  BY <1>a DEF PromisesKept, EndTruthful, Moves
<1>4. PrivilegesSuffice'
  BY <1>a DEF PrivilegesSuffice, Moves
<1>. QED
  BY <1>1, <1>2, <1>3, <1>4

(* A child panics only if its request was not a well-formed one.           *)
LEMMA DiesInv ==
  ASSUME PromisesKept, child.pc \in Alive, NEW end \in End, NEW cause, Dies(end, cause),
         cause # "application" => end # [how |-> "exit", value |-> 0],
         cause = "application" => params.uid \subseteq {cred.uid.r},
         cause = "panic" => ~WellFormed(server.cred)
  PROVE  PromisesKept'
<1>0. /\ child # NoChild /\ child' # NoChild
      /\ child'.pc = "ended" /\ child'.pc \notin Alive
  BY AliveIsChild
     DEF Dies, NoChild, Alive, AfterBound, AfterSeccomp, AfterUid, AfterOverwrite, Ready
<1>1. ServerTyped'
  BY <1>0 DEF PromisesKept, ServerTyped, Dies
<1>2. ChildTyped'
  BY <1>0 DEF PromisesKept, ChildTyped, Dies, cred, params
<1>3. EndTruthful'
  <2>1. report' = None
    <3>1. child.pc # "reported"
      BY DEF Alive, AfterBound, AfterSeccomp, AfterUid, AfterOverwrite, Ready
    <3>. QED
      BY <3>1 DEF PromisesKept, EndTruthful, Dies
  <2>2. Some(cause) = Some("application") <=> cause = "application"
    BY DEF Some
  <2>. QED
    BY <1>0, <2>1, <2>2 DEF EndTruthful, Dies, cred, params
<1>4. PrivilegesKept' /\ DoneAsAsked'
  BY <1>0 DEF PrivilegesKept, DoneAsAsked
<1>5. PrivilegesSuffice'
  <2>1. Some(cause) = Some("panic") <=> cause = "panic"
    BY DEF Some
  <2>2. WellFormed(server.cred)' <=> WellFormed(server.cred)
    BY WellFormedStays DEF Dies
  <2>. QED
    BY <2>1, <2>2 DEF PrivilegesSuffice, Dies
<1>. QED
  BY <1>1, <1>2, <1>3, <1>4, <1>5 DEF PromisesKept

LEMMA PanicInv ==
  ASSUME PromisesKept, child.pc \in Alive, NEW end \in PanicEnds, Ended(end, "panic"),
         ~WellFormed(server.cred)
  PROVE  PromisesKept'
  BY EndedDies, DiesInv, EndAssumption

(* One step: it goes on, or it panics because of what was asked for.       *)
LEMMA ExpectMoves ==
  ASSUME PromisesKept, child.pc \in Alive, NEW may, NEW next, Expect(may, next),
         ~may => ~WellFormed(server.cred)
  PROVE  \/ /\ may /\ Moves(After(child.pc), next)
            /\ child'.limits_set = child.limits_set
         \/ PromisesKept'
<1>1. CASE may
  BY <1>1, ProceedMoves DEF Expect
<1>2. CASE ~ may
  BY <1>2, PanicInv DEF Expect
<1>. QED
  BY <1>1, <1>2

LEMMA ExpectIfMoves ==
  ASSUME PromisesKept, child.pc \in Alive, NEW given, NEW may, NEW next,
         ExpectIf(given, may, next), given /\ ~may => ~WellFormed(server.cred)
  PROVE  \/ /\ given /\ may /\ Moves(After(child.pc), next)
            /\ child'.limits_set = child.limits_set
         \/ /\ ~ given /\ Moves(After(child.pc), cred)
            /\ child'.limits_set = child.limits_set
         \/ PromisesKept'
<1>1. CASE given
  BY <1>1, ExpectMoves DEF ExpectIf
<1>2. CASE ~ given
  BY <1>2, ProceedMoves DEF ExpectIf
<1>. QED
  BY <1>1, <1>2

-----------------------------------------------------------------------------
(* re_initialize.                                                          *)

LEMMA Assembled ==
  ASSUME (ServerTyped /\ ChildTyped /\ EndTruthful /\ PrivilegesSuffice)',
         PrivilegesKept', DoneAsAsked'
  PROVE  PromisesKept'
  BY DEF PromisesKept

(* What the step at hand may rely on.                                      *)
LEMMA Living ==
  ASSUME PromisesKept, child.pc \in Alive
  PROVE  /\ DOMAIN cred = CredFields /\ CredOK(cred) /\ DefaultsOK(params)
         /\ \A field \in ParamFields \ ListFields : IsOption(params[field])
         /\ child.limits_set \in 0..Len(params.rlimits)
  BY AliveIsChild DEF PromisesKept, ChildTyped

(* Credentials that differ in what the invariants say nothing about.       *)
LEMMA PrologueKept ==
  ASSUME PromisesKept, Prologue
  PROVE  PromisesKept'
<1>. USE DEF Alive, AfterBound, AfterSeccomp, AfterUid, AfterOverwrite, Ready
<1>0. child.pc = "prologue" /\ child.pc \in Alive
  BY DEF Prologue
<1>1. ~PrologueAccepts(server.species, cred, params) => ~WellFormed(server.cred)
  BY DEF PrologueAccepts, WellFormed
<1>2. \/ Moves("securebits", cred) /\ child'.limits_set = child.limits_set
      \/ PromisesKept'
  BY <1>0, <1>1, AfterTable, ExpectMoves DEF Prologue
<1>3. CASE Moves("securebits", cred) /\ child'.limits_set = child.limits_set
  <2>1. (ServerTyped /\ ChildTyped /\ EndTruthful /\ PrivilegesSuffice)'
    BY <1>0, <1>3, Living, MovesInv
  <2>2. PrivilegesKept'
    BY <1>0, <1>3 DEF PromisesKept, PrivilegesKept, Moves, cred, params
  <2>3. DoneAsAsked'
    BY <1>0, <1>3
       DEF PromisesKept, DoneAsAsked, Additive, Moves, cred, params, AfterGid,
           AfterRlimits, AfterGroups
  <2>. QED
    BY <2>1, <2>2, <2>3, Assembled
<1>. QED
  BY <1>2, <1>3

LEMMA SetSecureBitsKept ==
  ASSUME PromisesKept, SetSecureBits
  PROVE  PromisesKept'
<1>. USE DEF Alive, AfterBound, AfterSeccomp, AfterUid, AfterOverwrite, Ready
<1>. DEFINE next == IF MaySetSecureBits(cred) THEN KeepCaps(cred) ELSE cred
<1>0. child.pc = "securebits" /\ child.pc \in Alive
  BY DEF SetSecureBits
<1>1. Moves("additive", next) /\ child'.limits_set = child.limits_set
  BY <1>0, AfterTable, ProceedMoves DEF SetSecureBits
<1>2. /\ DOMAIN next = CredFields
      /\ \A field \in CredFields \ {"keep_caps"} : next[field] = cred[field]
      /\ "SETPCAP" \in cred.effective => next.keep_caps
      /\ "SETPCAP" \notin cred.effective => next.keep_caps = cred.keep_caps
  BY <1>0, Living DEF MaySetSecureBits, KeepCaps, CredFields
<1>. HIDE DEF next
<1>3. /\ next.uid = cred.uid /\ next.gid = cred.gid /\ next.groups = cred.groups
      /\ next.permitted = cred.permitted /\ next.effective = cred.effective
      /\ next.inheritable = cred.inheritable /\ next.bounding = cred.bounding
      /\ next.no_new_privs = cred.no_new_privs /\ next.filters = cred.filters
      /\ next.ranges = cred.ranges /\ next.limits = cred.limits
      /\ next.domain = cred.domain /\ next.priority = cred.priority
  BY <1>2 DEF CredFields
<1>4. CredOK(next)
  BY <1>0, <1>3, Living DEF CredOK
<1>5. (ServerTyped /\ ChildTyped /\ EndTruthful /\ PrivilegesSuffice)'
  BY <1>0, <1>1, <1>2, <1>4, Living, MovesInv
<1>6. PrivilegesKept'
  BY <1>0, <1>1, <1>2, <1>3 DEF PromisesKept, PrivilegesKept, Moves, cred, params
<1>a. /\ cred.effective = server.cred.effective
      /\ cred.keep_caps = server.cred.keep_caps
  BY <1>0 DEF PromisesKept, PrivilegesKept, DoneAsAsked
<1>b. next.keep_caps <=> server.cred.keep_caps \/ "SETPCAP" \in server.cred.effective
  BY <1>2, <1>a
<1>7. DoneAsAsked'
  BY <1>0, <1>1, <1>3, <1>b
     DEF PromisesKept, DoneAsAsked, Additive, Moves, cred, params, AfterGid,
         AfterRlimits, AfterGroups
<1>. QED
  BY <1>5, <1>6, <1>7, Assembled

LEMMA AddInheritableKept ==
  ASSUME PromisesKept, AddInheritable
  PROVE  PromisesKept'
<1>. USE DEF Alive, AfterBound, AfterSeccomp, AfterUid, AfterOverwrite, Ready
<1>. DEFINE asked == params.cap_permitted
            wanted == cred.inheritable \cup Unwrap(asked)
            may == MayStore(cred, cred.effective, cred.permitted, wanted)
            next == Store(cred, cred.effective, cred.permitted, wanted)
<1>0. child.pc = "additive" /\ child.pc \in Alive
  BY DEF AddInheritable
<1>a. IsOption(asked) /\ \A caps \in asked : Unwrap(asked) = caps
  BY <1>0, Living, UnwrapOption DEF ParamFields, ListFields
<1>1. asked # None /\ ~may => ~WellFormed(server.cred)
  <2>. SUFFICES ASSUME asked # None, WellFormed(server.cred) PROVE may
    OBVIOUS
  <2>1. /\ "SETPCAP" \in server.cred.effective
        /\ Unwrap(asked) \subseteq server.cred.bounding \cup server.cred.inheritable
    BY DEF WellFormed, CapsRequestFits
  <2>2. /\ cred.effective = server.cred.effective
        /\ cred.bounding = server.cred.bounding
        /\ cred.inheritable = server.cred.inheritable
    BY <1>0 DEF PromisesKept, PrivilegesKept
  <2>. QED
    BY <1>0, <2>1, <2>2, Living DEF MayStore, CredOK
<1>2. \/ /\ asked # None /\ may /\ Moves("bound", next)
         /\ child'.limits_set = child.limits_set
      \/ /\ asked = None /\ Moves("bound", cred)
         /\ child'.limits_set = child.limits_set
      \/ PromisesKept'
  BY <1>0, <1>1, AfterTable, ExpectIfMoves DEF AddInheritable
<1>3. CASE /\ asked # None /\ may /\ Moves("bound", next)
           /\ child'.limits_set = child.limits_set
  <2>1. /\ DOMAIN next = CredFields
        /\ next.uid = cred.uid /\ next.gid = cred.gid /\ next.groups = cred.groups
        /\ next.permitted = cred.permitted /\ next.effective = cred.effective
        /\ next.inheritable = wanted /\ next.bounding = cred.bounding
        /\ next.no_new_privs = cred.no_new_privs /\ next.filters = cred.filters
        /\ next.ranges = cred.ranges /\ next.limits = cred.limits
        /\ next.domain = cred.domain /\ next.priority = cred.priority
        /\ next.keep_caps = cred.keep_caps
    BY <1>0, Living DEF Store, CredFields
  <2>2. wanted \subseteq Caps
    BY <1>0, <1>3, Living DEF MayStore, CredOK
  <2>3. \A caps \in asked : caps \subseteq wanted
    BY <1>a
  <2>a. wanted = Additive
    <3>1. UNION asked = Unwrap(asked)
      BY <1>3, <1>a DEF None
    <3>2. cred.inheritable = server.cred.inheritable
      BY <1>0 DEF PromisesKept, PrivilegesKept
    <3>. QED
      BY <3>1, <3>2 DEF Additive
  <2>. HIDE DEF next, wanted, may
  <2>4. CredOK(next)
    BY <1>0, <2>1, <2>2, Living DEF CredOK
  <2>5. (ServerTyped /\ ChildTyped /\ EndTruthful /\ PrivilegesSuffice)'
    BY <1>0, <1>3, <2>1, <2>4, Living, MovesInv
  <2>6. PrivilegesKept'
    BY <1>0, <1>3, <2>1, <2>3 DEF PromisesKept, PrivilegesKept, Moves, cred, params
  <2>7. DoneAsAsked'
    BY <1>0, <1>3, <2>1, <2>a
       DEF PromisesKept, DoneAsAsked, Additive, Moves, cred, params, AfterGid,
           AfterRlimits, AfterGroups
  <2>. QED
    BY <2>5, <2>6, <2>7, Assembled
<1>4. CASE /\ asked = None /\ Moves("bound", cred)
           /\ child'.limits_set = child.limits_set
  <2>1. (ServerTyped /\ ChildTyped /\ EndTruthful /\ PrivilegesSuffice)'
    BY <1>0, <1>4, Living, MovesInv
  <2>2. PrivilegesKept'
    BY <1>0, <1>4 DEF PromisesKept, PrivilegesKept, Moves, cred, params, None
  <2>a. cred.inheritable = Additive
    <3>1. UNION asked = {}
      BY <1>4 DEF None
    <3>2. cred.inheritable = server.cred.inheritable
      BY <1>0 DEF PromisesKept, PrivilegesKept
    <3>. QED
      BY <3>1, <3>2 DEF Additive
  <2>3. DoneAsAsked'
    BY <1>0, <1>4, <2>a
       DEF PromisesKept, DoneAsAsked, Additive, Moves, cred, params, AfterGid,
           AfterRlimits, AfterGroups
  <2>. QED
    BY <2>1, <2>2, <2>3, Assembled
<1>. QED
  BY <1>2, <1>3, <1>4

LEMMA DropBoundingKept ==
  ASSUME PromisesKept, DropBounding
  PROVE  PromisesKept'
<1>. USE DEF Alive, AfterBound, AfterSeccomp, AfterUid, AfterOverwrite, Ready
<1>. DEFINE surplus == cred.bounding \ Unwrap(params.cap_bound)
            may == surplus = {} \/ MayDropBound(cred)
            next == DropBound(cred, surplus)
<1>0. child.pc = "bound" /\ child.pc \in Alive
  BY DEF DropBounding
<1>1. params.cap_bound # None /\ ~may => ~WellFormed(server.cred)
  BY <1>0 DEF PromisesKept, PrivilegesKept, WellFormed, CapsRequestFits, MayDropBound
<1>2. \/ /\ params.cap_bound # None /\ may /\ Moves("groups", next)
         /\ child'.limits_set = child.limits_set
      \/ /\ params.cap_bound = None /\ Moves("groups", cred)
         /\ child'.limits_set = child.limits_set
      \/ PromisesKept'
  BY <1>0, <1>1, AfterTable, ExpectIfMoves DEF DropBounding
<1>3. CASE /\ params.cap_bound # None /\ may /\ Moves("groups", next)
           /\ child'.limits_set = child.limits_set
  <2>1. /\ DOMAIN next = CredFields /\ next.bounding \subseteq cred.bounding
        /\ next.uid = cred.uid /\ next.gid = cred.gid
        /\ next.groups = cred.groups /\ next.permitted = cred.permitted
        /\ next.effective = cred.effective /\ next.inheritable = cred.inheritable
        /\ next.keep_caps = cred.keep_caps /\ next.no_new_privs = cred.no_new_privs
        /\ next.filters = cred.filters /\ next.ranges = cred.ranges
        /\ next.limits = cred.limits /\ next.domain = cred.domain
        /\ next.priority = cred.priority
    BY <1>0, Living DEF DropBound, CredFields
  <2>. HIDE DEF next, may
  <2>2. CredOK(next)
    BY <1>0, <2>1, Living DEF CredOK
  <2>3. (ServerTyped /\ ChildTyped /\ EndTruthful /\ PrivilegesSuffice)'
    BY <1>0, <1>3, <2>1, <2>2, Living, MovesInv
  <2>4. PrivilegesKept'
    BY <1>0, <1>3, <2>1 DEF PromisesKept, PrivilegesKept, Moves, cred, params
  <2>5. DoneAsAsked'
    BY <1>0, <1>3, <2>1
       DEF PromisesKept, DoneAsAsked, Additive, Moves, cred, params, AfterGid,
           AfterRlimits, AfterGroups
  <2>. QED
    BY <2>3, <2>4, <2>5, Assembled
<1>4. CASE /\ params.cap_bound = None /\ Moves("groups", cred)
           /\ child'.limits_set = child.limits_set
  <2>1. (ServerTyped /\ ChildTyped /\ EndTruthful /\ PrivilegesSuffice)'
    BY <1>0, <1>4, Living, MovesInv
  <2>2. PrivilegesKept'
    BY <1>0, <1>4 DEF PromisesKept, PrivilegesKept, Moves, cred, params, None
  <2>3. DoneAsAsked'
    BY <1>0, <1>4
       DEF PromisesKept, DoneAsAsked, Additive, Moves, cred, params, AfterGid,
           AfterRlimits, AfterGroups,
           None
  <2>. QED
    BY <2>1, <2>2, <2>3, Assembled
<1>. QED
  BY <1>2, <1>3, <1>4

LEMMA ReplaceGroupsKept ==
  ASSUME PromisesKept, ReplaceGroups
  PROVE  PromisesKept'
<1>. USE DEF Alive, AfterBound, AfterSeccomp, AfterUid, AfterOverwrite, Ready
<1>. DEFINE given == params.secondary_groups # <<>> \/ server.exec
            groups == ToSet(params.secondary_groups)
            next == SetGroups(cred, groups)
<1>0. child.pc = "groups" /\ child.pc \in Alive
  BY DEF ReplaceGroups
<1>1. given /\ ~MaySetGroups(cred) => ~WellFormed(server.cred)
  BY <1>0 DEF PromisesKept, PrivilegesKept, WellFormed, MaySetGroups
<1>2. \/ /\ given /\ Moves("rlimits", next)
         /\ child'.limits_set = child.limits_set
      \/ /\ ~given /\ Moves("rlimits", cred)
         /\ child'.limits_set = child.limits_set
      \/ PromisesKept'
  BY <1>0, <1>1, AfterTable, ExpectIfMoves DEF ReplaceGroups
<1>3. CASE /\ given /\ Moves("rlimits", next)
           /\ child'.limits_set = child.limits_set
  <2>1. /\ DOMAIN next = CredFields /\ next.groups = groups
        /\ next.uid = cred.uid /\ next.gid = cred.gid
        /\ next.permitted = cred.permitted /\ next.effective = cred.effective
        /\ next.inheritable = cred.inheritable /\ next.bounding = cred.bounding
        /\ next.keep_caps = cred.keep_caps /\ next.no_new_privs = cred.no_new_privs
        /\ next.filters = cred.filters /\ next.ranges = cred.ranges
        /\ next.limits = cred.limits /\ next.domain = cred.domain
        /\ next.priority = cred.priority
    BY <1>0, Living DEF SetGroups, CredFields
  <2>. HIDE DEF next
  <2>2. CredOK(next)
    BY <1>0, <2>1, Living DEF CredOK
  <2>3. (ServerTyped /\ ChildTyped /\ EndTruthful /\ PrivilegesSuffice)'
    BY <1>0, <1>3, <2>1, <2>2, Living, MovesInv
  <2>4. PrivilegesKept'
    BY <1>0, <1>3, <2>1 DEF PromisesKept, PrivilegesKept, Moves, cred, params
  <2>5. DoneAsAsked'
    BY <1>0, <1>3, <2>1
       DEF PromisesKept, DoneAsAsked, Additive, Moves, cred, params, AfterGid,
           AfterRlimits, AfterGroups
  <2>. QED
    BY <2>3, <2>4, <2>5, Assembled
<1>4. CASE /\ ~given /\ Moves("rlimits", cred)
           /\ child'.limits_set = child.limits_set
  <2>1. (ServerTyped /\ ChildTyped /\ EndTruthful /\ PrivilegesSuffice)'
    BY <1>0, <1>4, Living, MovesInv
  <2>2. PrivilegesKept'
    BY <1>0, <1>4 DEF PromisesKept, PrivilegesKept, Moves, cred, params, None
  <2>3. DoneAsAsked'
    BY <1>0, <1>4
       DEF PromisesKept, DoneAsAsked, Additive, Moves, cred, params, AfterGid,
           AfterRlimits, AfterGroups,
           None
  <2>. QED
    BY <2>1, <2>2, <2>3, Assembled
<1>. QED
  BY <1>2, <1>3, <1>4

(* setrlimit looks at the last value of each resource.                     *)
LEMMA SetNextRlimitKept ==
  ASSUME PromisesKept, SetNextRlimit
  PROVE  PromisesKept'
<1>. USE DEF Alive, AfterBound, AfterSeccomp, AfterUid, AfterOverwrite, Ready
<1>. DEFINE at == child.limits_set + 1
            limit == params.rlimits[at]
            next == [cred EXCEPT !.limits = SetRlimit(@, limit)]
<1>0. child.pc = "rlimits" /\ child.pc \in Alive
  BY DEF SetNextRlimit
<1>1. /\ params.rlimits \in Seq(RLimit) /\ Len(params.rlimits) \in Nat
      /\ child.limits_set \in Nat
      /\ at \in 1..Len(params.rlimits) /\ at > 0
  <2>1. params.rlimits \in Seq(RLimit) /\ child.limits_set \in 0..Len(params.rlimits)
    BY <1>0, Living DEF DefaultsOK
  <2>2. child.limits_set < Len(params.rlimits)
    BY DEF SetNextRlimit
  <2>. QED
    BY <2>1, <2>2
<1>2. limit \in RLimit /\ limit \in ToSet(params.rlimits)
  BY <1>1 DEF ToSet
<1>3. CASE MaySetRlimit(cred, limit)
  <2>1. /\ child' = [child EXCEPT !.limits_set = @ + 1, !.cred = next]
        /\ UNCHANGED <<server, report>>
    BY <1>3 DEF SetNextRlimit, cred
  <2>2. /\ DOMAIN next = CredFields /\ next.limits = SetRlimit(cred.limits, limit)
        /\ next.uid = cred.uid /\ next.gid = cred.gid
        /\ next.groups = cred.groups /\ next.permitted = cred.permitted
        /\ next.effective = cred.effective /\ next.inheritable = cred.inheritable
        /\ next.bounding = cred.bounding /\ next.keep_caps = cred.keep_caps
        /\ next.no_new_privs = cred.no_new_privs /\ next.filters = cred.filters
        /\ next.ranges = cred.ranges /\ next.domain = cred.domain
        /\ next.priority = cred.priority
    BY <1>0, Living DEF CredFields
  <2>3. /\ DOMAIN next.limits = DOMAIN cred.limits
        /\ next.limits[limit.resource] = [soft |-> limit.soft, hard |-> limit.hard]
    <3>1. limit.resource \in DOMAIN cred.limits
      BY <1>3 DEF MaySetRlimit
    <3>. HIDE DEF limit, next
    <3>. QED
      BY <2>2, <3>1 DEF SetRlimit
  <2>. HIDE DEF next
  <2>4. Moves("rlimits", next) /\ child'.limits_set = at
    BY <1>0, <2>1, AliveIsChild DEF Moves, PromisesKept, ChildTyped, ChildFields
  <2>5. CredOK(next)
    BY <1>0, <2>2, Living DEF CredOK
  <2>6. (ServerTyped /\ ChildTyped /\ EndTruthful /\ PrivilegesSuffice)'
    BY <1>0, <1>1, <2>2, <2>4, <2>5, MovesInv
  <2>7. PrivilegesKept'
    BY <1>0, <2>2, <2>3, <2>4 DEF PromisesKept, PrivilegesKept, Moves, cred, params
  <2>8. DoneAsAsked'
    BY <1>0, <2>2, <2>3, <2>4
       DEF PromisesKept, DoneAsAsked, Additive, Moves, cred, params, AfterGid,
           AfterRlimits, AfterGroups
  <2>. QED
    BY <2>6, <2>7, <2>8, Assembled
<1>4. CASE ~MaySetRlimit(cred, limit)
  <2>1. ~WellFormed(server.cred)
    <3>. SUFFICES ASSUME WellFormed(server.cred) PROVE FALSE
      OBVIOUS
    <3>1. /\ limit.resource \in DOMAIN server.cred.limits /\ limit.soft <= limit.hard
          /\ "SYS_RESOURCE" \in server.cred.effective
      BY <1>2 DEF WellFormed
    <3>. QED
      BY <1>0, <1>4, <3>1 DEF PromisesKept, PrivilegesKept, MaySetRlimit
  <2>2. \E end \in PanicEnds : Ended(end, "panic")
    BY <1>4 DEF SetNextRlimit
  <2>. QED
    BY <1>0, <2>1, <2>2, PanicInv
<1>. QED
  BY <1>3, <1>4

LEMMA RlimitsSetKept ==
  ASSUME PromisesKept, RlimitsSet
  PROVE  PromisesKept'
<1>. USE DEF Alive, AfterBound, AfterSeccomp, AfterUid, AfterOverwrite, Ready
<1>0. /\ child.pc = "rlimits" /\ child.pc \in Alive
      /\ child.limits_set = Len(params.rlimits)
  BY DEF RlimitsSet
<1>1. Moves("gid", cred) /\ child'.limits_set = child.limits_set
  BY <1>0, AfterTable, ProceedMoves DEF RlimitsSet
<1>2. (ServerTyped /\ ChildTyped /\ EndTruthful /\ PrivilegesSuffice)'
  BY <1>0, <1>1, Living, MovesInv
<1>3. PrivilegesKept'
  BY <1>0, <1>1 DEF PromisesKept, PrivilegesKept, Moves, cred, params
<1>4. DoneAsAsked'
  BY <1>0, <1>1
     DEF PromisesKept, DoneAsAsked, Additive, Moves, cred, params, AfterGid,
         AfterRlimits, AfterGroups
<1>. QED
  BY <1>2, <1>3, <1>4, Assembled

LEMMA IdsTyped == \A id \in Nat : Ids(id) \in IdTriple
  BY DEF Ids, IdTriple

LEMMA SetGidKept ==
  ASSUME PromisesKept, SetGid
  PROVE  PromisesKept'
<1>. USE DEF Alive, AfterBound, AfterSeccomp, AfterUid, AfterOverwrite, Ready
<1>. DEFINE id == Unwrap(params.gid)
            may == MaySetResGid(cred, id)
            next == SetResGid(cred, id)
<1>0. child.pc = "gid" /\ child.pc \in Alive
  BY DEF SetGid
<1>a. IsOption(params.gid) /\ \A gid \in params.gid : gid = id
  BY <1>0, Living, UnwrapOption DEF ParamFields, ListFields
<1>1. params.gid # None /\ ~may => ~WellFormed(server.cred)
  <2>. SUFFICES ASSUME params.gid # None, WellFormed(server.cred) PROVE may
    OBVIOUS
  <2>1. id \in params.gid
    BY <1>a DEF None
  <2>2. "SETGID" \in server.cred.effective /\ InRanges(server.cred, id)
    BY <2>1 DEF WellFormed
  <2>3. cred.effective = server.cred.effective /\ cred.ranges = server.cred.ranges
    BY <1>0 DEF PromisesKept, PrivilegesKept
  <2>. QED
    BY <2>2, <2>3 DEF MaySetResGid, InRanges
<1>2. \/ /\ params.gid # None /\ Moves("seccomp", next)
         /\ child'.limits_set = child.limits_set
      \/ /\ params.gid = None /\ Moves("seccomp", cred)
         /\ child'.limits_set = child.limits_set
      \/ PromisesKept'
  BY <1>0, <1>1, AfterTable, ExpectIfMoves DEF SetGid
<1>3. CASE /\ params.gid # None /\ Moves("seccomp", next)
           /\ child'.limits_set = child.limits_set
  <2>1. /\ DOMAIN next = CredFields /\ next.gid = Ids(id)
        /\ next.uid = cred.uid /\ next.groups = cred.groups
        /\ next.permitted = cred.permitted /\ next.effective = cred.effective
        /\ next.inheritable = cred.inheritable /\ next.bounding = cred.bounding
        /\ next.keep_caps = cred.keep_caps /\ next.no_new_privs = cred.no_new_privs
        /\ next.filters = cred.filters /\ next.ranges = cred.ranges
        /\ next.limits = cred.limits /\ next.domain = cred.domain
        /\ next.priority = cred.priority
    BY <1>0, Living DEF SetResGid, CredFields
  <2>2. Ids(id) \in IdTriple
    BY <1>0, <1>3, <1>a, Living, IdsTyped DEF DefaultsOK, None
  <2>. HIDE DEF next
  <2>3. CredOK(next)
    BY <1>0, <2>1, <2>2, Living DEF CredOK
  <2>4. \A gid \in params.gid : next.gid = Ids(gid)
    BY <1>a, <2>1
  <2>5. (ServerTyped /\ ChildTyped /\ EndTruthful /\ PrivilegesSuffice)'
    BY <1>0, <1>3, <2>1, <2>3, Living, MovesInv
  <2>6. PrivilegesKept'
    BY <1>0, <1>3, <2>1 DEF PromisesKept, PrivilegesKept, Moves, cred, params
  <2>7. DoneAsAsked'
    BY <1>0, <1>3, <2>1, <2>4
       DEF PromisesKept, DoneAsAsked, Additive, Moves, cred, params, AfterGid,
           AfterRlimits, AfterGroups
  <2>. QED
    BY <2>5, <2>6, <2>7, Assembled
<1>4. CASE /\ params.gid = None /\ Moves("seccomp", cred)
           /\ child'.limits_set = child.limits_set
  <2>1. (ServerTyped /\ ChildTyped /\ EndTruthful /\ PrivilegesSuffice)'
    BY <1>0, <1>4, Living, MovesInv
  <2>2. PrivilegesKept'
    BY <1>0, <1>4 DEF PromisesKept, PrivilegesKept, Moves, cred, params, None
  <2>3. DoneAsAsked'
    BY <1>0, <1>4
       DEF PromisesKept, DoneAsAsked, Additive, Moves, cred, params, AfterGid,
           AfterRlimits, AfterGroups,
           None
  <2>. QED
    BY <2>1, <2>2, <2>3, Assembled
<1>. QED
  BY <1>2, <1>3, <1>4

(* A child of AndroidNative leaves with a filter: its server could install *)
(* one, or was confined by one already.                                    *)
LEMMA SetSeccompKept ==
  ASSUME ChildInv, PromisesKept, SetSeccomp
  PROVE  PromisesKept'
<1>. USE DEF Alive, AfterBound, AfterSeccomp, AfterUid, AfterOverwrite, Ready
<1>. DEFINE next == SetSeccompFilters(server.species, cred, params, child.payload)
            filters == {"app", "system", "app_zygote"}
<1>0. child.pc = "seccomp" /\ child.pc \in Alive /\ DOMAIN cred = CredFields
  BY Living DEF SetSeccomp
<1>1. ~SeccompAccepts(server.species, params, child.payload) => ~WellFormed(server.cred)
  BY DEF SeccompAccepts, WellFormed
<1>2. \/ Moves("uid", next) /\ child'.limits_set = child.limits_set
      \/ PromisesKept'
  BY <1>0, <1>1, AfterTable, ExpectMoves DEF SetSeccomp
<1>3. ASSUME NEW filter \in filters
      PROVE  LET c == InstallFilter(cred, filter)
             IN /\ DOMAIN c = CredFields
                /\ \A field \in CredFields \ {"filters"} : c[field] = cred[field]
                /\ c.filters \subseteq cred.filters \cup filters
                /\ MayInstallFilter(cred) \/ cred.filters # {} => c.filters # {}
  BY <1>0 DEF InstallFilter, CredFields
<1>4. /\ DOMAIN next = CredFields
      /\ \A field \in CredFields \ {"filters", "no_new_privs"} : next[field] = cred[field]
      /\ next.filters \subseteq cred.filters \cup filters
      /\ server.species = "AndroidNative" /\ (MayInstallFilter(cred) \/ cred.filters # {})
         => next.filters # {}
  <2>1. CASE server.species # "AndroidNative"
    BY <1>0, <2>1 DEF SetSeccompFilters
  <2>2. CASE /\ server.species = "AndroidNative"
             /\ child.payload.variant = "AndroidNativeSubspecies"
    <3>. DEFINE c == InstallFilter(cred, "app_zygote")
    <3>1. next = NoNewPrivs(c)
      BY <2>2 DEF SetSeccompFilters
    <3>2. /\ DOMAIN c = CredFields
          /\ \A field \in CredFields \ {"filters"} : c[field] = cred[field]
          /\ c.filters \subseteq cred.filters \cup filters
          /\ MayInstallFilter(cred) \/ cred.filters # {} => c.filters # {}
      BY <1>3
    <3>. HIDE DEF c
    <3>. QED
      BY <3>1, <3>2 DEF NoNewPrivs, CredFields
  <2>3. CASE /\ server.species = "AndroidNative"
             /\ child.payload.variant # "AndroidNativeSubspecies"
    <3>1. \E filter \in filters : next = InstallFilter(cred, filter)
      BY <2>3 DEF SetSeccompFilters
    <3>. QED
      BY <1>3, <3>1
  <2>. QED
    BY <2>1, <2>2, <2>3
<1>5. server.species = "AndroidNative" => MayInstallFilter(cred) \/ cred.filters # {}
  <2>. SUFFICES ASSUME server.species = "AndroidNative"
                PROVE  MayInstallFilter(cred) \/ cred.filters # {}
    OBVIOUS
  <2>1. server.phase \in {"serving", "exec"} /\ server.depth \in Nat
    BY <1>0 DEF ChildInv, WellShaped
  <2>2. CASE server.depth = 0
    BY <1>0, <2>1, <2>2 DEF ChildInv, ServerConfines, ChildConfined, MayInstallFilter
  <2>3. CASE server.depth > 0
    BY <1>0, <2>3 DEF ChildInv, ServerConfines, ChildConfined
  <2>. QED
    BY <2>1, <2>2, <2>3
<1>. HIDE DEF next
<1>6. CASE Moves("uid", next) /\ child'.limits_set = child.limits_set
  <2>1. /\ next.uid = cred.uid /\ next.gid = cred.gid
        /\ next.groups = cred.groups /\ next.permitted = cred.permitted
        /\ next.effective = cred.effective /\ next.inheritable = cred.inheritable
        /\ next.bounding = cred.bounding /\ next.keep_caps = cred.keep_caps
        /\ next.ranges = cred.ranges /\ next.limits = cred.limits
        /\ next.domain = cred.domain /\ next.priority = cred.priority
    BY <1>4 DEF CredFields
  <2>2. CredOK(next)
    BY <1>0, <1>4, <2>1, Living DEF CredOK
  <2>3. (ServerTyped /\ ChildTyped /\ EndTruthful /\ PrivilegesSuffice)'
    BY <1>0, <1>4, <1>6, <2>2, Living, MovesInv
  <2>4. PrivilegesKept'
    BY <1>0, <1>6, <2>1 DEF PromisesKept, PrivilegesKept, Moves, cred, params
  <2>5. DoneAsAsked'
    BY <1>0, <1>4, <1>5, <1>6, <2>1
       DEF PromisesKept, DoneAsAsked, Additive, Moves, cred, params, AfterGid,
           AfterRlimits, AfterGroups
  <2>. QED
    BY <2>3, <2>4, <2>5, Assembled
<1>. QED
  BY <1>2, <1>6

(* SECBIT_KEEP_CAPS keeps what is permitted over the change of ids.        *)
LEMMA SetUidKept ==
  ASSUME PromisesKept, SetUid
  PROVE  PromisesKept'
<1>. USE DEF Alive, AfterBound, AfterSeccomp, AfterUid, AfterOverwrite, Ready
<1>. DEFINE id == Unwrap(params.uid)
            may == MaySetResUid(cred, id)
            next == SetResUid(cred, id)
<1>0. child.pc = "uid" /\ child.pc \in Alive
  BY DEF SetUid
<1>a. IsOption(params.uid) /\ \A uid \in params.uid : uid = id
  BY <1>0, Living, UnwrapOption DEF ParamFields, ListFields
<1>1. params.uid # None /\ ~may => ~WellFormed(server.cred)
  <2>. SUFFICES ASSUME params.uid # None, WellFormed(server.cred) PROVE may
    OBVIOUS
  <2>1. id \in params.uid
    BY <1>a DEF None
  <2>2. "SETUID" \in server.cred.effective /\ InRanges(server.cred, id)
    BY <2>1 DEF WellFormed
  <2>3. cred.effective = server.cred.effective /\ cred.ranges = server.cred.ranges
    BY <1>0 DEF PromisesKept, PrivilegesKept
  <2>. QED
    BY <2>2, <2>3 DEF MaySetResUid, InRanges
<1>2. \/ /\ params.uid # None /\ Moves("overwrite", next)
         /\ child'.limits_set = child.limits_set
      \/ /\ params.uid = None /\ Moves("overwrite", cred)
         /\ child'.limits_set = child.limits_set
      \/ PromisesKept'
  BY <1>0, <1>1, AfterTable, ExpectIfMoves DEF SetUid
<1>3. CASE /\ params.uid # None /\ Moves("overwrite", next)
           /\ child'.limits_set = child.limits_set
  <2>1. /\ DOMAIN next = CredFields /\ next.uid = Ids(id)
        /\ cred.keep_caps => next.permitted = cred.permitted
        /\ next.gid = cred.gid /\ next.groups = cred.groups
        /\ next.inheritable = cred.inheritable /\ next.bounding = cred.bounding
        /\ next.keep_caps = cred.keep_caps /\ next.no_new_privs = cred.no_new_privs
        /\ next.filters = cred.filters /\ next.ranges = cred.ranges
        /\ next.limits = cred.limits /\ next.domain = cred.domain
        /\ next.priority = cred.priority
    BY <1>0, Living DEF SetResUid, FixCaps, CredFields
  <2>2. /\ next.permitted \subseteq cred.permitted
        /\ next.effective \subseteq next.permitted
    BY <1>0, Living DEF SetResUid, FixCaps, CredFields, CredOK
  <2>3. Ids(id) \in IdTriple
    BY <1>0, <1>3, <1>a, Living, IdsTyped DEF DefaultsOK, None
  <2>. HIDE DEF next
  <2>4. CredOK(next)
    BY <1>0, <2>1, <2>2, <2>3, Living DEF CredOK
  <2>5. \A uid \in params.uid : next.uid = Ids(uid)
    BY <1>a, <2>1
  <2>6. (ServerTyped /\ ChildTyped /\ EndTruthful /\ PrivilegesSuffice)'
    BY <1>0, <1>3, <2>1, <2>4, Living, MovesInv
  <2>7. PrivilegesKept'
    BY <1>0, <1>3, <2>1 DEF PromisesKept, PrivilegesKept, Moves, cred, params
  <2>8. DoneAsAsked'
    BY <1>0, <1>3, <2>1, <2>5
       DEF PromisesKept, DoneAsAsked, Additive, Moves, cred, params, AfterGid,
           AfterRlimits, AfterGroups
  <2>. QED
    BY <2>6, <2>7, <2>8, Assembled
<1>4. CASE /\ params.uid = None /\ Moves("overwrite", cred)
           /\ child'.limits_set = child.limits_set
  <2>1. (ServerTyped /\ ChildTyped /\ EndTruthful /\ PrivilegesSuffice)'
    BY <1>0, <1>4, Living, MovesInv
  <2>2. PrivilegesKept'
    BY <1>0, <1>4 DEF PromisesKept, PrivilegesKept, Moves, cred, params, None
  <2>3. DoneAsAsked'
    BY <1>0, <1>4
       DEF PromisesKept, DoneAsAsked, Additive, Moves, cred, params, AfterGid,
           AfterRlimits, AfterGroups,
           None
  <2>. QED
    BY <2>1, <2>2, <2>3, Assembled
<1>. QED
  BY <1>2, <1>3, <1>4

(* capset: after the change of ids a well-formed request still finds what  *)
(* it takes permitted or inheritable.                                      *)
LEMMA OverwriteCapsKept ==
  ASSUME PromisesKept, OverwriteCaps
  PROVE  PromisesKept'
<1>. USE DEF Alive, AfterBound, AfterSeccomp, AfterUid, AfterOverwrite, Ready
<1>. DEFINE E == params.cap_effective
            P == params.cap_permitted
            I == params.cap_inheritable
            e == UnwrapOr(E, cred.effective)
            p == UnwrapOr(P, cred.permitted)
            i == UnwrapOr(I, cred.inheritable)
            next == Store(cred, e, p, i)
<1>0. child.pc = "overwrite" /\ child.pc \in Alive
  BY DEF OverwriteCaps
<1>a. IsOption(E) /\ IsOption(P) /\ IsOption(I)
  BY <1>0, Living DEF ParamFields, ListFields
<1>b. /\ \A caps \in E : e = caps /\ Unwrap(E) = caps
      /\ \A caps \in P : p = caps /\ Unwrap(P) = caps
      /\ \A caps \in I : i = caps /\ Unwrap(I) = caps
      /\ E = None => e = cred.effective
      /\ P = None => p = cred.permitted
      /\ I = None => i = cred.inheritable
  BY <1>a, UnwrapOption DEF UnwrapOr
<1>c. cred.effective \subseteq cred.permitted
  BY <1>0, Living DEF CredOK
<1>1. ~MayStore(cred, e, p, i) => ~WellFormed(server.cred)
  <2>. SUFFICES ASSUME WellFormed(server.cred) PROVE MayStore(cred, e, p, i)
    OBVIOUS
  <2>. HIDE DEF e, p, i
  <2>1. CASE P # None
    <3>1. PICK caps : caps \in P
      BY <2>1 DEF None
    <3>2. /\ "SETPCAP" \in server.cred.effective /\ E # None
          /\ caps \subseteq server.cred.permitted /\ UNION (E \cup I) \subseteq caps
      BY <1>b, <2>1, <3>1 DEF WellFormed, CapsRequestFits
    <3>3. cred.permitted = server.cred.permitted /\ caps \subseteq cred.inheritable
      BY <1>0, <3>1, <3>2 DEF PromisesKept, PrivilegesKept
    <3>4. p = caps /\ p \subseteq cred.permitted
      BY <1>b, <3>1, <3>2, <3>3
    <3>5. e \subseteq p
      BY <1>b, <3>2, <3>4 DEF None
    <3>6. i \subseteq cred.inheritable
      <4>1. CASE I = None
        BY <1>b, <4>1
      <4>2. CASE I # None
        BY <1>b, <3>2, <3>3, <4>2 DEF None
      <4>. QED
        BY <4>1, <4>2
    <3>. QED
      BY <3>4, <3>5, <3>6 DEF MayStore
  <2>2. CASE P = None
    <3>1. UNION (E \cup I) = {}
      BY <2>2 DEF WellFormed, CapsRequestFits
    <3>2. e \subseteq cred.effective /\ i \subseteq cred.inheritable
      BY <1>b, <3>1 DEF None
    <3>. QED
      BY <1>b, <1>c, <2>2, <3>2 DEF MayStore
  <2>. QED
    BY <2>1, <2>2
<1>2. \/ /\ MayStore(cred, e, p, i) /\ Moves("epilogue", next)
         /\ child'.limits_set = child.limits_set
      \/ PromisesKept'
  BY <1>0, <1>1, AfterTable, ExpectMoves DEF OverwriteCaps
<1>3. CASE /\ MayStore(cred, e, p, i) /\ Moves("epilogue", next)
           /\ child'.limits_set = child.limits_set
  <2>1. /\ DOMAIN next = CredFields
        /\ next.effective = e /\ next.permitted = p /\ next.inheritable = i
        /\ next.uid = cred.uid /\ next.gid = cred.gid
        /\ next.groups = cred.groups /\ next.bounding = cred.bounding
        /\ next.keep_caps = cred.keep_caps /\ next.no_new_privs = cred.no_new_privs
        /\ next.filters = cred.filters /\ next.ranges = cred.ranges
        /\ next.limits = cred.limits /\ next.domain = cred.domain
        /\ next.priority = cred.priority
    BY <1>0, Living DEF Store, CredFields
  <2>a. i = UnwrapOr(params.cap_inheritable, Additive)
    <3>1. cred.inheritable = Additive
      BY <1>0 DEF PromisesKept, DoneAsAsked
    <3>. QED
      BY <3>1
  <2>. HIDE DEF next, e, p, i
  <2>2. CredOK(next)
    BY <1>0, <1>3, <2>1, Living DEF CredOK, MayStore
  <2>3. (ServerTyped /\ ChildTyped /\ EndTruthful /\ PrivilegesSuffice)'
    BY <1>0, <1>3, <2>1, <2>2, Living, MovesInv
  <2>4. PrivilegesKept'
    BY <1>0, <1>3, <2>1 DEF PromisesKept, PrivilegesKept, Moves, cred, params
  <2>5. DoneAsAsked'
    BY <1>0, <1>3, <2>1, <2>a
       DEF PromisesKept, DoneAsAsked, Additive, Moves, cred, params, AfterGid,
           AfterRlimits, AfterGroups
  <2>. QED
    BY <2>3, <2>4, <2>5, Assembled
<1>. QED
  BY <1>2, <1>3

(* The unmarshalled message has some value for what the epilogue needs.    *)
LEMMA EpilogueKept ==
  ASSUME PromisesKept, Epilogue
  PROVE  PromisesKept'
<1>. USE DEF Alive, AfterBound, AfterSeccomp, AfterUid, AfterOverwrite, Ready
<1>. DEFINE next == ReInitializeEpilogue(server.species, cred, params)
<1>0. child.pc = "epilogue" /\ child.pc \in Alive
  BY DEF Epilogue
<1>1. ~EpilogueAccepts(server.species, params) => ~WellFormed(server.cred)
  <2>1. \A field \in NeverAbsent : params[field] # None
    BY <1>0, AliveIsChild DEF PromisesKept, ChildTyped
  <2>. QED
    BY <2>1 DEF EpilogueAccepts, WellFormed, NeverAbsent
<1>2. \/ Moves("born", next) /\ child'.limits_set = child.limits_set
      \/ PromisesKept'
  BY <1>0, <1>1, AfterTable, ExpectMoves DEF Epilogue
<1>3. /\ DOMAIN next = CredFields
      /\ next.uid = cred.uid /\ next.gid = cred.gid
      /\ next.groups = cred.groups /\ next.permitted = cred.permitted
      /\ next.effective = cred.effective /\ next.inheritable = cred.inheritable
      /\ next.bounding = cred.bounding /\ next.keep_caps = cred.keep_caps
      /\ next.filters = cred.filters /\ next.ranges = cred.ranges
      /\ next.limits = cred.limits /\ next.priority = cred.priority
      /\ server.species = "AndroidNative" =>
           /\ next.domain = Some(Domain(params))
           /\ TRUE \in params.no_new_privs => next.no_new_privs
  BY <1>0, Living DEF ReInitializeEpilogue, CredFields
<1>. HIDE DEF next
<1>4. CASE Moves("born", next) /\ child'.limits_set = child.limits_set
  <2>1. CredOK(next)
    BY <1>0, <1>3, Living DEF CredOK
  <2>2. (ServerTyped /\ ChildTyped /\ EndTruthful /\ PrivilegesSuffice)'
    BY <1>0, <1>3, <1>4, <2>1, Living, MovesInv
  <2>3. PrivilegesKept'
    BY <1>0, <1>3, <1>4 DEF PromisesKept, PrivilegesKept, Moves, cred, params
  <2>4. DoneAsAsked'
    BY <1>0, <1>3, <1>4
       DEF PromisesKept, DoneAsAsked, Additive, Moves, cred, params, AfterGid,
           AfterRlimits, AfterGroups
  <2>. QED
    BY <2>2, <2>3, <2>4, Assembled
<1>. QED
  BY <1>2, <1>4

-----------------------------------------------------------------------------
(* After re_initialize.                                                    *)

LEMMA SetPriorityTyped ==
  ASSUME NEW c, DOMAIN c = CredFields, CredOK(c), NEW priority \in Priority
  PROVE  LET d == SetPriority(c, priority)
         IN /\ DOMAIN d = CredFields /\ CredOK(d)
            /\ \A field \in CredFields \ {"priority"} : d[field] = c[field]
<1>. DEFINE d == SetPriority(c, priority)
<1>1. /\ DOMAIN d = CredFields
      /\ \A field \in CredFields \ {"priority"} : d[field] = c[field]
      /\ d.priority \in {priority, c.priority}
  BY DEF SetPriority, CredFields
<1>. HIDE DEF d
<1>2. CredOK(d)
  BY <1>1 DEF CredOK, CredFields
<1>. QED
  BY <1>1, <1>2 DEF d

LEMMA BecomeApplicationKept ==
  ASSUME PromisesKept, BecomeApplication
  PROVE  PromisesKept'
<1>. USE DEF Alive, AfterBound, AfterSeccomp, AfterUid, AfterOverwrite, Ready
<1>. DEFINE next == Gestate(server.species, cred, params)
<1>0. child.pc = "born" /\ child.pc \in Alive
  BY DEF BecomeApplication
<1>1. CASE ~GestateAccepts(server.species, child.payload, server.exec)
  <2>1. ~WellFormed(server.cred)
    BY <1>1 DEF BecomeApplication, GestateAccepts, WellFormed
  <2>. QED
    BY <1>0, <1>1, <2>1, PanicInv DEF BecomeApplication
<1>2. CASE GestateAccepts(server.species, child.payload, server.exec)
  <2>1. Moves("running", next) /\ child'.limits_set = child.limits_set
    BY <1>0, <1>2, BecomeMoves DEF BecomeApplication
  <2>2. /\ DOMAIN next = CredFields /\ CredOK(next)
        /\ \A field \in CredFields \ {"priority"} : next[field] = cred[field]
    <3>1. CASE server.species = "LibApp" /\ params.priority_final # None
      <4>1. Unwrap(params.priority_final) \in Priority
        BY <1>0, <3>1, Living DEF DefaultsOK, Unwrap, None
      <4>2. next = SetPriority(cred, Unwrap(params.priority_final))
        BY <3>1 DEF Gestate
      <4>. QED
        BY <1>0, <4>1, <4>2, Living, SetPriorityTyped
    <3>2. CASE ~(server.species = "LibApp" /\ params.priority_final # None)
      BY <1>0, <3>2, Living DEF Gestate
    <3>. QED
      BY <3>1, <3>2
  <2>. HIDE DEF next
  <2>3. /\ next.keep_caps = cred.keep_caps
        /\ next.uid = cred.uid /\ next.gid = cred.gid
        /\ next.groups = cred.groups /\ next.permitted = cred.permitted
        /\ next.effective = cred.effective /\ next.inheritable = cred.inheritable
        /\ next.bounding = cred.bounding /\ next.no_new_privs = cred.no_new_privs
        /\ next.filters = cred.filters /\ next.ranges = cred.ranges
        /\ next.limits = cred.limits /\ next.domain = cred.domain
    BY <2>2 DEF CredFields
  <2>4. (ServerTyped /\ ChildTyped /\ EndTruthful /\ PrivilegesSuffice)'
    BY <1>0, <2>1, <2>2, Living, MovesInv
  <2>5. PrivilegesKept'
    BY <1>0, <2>1, <2>3 DEF PromisesKept, PrivilegesKept, Moves, cred, params
  <2>6. DoneAsAsked'
    BY <1>0, <2>1, <2>3
       DEF PromisesKept, DoneAsAsked, Additive, Moves, cred, params, AfterGid,
           AfterRlimits, AfterGroups
  <2>. QED
    BY <2>4, <2>5, <2>6, Assembled
<1>. QED
  BY <1>1, <1>2

LEMMA BecomeSubspeciesKept ==
  ASSUME PromisesKept, BecomeSubspecies
  PROVE  PromisesKept'
<1>. USE DEF Alive, AfterBound, AfterSeccomp, AfterUid, AfterOverwrite, Ready
<1>. DEFINE next == Speciate(server.species, cred, child.payload)
<1>0. /\ child.pc = "born" /\ child.pc \in Alive
      /\ child.variant = "SpawnSubspecies" /\ ~server.exec
  BY DEF BecomeSubspecies
<1>1. CASE ~SpeciateAccepts(server.species, child.payload)
  <2>1. ~WellFormed(server.cred)
    BY <1>0, <1>1 DEF SpeciateAccepts, WellFormed
  <2>. QED
    BY <1>0, <1>1, <2>1, PanicInv DEF BecomeSubspecies
<1>2. CASE SpeciateAccepts(server.species, child.payload)
  <2>1. Moves("serving", next) /\ child'.limits_set = child.limits_set
    BY <1>0, <1>2, BecomeMoves DEF BecomeSubspecies
  <2>2. /\ DOMAIN next = CredFields
        /\ next.uid = cred.uid /\ next.gid = cred.gid
        /\ next.groups = cred.groups /\ next.permitted = cred.permitted
        /\ next.effective = cred.effective /\ next.inheritable = cred.inheritable
        /\ next.bounding = cred.bounding /\ next.keep_caps = cred.keep_caps
        /\ next.no_new_privs = cred.no_new_privs /\ next.filters = cred.filters
        /\ next.limits = cred.limits /\ next.domain = cred.domain
        /\ next.priority = cred.priority
    BY <1>0, Living DEF Speciate, InstallRange, CredFields
  <2>. HIDE DEF next
  <2>3. CredOK(next)
    BY <1>0, <2>2, Living DEF CredOK
  <2>4. (ServerTyped /\ ChildTyped /\ EndTruthful /\ PrivilegesSuffice)'
    BY <1>0, <2>1, <2>2, <2>3, Living, MovesInv
  <2>5. PrivilegesKept'
    BY <1>0, <2>1, <2>2 DEF PromisesKept, PrivilegesKept, Moves, cred, params
  <2>6. DoneAsAsked'
    BY <1>0, <2>1, <2>2
       DEF PromisesKept, DoneAsAsked, Additive, Moves, cred, params, AfterGid,
           AfterRlimits, AfterGroups
  <2>. QED
    BY <2>4, <2>5, <2>6, Assembled
<1>. QED
  BY <1>1, <1>2

(* The child is the server from now on, one level deeper.                  *)
LEMMA ServeAsSubspeciesKept ==
  ASSUME ChildInv, PromisesKept, ServeAsSubspecies
  PROVE  PromisesKept'
<1>. USE DEF Alive, AfterBound, AfterSeccomp, AfterUid, AfterOverwrite, Ready
<1>0. /\ child.pc = "serving" /\ child.pc \in Alive /\ child # NoChild
      /\ child' = NoChild /\ child'.pc = "none" /\ report' = report
  BY AliveIsChild DEF ServeAsSubspecies, NoChild
<1>1. /\ server'.cred = cred /\ server'.depth = server.depth + 1
      /\ server'.phase = server.phase /\ server'.species = server.species
      /\ server'.params = server.params
      /\ server'.preload_uid = server.preload_uid
      /\ server'.preload_gid = server.preload_gid
  BY DEF ServeAsSubspecies, ChildInv, WellShaped, ServerFields
<1>2. server.depth < MaxSubspecies /\ MaxSubspecies \in Nat
  BY <1>0, StartAssumption DEF PromisesKept, ChildTyped
<1>3. ServerTyped'
  BY <1>0, <1>1, <1>2, Living DEF PromisesKept, ServerTyped
<1>4. ChildTyped' /\ PrivilegesKept' /\ DoneAsAsked' /\ PrivilegesSuffice'
  BY <1>0 DEF ChildTyped, PrivilegesKept, DoneAsAsked, PrivilegesSuffice
<1>5. EndTruthful'
  BY <1>0 DEF PromisesKept, EndTruthful
<1>. QED
  BY <1>3, <1>4, <1>5 DEF PromisesKept

-----------------------------------------------------------------------------
(* Ends.                                                                   *)

LEMMA EndsKept ==
  ASSUME PromisesKept, AndroidFails \/ ApplicationEnds \/ Killed
  PROVE  PromisesKept'
<1>. USE DEF Alive, AfterBound, AfterSeccomp, AfterUid, AfterOverwrite, Ready
<1>1. CASE AndroidFails
  <2>1. PICK end \in PanicEnds : Ended(end, "android")
    BY <1>1 DEF AndroidFails
  <2>2. child.pc \in Alive
    BY <1>1 DEF AndroidFails
  <2>. QED
    BY <2>1, <2>2, EndedDies, DiesInv, EndAssumption
<1>2. CASE ApplicationEnds
  <2>1. PICK end \in AppEnds : Ended(end, "application")
    BY <1>2 DEF ApplicationEnds
  <2>2. child.pc = "running" /\ child.pc \in Alive
    BY <1>2 DEF ApplicationEnds
  <2>3. params.uid \subseteq {cred.uid.r}
    <3>1. \A uid \in params.uid : cred.uid = Ids(uid)
      BY <2>2 DEF PromisesKept, DoneAsAsked
    <3>2. \A uid : Ids(uid).r = uid
      BY DEF Ids
    <3>. QED
      BY <3>1, <3>2
  <2>. QED
    BY <2>1, <2>2, <2>3, EndedDies, DiesInv, EndAssumption
<1>3. CASE Killed
  <2>1. PICK end \in KillEnds : Ended(end, "signal")
    BY <1>3 DEF Killed
  <2>2. child.pc \in Alive
    BY <1>3 DEF Killed, PromisesKept, ChildTyped, NoChild
  <2>. QED
    BY <2>1, <2>2, EndedDies, DiesInv, EndAssumption
<1>. QED
  BY <1>1, <1>2, <1>3

(* handle_sigchld.                                                         *)
LEMMA ReportEndKept ==
  ASSUME PromisesKept, ReportEnd
  PROVE  PromisesKept'
<1>. USE DEF Alive, AfterBound, AfterSeccomp, AfterUid, AfterOverwrite, Ready
<1>0. child.pc = "ended" /\ child # NoChild /\ server' = server
  BY DEF ReportEnd, NoChild
<1>1. /\ DOMAIN child' = ChildFields /\ child'.pc = "reported"
      /\ child'.cred = child.cred /\ child'.params = child.params
      /\ child'.payload = child.payload /\ child'.variant = child.variant
      /\ child'.limits_set = child.limits_set
      /\ child'.end = child.end /\ child'.cause = child.cause
  BY <1>0 DEF ReportEnd, PromisesKept, ChildTyped, ChildFields
<1>2. child' # NoChild
  BY <1>1 DEF NoChild
<1>3. ServerTyped'
  BY <1>0, <1>2 DEF PromisesKept, ServerTyped
<1>4. ChildTyped'
  BY <1>0, <1>1, <1>2 DEF PromisesKept, ChildTyped, cred, params
<1>5. EndTruthful'
  <2>1. \/ report' = None
        \/ report' = Some([uid |-> cred.uid.r,
                           status |-> RawStatus(SigInfo(Unwrap(child.end)))])
    BY DEF ReportEnd
  <2>. QED
    BY <1>0, <1>1, <2>1 DEF PromisesKept, EndTruthful, cred, params
<1>6. PrivilegesKept' /\ DoneAsAsked'
  BY <1>1 DEF PrivilegesKept, DoneAsAsked
<1>7. PrivilegesSuffice'
  <2>1. WellFormed(server.cred)' <=> WellFormed(server.cred)
    BY <1>0, <1>1, WellFormedStays
  <2>. QED
    BY <1>0, <1>1, <2>1 DEF PromisesKept, PrivilegesSuffice
<1>. QED
  BY <1>3, <1>4, <1>5, <1>6, <1>7 DEF PromisesKept

-----------------------------------------------------------------------------
(* handle_spawn.                                                           *)

(* The message as it arrives: ids and priorities in their ranges, and a    *)
(* value for what cannot be left out on the wire.                          *)
LEMMA UnmarshalledTyped ==
  ASSUME NEW message \in Messages, NEW c \in message.common
  PROVE  LET p == UnmarshalCommon(MarshalCommon(c))
         IN /\ DOMAIN p = ParamFields /\ DefaultsOK(p)
            /\ \A field \in NeverAbsent : p[field] # None
<1>. DEFINE w == MarshalCommon(c)
            p == UnmarshalCommon(w)
<1>2. DOMAIN c = ParamFields
  BY ChildAssumption
<1>3. /\ DOMAIN w = ParamFields
      /\ w.uid = MarshalDefault(c.uid, -1) /\ w.gid = MarshalDefault(c.gid, -1)
      /\ w.priority_initial = MarshalDefault(c.priority_initial, I32_MAX)
      /\ w.priority_final = MarshalDefault(c.priority_final, I32_MAX)
      /\ w.rlimits = [i \in DOMAIN c.rlimits |-> PackRLimit(c.rlimits[i])]
  BY <1>2 DEF MarshalCommon, ParamFields
<1>4. w.uid \in Int /\ w.gid \in Int /\ w.priority_initial \in Int /\ w.priority_final \in Int
  <2>1. ASSUME NEW option, option \subseteq Int, NEW d \in Int
        PROVE  MarshalDefault(option, d) \in Int
    BY <2>1 DEF MarshalDefault, UnwrapOr, Unwrap, None
  <2>2. /\ c.uid \subseteq Int /\ c.gid \subseteq Int
        /\ c.priority_initial \subseteq Int /\ c.priority_final \subseteq Int
    BY MessagesAssumption
  <2>. QED
    BY <1>3, <2>1, <2>2 DEF I32_MAX
<1>. HIDE DEF w
<1>5. /\ DOMAIN p = ParamFields
      /\ p.uid = UnmarshalValidRange(w.uid, IsSetId(w.uid))
      /\ p.gid = UnmarshalValidRange(w.gid, IsSetId(w.gid))
      /\ p.priority_initial =
           UnmarshalValidRange(w.priority_initial, IsPriority(w.priority_initial))
      /\ p.priority_final =
           UnmarshalValidRange(w.priority_final, IsPriority(w.priority_final))
      /\ p.rlimits = [i \in DOMAIN w.rlimits |-> UnpackRLimit(w.rlimits[i])]
      /\ p.selinux_flags = Some(w.selinux_flags)
      /\ p.no_new_privs = Some(w.no_new_privs)
      /\ p.process_name = Some(w.process_name) /\ p.se_info = Some(w.se_info)
  BY <1>3 DEF UnmarshalCommon, ParamFields
<1>. HIDE DEF p
<1>6. p.uid \cup p.gid \subseteq Nat
  BY <1>4, <1>5 DEF UnmarshalValidRange, IsSetId, Some, None
<1>7. p.priority_initial \cup p.priority_final \subseteq Priority
  BY <1>4, <1>5 DEF UnmarshalValidRange, IsPriority, Some, None, Priority
<1>8. p.rlimits \in Seq(RLimit)
  <2>1. c.rlimits \in Seq(RLimit)
    BY MessagesAssumption
  <2>2. ASSUME NEW limit \in RLimit PROVE UnpackRLimit(PackRLimit(limit)) \in RLimit
    BY DEF UnpackRLimit, PackRLimit, RLimit
  <2>3. p.rlimits = [i \in 1..Len(c.rlimits) |-> UnpackRLimit(PackRLimit(c.rlimits[i]))]
    BY <1>3, <1>5, <2>1
  <2>. QED
    BY <2>1, <2>2, <2>3
<1>9. \A field \in NeverAbsent : p[field] # None
  BY <1>5 DEF NeverAbsent, Some, None
<1>. QED
  BY <1>5, <1>6, <1>7, <1>8, <1>9 DEF p, w, DefaultsOK

LEMMA MergedTyped ==
  ASSUME ServerTyped, NEW message \in Messages, message.common # None
  PROVE  LET merged == Merge(ToParcel(message))
         IN /\ DOMAIN merged = ParamFields /\ DefaultsOK(merged)
            /\ \A field \in NeverAbsent : merged[field] # None
<1>. DEFINE p == UnmarshalCommon(Unwrap(ToParcel(message).common))
            q == server.params
            merged == Merge(ToParcel(message))
<1>1. /\ DOMAIN p = ParamFields /\ DefaultsOK(p)
      /\ \A field \in NeverAbsent : p[field] # None
  BY CommonArrives, UnmarshalledTyped
<1>2. DefaultsOK(q)
  BY DEF ServerTyped
<1>. HIDE DEF p
<1>3. merged = Or(p, q)
  BY DEF Merge, p
<1>4. /\ DOMAIN merged = ParamFields /\ merged.rlimits = p.rlimits \o q.rlimits
      /\ \A field \in ParamFields \ ListFields : merged[field] = OrElse(p[field], q[field])
  BY <1>1, <1>3 DEF Or, ParamFields, ListFields
<1>. HIDE DEF merged, q
<1>5. merged.rlimits \in Seq(RLimit)
  BY <1>1, <1>2, <1>4 DEF DefaultsOK
<1>6. \A field \in ParamFields \ ListFields :
        merged[field] \subseteq p[field] \cup q[field]
        /\ (p[field] # None => merged[field] # None)
  BY <1>4 DEF OrElse
<1>7. DefaultsOK(merged)
  BY <1>1, <1>2, <1>5, <1>6 DEF DefaultsOK, ParamFields, ListFields
<1>8. \A field \in NeverAbsent : merged[field] # None
  BY <1>1, <1>6 DEF NeverAbsent, ParamFields, ListFields
<1>. QED
  BY <1>4, <1>7, <1>8 DEF merged

LEMMA SpawnKept ==
  ASSUME ChildInv, PromisesKept, NEW message \in Messages, Spawn(message)
  PROVE  PromisesKept'
<1>. USE DEF Alive, AfterBound, AfterSeccomp, AfterUid, AfterOverwrite, Ready
<1>. DEFINE parcel == ToParcel(message)
            merged == Merge(parcel)
            initial == merged.priority_initial
            born == IF initial = None THEN server.cred
                    ELSE SetPriority(server.cred, Unwrap(initial))
<1>1. /\ child' = Newborn(message, parcel) /\ report' = None
      /\ message.variant = "SpawnSubspecies" => server.depth < MaxSubspecies
  BY DEF Spawn
<1>2. /\ DOMAIN child' = ChildFields /\ child'.pc = "prologue"
      /\ child'.cred = born /\ child'.params = merged
      /\ child'.limits_set = 0 /\ child'.end = None
      /\ child'.variant = message.variant
  <2>1. parcel.variant = message.variant
    BY ChildAssumption DEF ToParcel
  <2>. QED
    BY <1>1, <2>1 DEF Newborn, ChildFields
<1>3. /\ server'.phase \in {"serving", "exec"} /\ server'.cred = server.cred
      /\ server'.depth = server.depth /\ server'.species = server.species
      /\ server'.params = server.params /\ server'.exec = server.exec
      /\ server'.preload_uid = server.preload_uid
      /\ server'.preload_gid = server.preload_gid
  BY DEF Spawn, Idle, ChildInv, WellShaped, ServerFields
<1>4. /\ DOMAIN merged = ParamFields /\ DefaultsOK(merged)
      /\ \A field \in NeverAbsent : merged[field] # None
  BY SpawnHasCommon, MergedTyped DEF PromisesKept
<1>5. \A field \in ParamFields \ ListFields : IsOption(merged[field])
  BY SpawnHasCommon, MergedOptions DEF ChildInv
<1>6. /\ DOMAIN born = CredFields /\ CredOK(born)
      /\ \A field \in CredFields \ {"priority"} : born[field] = server.cred[field]
  <2>1. DOMAIN server.cred = CredFields /\ CredOK(server.cred)
    BY DEF ChildInv, WellShaped, PromisesKept, ServerTyped
  <2>2. CASE initial # None
    <3>1. Unwrap(initial) \in Priority
      BY <1>4, <2>2 DEF DefaultsOK, Unwrap, None
    <3>. QED
      BY <2>1, <2>2, <3>1, SetPriorityTyped
  <2>. QED
    BY <2>1, <2>2
<1>7. /\ born.permitted = server.cred.permitted
      /\ born.effective = server.cred.effective
      /\ born.inheritable = server.cred.inheritable
      /\ born.bounding = server.cred.bounding /\ born.groups = server.cred.groups
      /\ born.filters = server.cred.filters /\ born.ranges = server.cred.ranges
      /\ born.limits = server.cred.limits /\ born.keep_caps = server.cred.keep_caps
  BY <1>6 DEF CredFields
<1>8. 0 \in 0..Len(merged.rlimits)
  BY <1>4 DEF DefaultsOK
<1>. HIDE DEF born, merged, parcel
<1>9. child' # NoChild
  BY <1>2 DEF NoChild
<1>10. ServerTyped'
  BY <1>3 DEF PromisesKept, ServerTyped, ServerPhases
<1>11. ChildTyped'
  BY <1>1, <1>2, <1>3, <1>4, <1>5, <1>6, <1>8 DEF ChildTyped, cred, params
<1>12. EndTruthful' /\ PrivilegesSuffice'
  BY <1>1, <1>2 DEF EndTruthful, PrivilegesSuffice
<1>13. PrivilegesKept'
  BY <1>2, <1>3, <1>7 DEF PrivilegesKept, cred, params
<1>14. DoneAsAsked'
  BY <1>2, <1>3, <1>7
     DEF DoneAsAsked, cred, params, AfterGid, AfterRlimits, AfterGroups
<1>. QED
  BY <1>10, <1>11, <1>12, <1>13, <1>14 DEF PromisesKept

(* The server ends, with a child or without.                               *)
LEMMA PanicInServerKept ==
  ASSUME ChildInv, PromisesKept, NEW message \in Messages, PanicInServer(message)
  PROVE  PromisesKept'
<1>. USE DEF Alive, AfterBound, AfterSeccomp, AfterUid, AfterOverwrite, Ready
<1>1. /\ child' = child /\ report' = report /\ child.pc \in {"none", "reported"}
      /\ server'.phase = "panicked" /\ server'.cred = server.cred
      /\ server'.depth = server.depth /\ server'.species = server.species
      /\ server'.params = server.params /\ server'.exec = server.exec
      /\ server'.preload_uid = server.preload_uid
      /\ server'.preload_gid = server.preload_gid
  BY DEF PanicInServer, Idle, ChildInv, WellShaped, ServerFields
<1>2. ServerTyped'
  BY <1>1 DEF PromisesKept, ServerTyped, ServerPhases
<1>3. ChildTyped' /\ EndTruthful'
  BY <1>1 DEF PromisesKept, ChildTyped, EndTruthful, cred, params
<1>4. PrivilegesKept' /\ DoneAsAsked'
  BY <1>1 DEF PrivilegesKept, DoneAsAsked
<1>5. PrivilegesSuffice'
  <2>1. WellFormed(server.cred)' <=> WellFormed(server.cred)
    BY <1>1 DEF WellFormed, CapsRequestFits, params
  <2>. QED
    BY <1>1, <2>1 DEF PromisesKept, PrivilegesSuffice
<1>. QED
  BY <1>2, <1>3, <1>4, <1>5 DEF PromisesKept

-----------------------------------------------------------------------------
(* The effective id context.                                               *)

LEMMA EffectiveTyped ==
  ASSUME NEW ids \in IdTriple, NEW id \in Nat
  PROVE  LET d == Effective(ids, id)
         IN d \in IdTriple /\ d.e = id /\ d.r = ids.r
  BY DEF Effective, IdTriple

LEMMA SetEGidTyped ==
  ASSUME NEW c, DOMAIN c = CredFields, CredOK(c), NEW id \in Nat
  PROVE  LET d == SetEGid(c, id)
         IN /\ DOMAIN d = CredFields /\ CredOK(d)
            /\ \A field \in CredFields \ {"gid"} : d[field] = c[field]
            /\ d.gid.e = id /\ d.gid.r = c.gid.r
<1>. DEFINE gid == Effective(c.gid, id)
            d == SetEGid(c, id)
<1>1. gid \in IdTriple /\ gid.e = id /\ gid.r = c.gid.r
  BY EffectiveTyped DEF CredOK
<1>. HIDE DEF gid
<1>2. d = [c EXCEPT !.gid = gid]
  BY DEF SetEGid, gid
<1>. HIDE DEF d
<1>3. /\ DOMAIN d = CredFields /\ d.gid = gid
      /\ \A field \in CredFields \ {"gid"} : d[field] = c[field]
  BY <1>2 DEF CredFields
<1>4. CredOK(d)
  BY <1>1, <1>3 DEF CredOK, CredFields
<1>. QED
  BY <1>1, <1>3, <1>4 DEF d

LEMMA SetEUidTyped ==
  ASSUME NEW c, DOMAIN c = CredFields, CredOK(c), NEW id \in Nat
  PROVE  LET d == SetEUid(c, id)
         IN /\ DOMAIN d = CredFields /\ CredOK(d)
            /\ \A field \in CredFields \ {"uid", "permitted", "effective"} :
                 d[field] = c[field]
            /\ d.uid.e = id /\ d.uid.r = c.uid.r
<1>. DEFINE uid == Effective(c.uid, id)
            d == SetEUid(c, id)
<1>1. uid \in IdTriple /\ uid.e = id /\ uid.r = c.uid.r
  BY EffectiveTyped DEF CredOK
<1>. HIDE DEF uid
<1>2. d = FixCaps(c, uid)
  BY DEF SetEUid, uid
<1>. HIDE DEF d
<1>3. /\ DOMAIN d = CredFields /\ d.uid = uid
      /\ \A field \in CredFields \ {"uid", "permitted", "effective"} :
           d[field] = c[field]
      /\ d.permitted \subseteq c.permitted /\ d.effective \subseteq d.permitted
  BY <1>2 DEF FixCaps, CredFields, CredOK
<1>4. CredOK(d)
  BY <1>1, <1>3 DEF CredOK, CredFields
<1>. QED
  BY <1>1, <1>3, <1>4 DEF d

(* Before it serves a server has no child and has reported none.           *)
LEMMA ServerAloneKept ==
  ASSUME ChildInv, PromisesKept, server.phase \in {"new", "preloading"},
         UNCHANGED <<child, report>>, server'.phase \in ServerPhases,
         server'.depth = server.depth, server'.species = server.species,
         server'.params = server.params,
         server'.preload_uid = server.preload_uid,
         server'.preload_gid = server.preload_gid, CredOK(server'.cred)
  PROVE  PromisesKept'
<1>. USE DEF Alive, AfterBound, AfterSeccomp, AfterUid, AfterOverwrite, Ready
<1>1. child = NoChild /\ child.pc = "none"
  BY DEF PromisesKept, ServerTyped, NoChild
<1>2. ServerTyped'
  BY <1>1 DEF PromisesKept, ServerTyped
<1>3. ChildTyped' /\ EndTruthful'
  BY <1>1 DEF PromisesKept, ChildTyped, EndTruthful, cred, params
<1>4. PrivilegesKept' /\ DoneAsAsked' /\ PrivilegesSuffice'
  BY <1>1 DEF PrivilegesKept, DoneAsAsked, PrivilegesSuffice
<1>. QED
  BY <1>2, <1>3, <1>4 DEF PromisesKept

LEMMA OptionTyped ==
  ASSUME NEW option, IsOption(option), option \subseteq Nat, option # None
  PROVE  Unwrap(option) \in Nat /\ \A x \in option : Unwrap(option) = x
  BY UnwrapOption DEF None

(* setreuid, then setregid: both ids are taken on, or the server fails.    *)
LEMMA EnterContextEffect ==
  ASSUME ChildInv, PromisesKept, EnterContext
  PROVE  /\ UNCHANGED <<child, report>>
         /\ server'.depth = server.depth /\ server'.species = server.species
         /\ server'.params = server.params
         /\ server'.preload_uid = server.preload_uid
         /\ server'.preload_gid = server.preload_gid
         /\ CredOK(server'.cred) /\ server'.cred.uid.r = server.cred.uid.r
         /\ server'.cred.gid.r = server.cred.gid.r
         /\ \/ server'.phase = "failed"
            \/ /\ server'.phase = "preloading"
               /\ \A uid \in server.preload_uid :
                    /\ server'.cred.uid.e = uid
                    /\ server'.cred.effective = SetEUid(server.cred, uid).effective
                    /\ server'.cred.permitted = SetEUid(server.cred, uid).permitted
               /\ \A gid \in server.preload_gid : server'.cred.gid.e = gid
               /\ server.preload_uid = None =>
                    /\ server'.cred.uid = server.cred.uid
                    /\ server'.cred.effective = server.cred.effective
                    /\ server'.cred.permitted = server.cred.permitted
               /\ server.preload_gid = None => server'.cred.gid = server.cred.gid
<1>. DEFINE U == server.preload_uid
            G == server.preload_gid
            uidFails == U # None /\ ~MaySetEUid(server.cred, Unwrap(U))
            c1 == IF U = None \/ uidFails THEN server.cred
                  ELSE SetEUid(server.cred, Unwrap(U))
            gidFails == G # None /\ ~MaySetEGid(c1, Unwrap(G))
            c2 == IF G = None \/ gidFails THEN c1 ELSE SetEGid(c1, Unwrap(G))
<1>0. /\ UNCHANGED <<child, report>>
      /\ server' = IF uidFails \/ gidFails
                   THEN [server EXCEPT !.phase = "failed", !.cred = c1]
                   ELSE [server EXCEPT !.phase = "preloading", !.cred = c2]
  BY DEF EnterContext
<1>1. /\ DOMAIN server = ServerFields /\ DOMAIN server.cred = CredFields
      /\ CredOK(server.cred)
  BY DEF ChildInv, WellShaped, PromisesKept, ServerTyped
<1>2. /\ U # None => Unwrap(U) \in Nat /\ \A x \in U : Unwrap(U) = x
      /\ G # None => Unwrap(G) \in Nat /\ \A x \in G : Unwrap(G) = x
  BY OptionTyped DEF PromisesKept, ServerTyped
<1>3. /\ DOMAIN c1 = CredFields /\ CredOK(c1) /\ c1.uid.r = server.cred.uid.r
      /\ c1.gid = server.cred.gid
      /\ U # None /\ ~uidFails =>
           /\ c1 = SetEUid(server.cred, Unwrap(U)) /\ c1.uid.e = Unwrap(U)
      /\ U = None => c1 = server.cred
  <2>1. CASE U = None \/ uidFails
    BY <1>1, <2>1
  <2>2. CASE ~(U = None \/ uidFails)
    <3>1. c1 = SetEUid(server.cred, Unwrap(U))
      BY <2>2
    <3>. HIDE DEF c1, uidFails
    <3>2. Unwrap(U) \in Nat /\ "gid" \in CredFields \ {"uid", "permitted", "effective"}
      BY <1>2, <2>2 DEF CredFields
    <3>. DEFINE id == Unwrap(U)
    <3>. HIDE DEF id
    <3>3. LET d == SetEUid(server.cred, id)
          IN /\ DOMAIN d = CredFields /\ CredOK(d)
             /\ \A field \in CredFields \ {"uid", "permitted", "effective"} :
                  d[field] = server.cred[field]
             /\ d.uid.e = id /\ d.uid.r = server.cred.uid.r
      BY <1>1, <3>2, SetEUidTyped DEF id
    <3>4. /\ DOMAIN c1 = CredFields /\ CredOK(c1)
          /\ c1.gid = server.cred.gid
          /\ c1.uid.e = Unwrap(U) /\ c1.uid.r = server.cred.uid.r
      BY <3>1, <3>2, <3>3 DEF id
    <3>. QED
      BY <2>2, <3>1, <3>4
  <2>. QED
    BY <2>1, <2>2
<1>. HIDE DEF uidFails, c1
<1>4. /\ DOMAIN c2 = CredFields /\ CredOK(c2) /\ c2.uid = c1.uid
      /\ c2.effective = c1.effective /\ c2.permitted = c1.permitted
      /\ c2.gid.r = c1.gid.r
      /\ G # None /\ ~gidFails => c2.gid.e = Unwrap(G)
      /\ G = None => c2 = c1
  <2>1. CASE G = None \/ gidFails
    BY <1>3, <2>1
  <2>2. CASE ~(G = None \/ gidFails)
    <3>1. c2 = SetEGid(c1, Unwrap(G))
      BY <2>2
    <3>. HIDE DEF c2, gidFails
    <3>2. /\ Unwrap(G) \in Nat
          /\ {"uid", "effective", "permitted"} \subseteq CredFields \ {"gid"}
      BY <1>2, <2>2 DEF CredFields
    <3>3. /\ DOMAIN c2 = CredFields /\ CredOK(c2) /\ c2.uid = c1.uid
          /\ c2.effective = c1.effective /\ c2.permitted = c1.permitted
          /\ c2.gid.e = Unwrap(G) /\ c2.gid.r = c1.gid.r
      BY <1>3, <3>1, <3>2, SetEGidTyped
    <3>. QED
      BY <2>2, <3>3
  <2>. QED
    BY <2>1, <2>2
<1>. HIDE DEF gidFails, c2
<1>5. /\ server'.depth = server.depth /\ server'.species = server.species
      /\ server'.params = server.params
      /\ server'.preload_uid = U /\ server'.preload_gid = G
      /\ \/ server'.phase = "failed" /\ server'.cred = c1
         \/ /\ server'.phase = "preloading" /\ server'.cred = c2
            /\ ~uidFails /\ ~gidFails
  BY <1>0, <1>1 DEF ServerFields
<1>6. CASE server'.phase = "failed" /\ server'.cred = c1
  BY <1>0, <1>3, <1>5, <1>6
<1>7. CASE /\ server'.phase = "preloading" /\ server'.cred = c2
           /\ ~uidFails /\ ~gidFails
  <2>1. \A uid \in U :
          /\ c2.uid.e = uid
          /\ c2.effective = SetEUid(server.cred, uid).effective
          /\ c2.permitted = SetEUid(server.cred, uid).permitted
    BY <1>2, <1>3, <1>4, <1>7 DEF None
  <2>2. \A gid \in G : c2.gid.e = gid
    BY <1>2, <1>4, <1>7 DEF None
  <2>. QED
    BY <1>0, <1>3, <1>4, <1>5, <1>7, <2>1, <2>2
<1>. QED
  BY <1>5, <1>6, <1>7

(* The way back is always open: the real ids are among the three.          *)
LEMMA LeaveContextEffect ==
  ASSUME ChildInv, PromisesKept, LeaveContext
  PROVE  /\ UNCHANGED <<child, report>>
         /\ server'.depth = server.depth /\ server'.species = server.species
         /\ server'.params = server.params
         /\ server'.preload_uid = server.preload_uid
         /\ server'.preload_gid = server.preload_gid
         /\ CredOK(server'.cred) /\ server'.phase = "serving"
         /\ IF server.preload_uid = None
            THEN /\ server'.cred.uid = server.cred.uid
                 /\ server'.cred.effective = server.cred.effective
                 /\ server'.cred.permitted = server.cred.permitted
            ELSE LET c == SetEUid(server.cred, server.cred.uid.r)
                 IN /\ server'.cred.uid = c.uid /\ c.uid.e = c.uid.r
                    /\ server'.cred.effective = c.effective
                    /\ server'.cred.permitted = c.permitted
         /\ IF server.preload_gid = None THEN server'.cred.gid = server.cred.gid
            ELSE server'.cred.gid.e = server'.cred.gid.r
<1>. DEFINE c0 == server.cred
            c1 == IF server.preload_uid = None THEN c0 ELSE SetEUid(c0, c0.uid.r)
            c2 == IF server.preload_gid = None THEN c1 ELSE SetEGid(c1, c1.gid.r)
<1>1. MaySetEUid(c0, c0.uid.r) /\ MaySetEGid(c1, c1.gid.r)
  BY DEF MaySetEUid, MaySetEGid
<1>2. /\ UNCHANGED <<child, report>>
      /\ server' = [server EXCEPT !.phase = "serving", !.cred = c2]
  BY <1>1 DEF LeaveContext
<1>3. DOMAIN server = ServerFields /\ DOMAIN c0 = CredFields /\ CredOK(c0)
  BY DEF ChildInv, WellShaped, PromisesKept, ServerTyped
<1>4. c0.uid.r \in Nat
  BY <1>3 DEF CredOK, IdTriple
<1>. HIDE DEF c0
<1>5. /\ DOMAIN c1 = CredFields /\ CredOK(c1) /\ c1.gid = c0.gid
      /\ server.preload_uid # None => c1.uid.e = c1.uid.r
  <2>1. CASE server.preload_uid = None
    BY <1>3, <2>1
  <2>2. CASE server.preload_uid # None
    <3>1. c1 = SetEUid(c0, c0.uid.r)
      BY <2>2
    <3>. HIDE DEF c1
    <3>. QED
      BY <1>3, <1>4, <2>2, <3>1, SetEUidTyped DEF CredFields
  <2>. QED
    BY <2>1, <2>2
<1>6. /\ server.preload_uid = None => c1 = c0
      /\ server.preload_uid # None => c1 = SetEUid(c0, c0.uid.r)
  OBVIOUS
<1>. HIDE DEF c1
<1>7. c1.gid.r \in Nat
  BY <1>5 DEF CredOK, IdTriple
<1>8. /\ DOMAIN c2 = CredFields /\ CredOK(c2) /\ c2.uid = c1.uid
      /\ c2.effective = c1.effective /\ c2.permitted = c1.permitted
      /\ server.preload_gid = None => c2.gid = c0.gid
      /\ server.preload_gid # None => c2.gid.e = c2.gid.r
  <2>1. CASE server.preload_gid = None
    BY <1>5, <2>1
  <2>2. CASE server.preload_gid # None
    <3>1. c2 = SetEGid(c1, c1.gid.r)
      BY <2>2
    <3>. HIDE DEF c2
    <3>. QED
      BY <1>5, <1>7, <2>2, <3>1, SetEGidTyped DEF CredFields
  <2>. QED
    BY <2>1, <2>2
<1>. HIDE DEF c2
<1>9. /\ server'.cred = c2 /\ server'.phase = "serving"
      /\ server'.depth = server.depth /\ server'.species = server.species
      /\ server'.params = server.params
      /\ server'.preload_uid = server.preload_uid
      /\ server'.preload_gid = server.preload_gid
  BY <1>2, <1>3 DEF ServerFields
<1>. QED
  BY <1>2, <1>5, <1>6, <1>8, <1>9 DEF c0

-----------------------------------------------------------------------------
(* The invariant.                                                          *)

LEMMA InitKept ==
  ASSUME Init
  PROVE  PromisesKept
<1>1. server \in Starts /\ child = NoChild /\ child.pc = "none" /\ report = None
  BY DEF Init, NoChild
<1>2. ServerTyped
  BY <1>1, ChildAssumption, StartAssumption DEF ServerTyped, ServerPhases
<1>3. ChildTyped /\ EndTruthful /\ PrivilegesKept /\ DoneAsAsked /\ PrivilegesSuffice
  BY <1>1
     DEF ChildTyped, EndTruthful, PrivilegesKept, DoneAsAsked, PrivilegesSuffice,
         Alive, AfterBound, AfterSeccomp, AfterUid, AfterOverwrite, Ready
<1>. QED
  BY <1>2, <1>3 DEF PromisesKept

LEMMA ContextKept ==
  ASSUME ChildInv, PromisesKept, EnterContext \/ LeaveContext
  PROVE  PromisesKept'
<1>1. CASE EnterContext
  <2>1. server.phase = "new"
    BY <1>1 DEF EnterContext
  <2>. QED
    BY <1>1, <2>1, EnterContextEffect, ServerAloneKept DEF ServerPhases
<1>2. CASE LeaveContext
  <2>1. server.phase = "preloading"
    BY <1>2 DEF LeaveContext
  <2>. QED
    BY <1>2, <2>1, LeaveContextEffect, ServerAloneKept DEF ServerPhases
<1>. QED
  BY <1>1, <1>2

LEMMA NextKept ==
  ASSUME ChildInv, PromisesKept, [Next]_vars
  PROVE  PromisesKept'
<1>1. CASE UNCHANGED vars
  <2>1. server' = server /\ child' = child /\ report' = report
    BY <1>1 DEF vars
  <2>2. ServerTyped' /\ ChildTyped' /\ EndTruthful'
    BY <2>1 DEF PromisesKept, ServerTyped, ChildTyped, EndTruthful, cred, params
  <2>a. PrivilegesKept'
    BY <2>1 DEF PromisesKept, PrivilegesKept, cred, params
  <2>b. DoneAsAsked'
    BY <2>1 DEF PromisesKept, DoneAsAsked, Additive, cred, params
  <2>3. PrivilegesKept' /\ DoneAsAsked'
    BY <2>a, <2>b
  <2>4. WellFormed(server.cred)' <=> WellFormed(server.cred)
    BY <2>1, WellFormedStays
  <2>5. PrivilegesSuffice'
    BY <2>1, <2>4 DEF PromisesKept, PrivilegesSuffice
  <2>. QED
    BY <2>2, <2>3, <2>5 DEF PromisesKept
<1>2. CASE EnterContext \/ LeaveContext
  BY <1>2, ContextKept
<1>3. ASSUME NEW message \in Messages, Spawn(message) \/ PanicInServer(message)
      PROVE  PromisesKept'
  BY <1>3, SpawnKept, PanicInServerKept
<1>4. CASE ReInitialize
  BY <1>4, PrologueKept, SetSecureBitsKept, AddInheritableKept, DropBoundingKept,
     ReplaceGroupsKept, SetNextRlimitKept, RlimitsSetKept, SetGidKept, SetSeccompKept,
     SetUidKept, OverwriteCapsKept, EpilogueKept
     DEF ReInitialize
<1>5. CASE BecomeApplication \/ BecomeSubspecies \/ ServeAsSubspecies
  BY <1>5, BecomeApplicationKept, BecomeSubspeciesKept, ServeAsSubspeciesKept
<1>6. CASE AndroidFails \/ ApplicationEnds \/ Killed \/ ReportEnd
  BY <1>6, EndsKept, ReportEndKept
<1>. QED
  BY <1>1, <1>2, <1>3, <1>4, <1>5, <1>6 DEF Next, ChildStep

(* From the message to the datagram: every step of a child leaves what its *)
(* later steps, its parent and the system server rely on.                  *)
THEOREM SpawningKeepsPromises == Spec => []SpawningInv
<1>1. Init => PromisesKept
  BY InitKept
<1>2. ChildInv /\ PromisesKept /\ [Next]_vars => PromisesKept'
  BY NextKept
<1>3. ChildInv /\ PromisesKept => SpawningInv
  BY DEF SpawningInv
<1>. QED
  BY <1>1, <1>2, <1>3, SpawningInvariant, PTL DEF Spec

-----------------------------------------------------------------------------
(* What it is good for.                                                    *)

(* re_initialize: the calls are made in an order in which none takes away  *)
(* a privilege that a later one needs: a request within the server's own   *)
(* credentials never ends in a panic of the child.                         *)
THEOREM PrivilegesLast == Spec => []PrivilegesSuffice
<1>1. SpawningInv => PrivilegesSuffice
  BY DEF SpawningInv, PromisesKept
<1>. QED
  BY <1>1, SpawningKeepsPromises, PTL

(* CapabilitiesSet: an application or subspecies zygote has exactly the    *)
(* capability sets that were asked for, never more of its parent's, and of *)
(* what re_initialize adds for its own sake exactly the inheritable        *)
(* capabilities and the SECBIT_KEEP_CAPS that no later call takes back.    *)
THEOREM ChildrenGainNothing == Spec => []NoExtraPrivilege
<1>1. ASSUME ChildInv, PromisesKept PROVE NoExtraPrivilege
  <2>. USE <1>1 DEF Alive, AfterBound, AfterSeccomp, AfterUid, AfterOverwrite, Ready
  <2>. SUFFICES ASSUME child.pc \in Settled PROVE NoExtraPrivilege
    BY DEF NoExtraPrivilege
  <2>1. child.pc \in Ready
    BY DEF Settled
  <2>2. /\ \A caps \in params.cap_permitted : cred.permitted = caps
        /\ \A caps \in params.cap_effective : cred.effective = caps
        /\ \A caps \in params.cap_bound : cred.bounding \subseteq caps
        /\ cred.permitted \subseteq server.cred.permitted
        /\ cred.bounding \subseteq server.cred.bounding
    BY <2>1 DEF ChildInv, CapsBounded
  <2>3. /\ cred.inheritable = UnwrapOr(params.cap_inheritable, Additive)
        /\ cred.keep_caps <=>
             server.cred.keep_caps \/ "SETPCAP" \in server.cred.effective
    BY <2>1 DEF PromisesKept, DoneAsAsked
  <2>. QED
    BY <2>2, <2>3 DEF NoExtraPrivilege
<1>. QED
  BY <1>1, SpawningKeepsPromises, PTL DEF SpawningInv

(* re_initialize: a child that has become an application or a server has   *)
(* the ids, groups, limits, domain and filter that were asked for.         *)
THEOREM AskedIsDone == Spec => []RunsAsAsked
<1>1. ASSUME PromisesKept PROVE RunsAsAsked
  <2>. USE <1>1 DEF Alive, AfterBound, AfterSeccomp, AfterUid, AfterOverwrite, Ready,
                   AfterGid, AfterRlimits, AfterGroups
  <2>. SUFFICES ASSUME child.pc \in Settled PROVE RunsAsAsked
    BY DEF RunsAsAsked
  <2>1. child.pc \in Ready /\ child.pc \in Alive
    BY DEF Settled
  <2>2. /\ \A uid \in params.uid : cred.uid = Ids(uid)
        /\ \A gid \in params.gid : cred.gid = Ids(gid)
        /\ cred.groups = IF params.secondary_groups = <<>> /\ ~server.exec
                         THEN server.cred.groups ELSE ToSet(params.secondary_groups)
        /\ server.species = "AndroidNative" =>
             /\ cred.domain = Some(Domain(params))
             /\ cred.filters # {}
             /\ TRUE \in params.no_new_privs => cred.no_new_privs
    BY <2>1 DEF PromisesKept, DoneAsAsked
  <2>3. ASSUME params.rlimits # <<>>
        PROVE  LET limit == Last(params.rlimits)
               IN cred.limits[limit.resource] = [soft |-> limit.soft, hard |-> limit.hard]
    <3>1. params.rlimits \in Seq(RLimit)
      BY <2>1, Living DEF DefaultsOK
    <3>a. Len(params.rlimits) > 0
      BY <2>3, <3>1
    <3>b. child.limits_set = Len(params.rlimits)
      BY <2>1 DEF PromisesKept, DoneAsAsked
    <3>2. child.limits_set = Len(params.rlimits) /\ child.limits_set > 0
      BY <3>a, <3>b
    <3>3. Last(params.rlimits) = params.rlimits[child.limits_set]
      BY <3>2 DEF Last
    <3>. QED
      BY <2>1, <3>2, <3>3 DEF PromisesKept, DoneAsAsked
  <2>. QED
    BY <2>2, <2>3 DEF RunsAsAsked
<1>2. SpawningInv => PromisesKept
  BY DEF SpawningInv
<1>. QED
  BY <1>1, <1>2, SpawningKeepsPromises, PTL

(* The status word that is sent stands for the end it was made from.       *)
LEMMA StatusDecodes ==
  ASSUME NEW end \in End
  PROVE  /\ FromStatus(RawStatus(SigInfo(end))) = FromSigInfo(SigInfo(end))
         /\ FromSigInfo(SigInfo(end)) = [record |-> "Exited", status |-> 0]
            => end = [how |-> "exit", value |-> 0]
<1>1. CASE end \in [how : {"exit"}, value : 0..255]
  <2>1. end.how = "exit" /\ end.value \in 0..255
    BY <1>1
  <2>2. SigInfo(end) = [code |-> "CLD_EXITED", status |-> end.value]
    BY <2>1 DEF SigInfo
  <2>3. RawStatus(SigInfo(end)) = end.value * 256
    BY <2>1, <2>2 DEF RawStatus, W_EXITCODE
  <2>4. (end.value * 256) % 128 = 0 /\ ((end.value * 256) \div 256) % 256 = end.value
    BY <2>1
  <2>5. /\ FromSigInfo(SigInfo(end)) = [record |-> "Exited", status |-> end.value]
        /\ FromStatus(RawStatus(SigInfo(end))) = [record |-> "Exited", status |-> end.value]
    BY <2>2, <2>3, <2>4
       DEF FromSigInfo, FromStatus, WIFEXITED, WEXITSTATUS, WTERMSIG
  <2>6. end = [how |-> "exit", value |-> end.value]
    BY <1>1
  <2>. QED
    BY <2>5, <2>6
<1>2. CASE end \in [how : {"kill", "dump"}, value : 1..126]
  <2>1. end.how \in {"kill", "dump"} /\ end.value \in 1..126
    BY <1>2
  <2>2. /\ SigInfo(end).status = end.value
        /\ SigInfo(end).code = IF end.how = "kill" THEN "CLD_KILLED" ELSE "CLD_DUMPED"
    BY <2>1 DEF SigInfo
  <2>3. end.value % 128 = end.value /\ (end.value + 128) % 128 = end.value
    BY <2>1
  <2>4. RawStatus(SigInfo(end)) \in {end.value, end.value + 128}
    BY <2>1, <2>2, <2>3 DEF RawStatus, W_EXITCODE, CoreFlag
  <2>5. WTERMSIG(RawStatus(SigInfo(end))) = end.value
    BY <2>3, <2>4 DEF WTERMSIG
  <2>6. /\ FromSigInfo(SigInfo(end)) = [record |-> "Signaled", signal |-> end.value]
        /\ FromStatus(RawStatus(SigInfo(end))) = [record |-> "Signaled", signal |-> end.value]
    BY <2>1, <2>2, <2>5 DEF FromSigInfo, FromStatus, WIFEXITED, WIFSIGNALED
  <2>7. [record |-> "Signaled", signal |-> end.value] # [record |-> "Exited", status |-> 0]
    OBVIOUS
  <2>. QED
    BY <2>6, <2>7
<1>. QED
  BY <1>1, <1>2 DEF End

(* handle_sigchld and raw_status_from_siginfo: what the system server      *)
(* decodes from a datagram is how the child ended.                         *)
THEOREM SystemServerToldTheTruth == Spec => []StatusTruthful
<1>1. ASSUME PromisesKept PROVE StatusTruthful
  <2>. SUFFICES ASSUME NEW sent \in report
                PROVE  LET record == FromStatus(sent.status) IN
                       /\ record = FromSigInfo(SigInfo(Unwrap(child.end)))
                       /\ record = [record |-> "Exited", status |-> 0] =>
                            child.cause = Some("application")
                       /\ child.cause = Some("application") =>
                            params.uid \subseteq {sent.uid}
    BY DEF StatusTruthful
  <2>1. /\ child.pc = "reported"
        /\ report = Some([uid |-> cred.uid.r,
                          status |-> RawStatus(SigInfo(Unwrap(child.end)))])
    BY <1>1 DEF PromisesKept, EndTruthful, None
  <2>2. sent.uid = cred.uid.r /\ sent.status = RawStatus(SigInfo(Unwrap(child.end)))
    BY <2>1 DEF Some
  <2>3. PICK end \in End :
          /\ child.end = Some(end)
          /\ child.cause # Some("application") => end # [how |-> "exit", value |-> 0]
          /\ child.cause = Some("application") => params.uid \subseteq {cred.uid.r}
    BY <1>1, <2>1 DEF PromisesKept, EndTruthful
  <2>4. Unwrap(child.end) = end
    BY <2>3 DEF Some, Unwrap
  <2>. QED
    BY <2>2, <2>3, <2>4, StatusDecodes
<1>2. SpawningInv => PromisesKept
  BY DEF SpawningInv
<1>. QED
  BY <1>1, <1>2, SpawningKeepsPromises, PTL

LEMMA OptionCardinality ==
  ASSUME NEW option, IsOption(option)
  PROVE  Cardinality(option) <= 1
<1>1. CASE option = {}
  BY <1>1, FS_EmptySet
<1>2. CASE option # {}
  <2>1. PICK x : option = {x}
    BY <1>2 DEF IsOption
  <2>. QED
    BY <2>1, FS_Singleton
<1>. QED
  BY <1>1, <1>2

(* SpawnParamsCommon and the kernel: whatever a client sends, ids,         *)
(* priorities and capability sets stay within their bounds.                *)
THEOREM TypesKept == Spec => []TypeOK
<1>1. ASSUME PromisesKept PROVE TypeOK
  <2>1. /\ server.phase \in ServerPhases /\ server.species \in SpeciesTags
        /\ server.depth \in 0..MaxSubspecies /\ CredOK(server.cred)
    BY <1>1 DEF PromisesKept, ServerTyped
  <2>2. child.pc \in {"none", "born", "running", "serving", "ended", "reported"}
                     \cup ToSet(Steps)
    <3>1. ToSet(Steps) = {"prologue", "securebits", "additive", "bound", "groups",
                          "rlimits", "gid", "seccomp", "uid", "overwrite", "epilogue"}
      BY DEF Steps, ToSet
    <3>2. child = NoChild => child.pc = "none"
      BY DEF NoChild
    <3>. QED
      BY <1>1, <3>1, <3>2
         DEF PromisesKept, ChildTyped, Alive, AfterBound, AfterSeccomp, AfterUid,
             AfterOverwrite, Ready
  <2>3. ASSUME child # NoChild
        PROVE  /\ CredOK(cred) /\ Cardinality(child.end) <= 1
               /\ child.limits_set \in 0..Len(params.rlimits)
               /\ params.priority_initial \cup params.priority_final \subseteq Priority
               /\ \A field \in DOMAIN params \ ListFields :
                    Cardinality(params[field]) <= 1
    <3>1. IsOption(child.end)
      BY <1>1, <2>3, NoneIsOption DEF PromisesKept, ChildTyped, EndTruthful
    <3>. QED
      BY <1>1, <2>3, <3>1, OptionCardinality DEF PromisesKept, ChildTyped, DefaultsOK
  <2>4. Cardinality(report) <= 1
    <3>1. IsOption(report)
      BY <1>1, NoneIsOption DEF PromisesKept, EndTruthful
    <3>. QED
      BY <3>1, OptionCardinality
  <2>. QED
    BY <2>1, <2>2, <2>3, <2>4 DEF TypeOK
<1>2. SpawningInv => PromisesKept
  BY DEF SpawningInv
<1>. QED
  BY <1>1, <1>2, SpawningKeepsPromises, PTL

-----------------------------------------------------------------------------
(* The ids of a server.                                                    *)

(* Only the two steps of the context, and becoming a subspecies, touch the *)
(* credentials of a server.                                                *)
LEMMA ServerKeepsIds ==
  ASSUME ChildInv, PromisesKept, [Next]_vars, ~EnterContext, ~LeaveContext,
         ~ServeAsSubspecies
  PROVE  /\ server'.cred = server.cred /\ server'.depth = server.depth
         /\ server'.preload_uid = server.preload_uid
         /\ server'.preload_gid = server.preload_gid
         /\ \/ server'.phase = server.phase
            \/ server.phase = "serving" /\ server'.phase \in {"exec", "panicked"}
<1>1. ASSUME NEW message \in Messages, Spawn(message) \/ PanicInServer(message)
      PROVE  /\ server.phase = "serving"
             /\ server'.phase \in {"serving", "exec", "panicked"}
             /\ server'.cred = server.cred /\ server'.depth = server.depth
             /\ server'.preload_uid = server.preload_uid
             /\ server'.preload_gid = server.preload_gid
  BY <1>1 DEF Spawn, PanicInServer, Idle, ChildInv, WellShaped, ServerFields
<1>2. ASSUME \/ ReInitialize \/ BecomeApplication \/ BecomeSubspecies
             \/ AndroidFails \/ ApplicationEnds \/ Killed \/ ReportEnd
      PROVE  server' = server
  BY <1>2
     DEF ReInitialize, Prologue, SetSecureBits, AddInheritable, DropBounding,
         ReplaceGroups, SetNextRlimit, RlimitsSet, SetGid, SetSeccomp, SetUid,
         OverwriteCaps, Epilogue, BecomeApplication, BecomeSubspecies, AndroidFails,
         ApplicationEnds, Killed, ReportEnd, Ended, Proceed, Expect, ExpectIf, Become
<1>3. server' = server \/ \E message \in Messages : Spawn(message) \/ PanicInServer(message)
  BY <1>2 DEF Next, ChildStep, vars
<1>. QED
  BY <1>1, <1>3

(* EffectiveIdContext::enter: no library is loaded under other effective   *)
(* ids than those configured.                                              *)
THEOREM LibrariesSeeConfiguredIds == Spec => []LibrariesLoadedAsAsked
<1>1. Init => LibrariesLoadedAsAsked
  BY ChildAssumption DEF Init, LibrariesLoadedAsAsked
<1>2. ASSUME ChildInv, PromisesKept, LibrariesLoadedAsAsked, [Next]_vars
      PROVE  LibrariesLoadedAsAsked'
  <2>1. CASE EnterContext
    BY <1>2, <2>1, EnterContextEffect DEF LibrariesLoadedAsAsked
  <2>2. CASE LeaveContext
    BY <1>2, <2>2, LeaveContextEffect DEF LibrariesLoadedAsAsked
  <2>3. CASE ServeAsSubspecies
    <3>1. child.pc = "serving" /\ server'.phase = server.phase
      BY <1>2, <2>3 DEF ServeAsSubspecies, ChildInv, WellShaped, ServerFields
    <3>2. child # NoChild
      BY <3>1 DEF NoChild
    <3>. QED
      BY <1>2, <3>1, <3>2 DEF PromisesKept, ServerTyped, LibrariesLoadedAsAsked
  <2>4. CASE ~EnterContext /\ ~LeaveContext /\ ~ServeAsSubspecies
    BY <1>2, <2>4, ServerKeepsIds DEF LibrariesLoadedAsAsked
  <2>. QED
    BY <2>1, <2>2, <2>3, <2>4
<1>3. SpawningInv => ChildInv /\ PromisesKept
  BY DEF SpawningInv
<1>. QED
  BY <1>1, <1>2, <1>3, SpawningKeepsPromises, PTL DEF Spec

(* No server that is started as another user loads its libraries as root.  *)
PreloadsAsUser ==
  \A start \in Starts : start.cred.uid.r # Root => Root \notin start.preload_uid

(* The effective set follows the effective id to root; it is only given up *)
(* together with the permitted one on any change but the one from root.    *)
LEMMA SetEUidEffective ==
  ASSUME NEW c, DOMAIN c = CredFields, CredOK(c), NEW id \in Nat,
         c.uid.e # Root \/ id = Root,
         c.effective = c.permitted \/ (c.uid.e # Root /\ id = Root)
  PROVE  SetEUid(c, id).effective = SetEUid(c, id).permitted
<1>. DEFINE uid == Effective(c.uid, id)
            d == SetEUid(c, id)
            lost == HasRoot(c.uid) /\ ~HasRoot(uid) /\ ~c.keep_caps
<1>1. uid.e = id
  BY EffectiveTyped DEF CredOK
<1>2. id = Root => ~lost
  BY <1>1 DEF HasRoot
<1>3. d = FixCaps(c, uid)
  BY DEF SetEUid
<1>. HIDE DEF d, uid
<1>4. /\ d.permitted = IF lost THEN {} ELSE c.permitted
      /\ d.effective = CASE lost \/ (c.uid.e = Root /\ uid.e # Root) -> {}
                          [] c.uid.e # Root /\ uid.e = Root -> d.permitted
                          [] OTHER -> c.effective
  BY <1>3 DEF FixCaps, CredFields
<1>. HIDE DEF lost
<1>. QED
  BY <1>1, <1>2, <1>4 DEF d

LEMMA EnterContextKeeps ==
  ASSUME ChildInv, PromisesKept, ContextKeeps, EnterContext
  PROVE  ContextKeeps' /\ ServesAsStarted'
<1>1. /\ server.phase = "new" /\ DOMAIN server.cred = CredFields /\ CredOK(server.cred)
      /\ server.preload_uid \subseteq Nat
  BY DEF EnterContext, ChildInv, WellShaped, PromisesKept, ServerTyped
<1>2. /\ server.cred.uid.e = server.cred.uid.r /\ server.cred.gid.e = server.cred.gid.r
      /\ server.cred.effective = server.cred.permitted
      /\ server.cred.uid.r # Root => Root \notin server.preload_uid
  BY <1>1 DEF ContextKeeps
<1>3. CASE server'.phase = "failed"
  BY <1>3 DEF ContextKeeps, ServesAsStarted
<1>4. CASE server'.phase = "preloading"
  <2>1. /\ server'.preload_uid = server.preload_uid
        /\ server'.preload_gid = server.preload_gid
        /\ server'.cred.uid.r = server.cred.uid.r
    BY EnterContextEffect
  <2>2. server.preload_gid = None => server'.cred.gid.e = server'.cred.gid.r
    BY <1>2, <1>4, EnterContextEffect
  <2>3. CASE server.preload_uid = None
    <3>1. /\ server'.cred.uid = server.cred.uid
          /\ server'.cred.effective = server.cred.effective
          /\ server'.cred.permitted = server.cred.permitted
      BY <1>4, <2>3, EnterContextEffect
    <3>. QED
      BY <1>2, <1>4, <2>1, <2>2, <2>3, <3>1 DEF ContextKeeps, ServesAsStarted
  <2>4. CASE server.preload_uid # None
    <3>1. PICK uid : uid \in server.preload_uid
      BY <2>4 DEF None
    <3>2. /\ server'.cred.uid.e = uid
          /\ server'.cred.effective = SetEUid(server.cred, uid).effective
          /\ server'.cred.permitted = SetEUid(server.cred, uid).permitted
      BY <1>4, <3>1, EnterContextEffect
    <3>3. uid = Root \/ server.cred.uid.r # Root =>
            server'.cred.effective = server'.cred.permitted
      BY <1>1, <1>2, <3>1, <3>2, SetEUidEffective
    <3>. QED
      BY <1>2, <1>4, <2>1, <2>2, <2>4, <3>1, <3>2, <3>3 DEF ContextKeeps, ServesAsStarted
  <2>. QED
    BY <2>3, <2>4
<1>. QED
  BY <1>3, <1>4, EnterContextEffect

LEMMA LeaveContextRestores ==
  ASSUME ChildInv, PromisesKept, ContextKeeps, LeaveContext
  PROVE  ContextKeeps' /\ ServesAsStarted'
<1>1. /\ server.phase = "preloading" /\ DOMAIN server.cred = CredFields
      /\ CredOK(server.cred) /\ server.cred.uid.r \in Nat
  BY DEF LeaveContext, ChildInv, WellShaped, PromisesKept, ServerTyped, CredOK, IdTriple
<1>2. /\ server.preload_uid = None => server.cred.uid.e = server.cred.uid.r
      /\ server.preload_gid = None => server.cred.gid.e = server.cred.gid.r
      /\ server.cred.uid.e = Root \/ server.cred.uid.r # Root =>
           server.cred.effective = server.cred.permitted
      /\ server.cred.uid.r # Root => server.cred.uid.e # Root
  BY <1>1 DEF ContextKeeps
<1>3. server'.phase = "serving"
  BY LeaveContextEffect
<1>4. server'.cred.gid.e = server'.cred.gid.r
  BY <1>2, LeaveContextEffect
<1>5. /\ server'.cred.uid.e = server'.cred.uid.r
      /\ server'.cred.effective = server'.cred.permitted
  <2>1. CASE server.preload_uid = None
    <3>1. /\ server'.cred.uid = server.cred.uid
          /\ server'.cred.effective = server.cred.effective
          /\ server'.cred.permitted = server.cred.permitted
      BY <2>1, LeaveContextEffect
    <3>. QED
      BY <1>2, <2>1, <3>1
  <2>2. CASE server.preload_uid # None
    <3>. DEFINE c == SetEUid(server.cred, server.cred.uid.r)
    <3>1. /\ server'.cred.uid = c.uid /\ c.uid.e = c.uid.r
          /\ server'.cred.effective = c.effective /\ server'.cred.permitted = c.permitted
      BY <2>2, LeaveContextEffect
    <3>2. c.effective = c.permitted
      BY <1>1, <1>2, SetEUidEffective
    <3>. QED
      BY <3>1, <3>2
  <2>. QED
    BY <2>1, <2>2
<1>. QED
  BY <1>3, <1>4, <1>5 DEF ContextKeeps, ServesAsStarted

(* Drop of EffectiveIdContext: a server that takes messages has its own    *)
(* ids back, and every capability it is permitted.                         *)
THEOREM OwnIdsRestored ==
  ASSUME PreloadsAsUser
  PROVE  Spec => []ServesAsStarted
<1>1. Init => ContextKeeps /\ ServesAsStarted
  BY PreloadsAsUser, ChildAssumption, StartAssumption
     DEF Init, PreloadsAsUser, ContextKeeps, ServesAsStarted
<1>2. ASSUME ChildInv, PromisesKept, ContextKeeps, ServesAsStarted, [Next]_vars
      PROVE  ContextKeeps' /\ ServesAsStarted'
  <2>1. CASE EnterContext
    BY <1>2, <2>1, EnterContextKeeps
  <2>2. CASE LeaveContext
    BY <1>2, <2>2, LeaveContextRestores
  <2>3. CASE ServeAsSubspecies
    <3>1. /\ server.phase \in {"serving", "exec"} /\ server'.phase = server.phase
          /\ server'.depth = server.depth + 1 /\ server.depth \in Nat
      BY <1>2, <2>3
         DEF ServeAsSubspecies, ChildInv, WellShaped, ServerFields, Alive, AfterBound,
             AfterSeccomp, AfterUid, AfterOverwrite, Ready
    <3>. QED
      BY <3>1 DEF ContextKeeps, ServesAsStarted
  <2>4. CASE ~EnterContext /\ ~LeaveContext /\ ~ServeAsSubspecies
    BY <1>2, <2>4, ServerKeepsIds DEF ContextKeeps, ServesAsStarted
  <2>. QED
    BY <2>1, <2>2, <2>3, <2>4
<1>3. SpawningInv => ChildInv /\ PromisesKept
  BY DEF SpawningInv
<1>. QED
  BY <1>1, <1>2, <1>3, SpawningKeepsPromises, PTL DEF Spec

-----------------------------------------------------------------------------
(* The wire, and the vectors that messages are collected into.             *)

(* unique() keeps every value, and each of them once.                      *)
LEMMA UniqueKeepsValues ==
  ASSUME NEW T, NEW s \in Seq(T)
  PROVE  /\ ToSet(Unique(s)) = ToSet(s)
         /\ Unique(s) \in Seq(ToSet(s))
         /\ IsFiniteSet(ToSet(s)) /\ Len(Unique(s)) = Cardinality(ToSet(s))
<1>. DEFINE I == {i \in DOMAIN s : \A j \in 1 .. i - 1 : s[j] # s[i]}
            Q == {s[i] : i \in I}
<1>1. I \in SUBSET Int /\ IsFiniteSet(I)
  <2>1. DOMAIN s = 1 .. Len(s) /\ IsFiniteSet(1 .. Len(s))
    BY FS_Interval
  <2>. QED
    BY <2>1, FS_Subset
<1>2. Q = ToSet(s)
  <2>1. ASSUME NEW k \in DOMAIN s
        PROVE  \E i \in I : s[i] = s[k]
    <3>. DEFINE S == {i \in DOMAIN s : s[i] = s[k]}
    <3>1. PICK i \in S : \A j \in S : i <= j
      <4>1. S \in SUBSET Nat /\ k \in S
        OBVIOUS
      <4>. QED
        BY <4>1, Least
    <3>2. i \in I
      BY <3>1
    <3>. QED
      BY <3>1, <3>2
  <2>2. ASSUME NEW x \in ToSet(s) PROVE x \in Q
    BY <2>1 DEF ToSet
  <2>3. ASSUME NEW x \in Q PROVE x \in ToSet(s)
    BY DEF ToSet
  <2>. QED
    BY <2>2, <2>3
<1>3. /\ Unique(s) \in Seq(Q) /\ Len(Unique(s)) = Cardinality(I)
      /\ {Unique(s)[n] : n \in DOMAIN Unique(s)} = Q
  <2>1. Unique(s) = Select(s, I)
    BY DEF Unique
  <2>. HIDE DEF I
  <2>2. /\ Select(s, I) \in Seq({s[i] : i \in I})
        /\ Len(Select(s, I)) = Cardinality(I)
        /\ {Select(s, I)[n] : n \in DOMAIN Select(s, I)} = {s[i] : i \in I}
    BY <1>1, SelectElements, Zenon
  <2>. QED
    BY <2>1, <2>2
<1>4. IsFiniteSet(Q) /\ Cardinality(Q) = Cardinality(I)
  <2>. DEFINE at == [i \in I |-> s[i]]
  <2>1. at \in Surjection(I, Q)
    BY DEF Surjection
  <2>2. ASSUME NEW i \in I, NEW j \in I, s[i] = s[j]
        PROVE  i = j
    <3>1. i \in Int /\ j \in Int /\ ~(i < j) /\ ~(j < i)
      BY <1>1, <2>2
    <3>. QED
      BY <3>1
  <2>3. at \in Injection(I, Q)
    BY <2>2 DEF Injection, IsInjective
  <2>. QED
    BY <1>1, <2>1, <2>3, FS_Surjection
<1>. QED
  BY <1>2, <1>3, <1>4 DEF ToSet

(* What arrives of a field is what was sent, where that is legal.          *)
LEMMA WireKeepsFields ==
  ASSUME NEW message \in Messages, NEW asked \in message.common
  PROVE  LET p == UnmarshalCommon(MarshalCommon(asked))
         IN /\ \A field \in ParamFields \ ListFields :
                 /\ asked[field] # None /\ Legal(field, Unwrap(asked[field])) =>
                      p[field] = asked[field]
                 /\ field \notin NeverAbsent =>
                      (asked[field] = None \/ ~Legal(field, Unwrap(asked[field])) =>
                        p[field] = None)
            /\ p.rlimits = asked.rlimits
            /\ p.secondary_groups = asked.secondary_groups
<1>. DEFINE c == asked
            w == MarshalCommon(c)
            p == UnmarshalCommon(w)
<1>2. DOMAIN c = ParamFields
  BY ChildAssumption
<1>3. /\ DOMAIN w = ParamFields
      /\ w.selinux_flags = MarshalDefault(c.selinux_flags, 0)
      /\ w.no_new_privs = MarshalDefault(c.no_new_privs, FALSE)
      /\ w.uid = MarshalDefault(c.uid, -1) /\ w.gid = MarshalDefault(c.gid, -1)
      /\ w.process_name = MarshalString(c.process_name)
      /\ w.se_info = MarshalString(c.se_info)
      /\ w.priority_initial = MarshalDefault(c.priority_initial, I32_MAX)
      /\ w.priority_final = MarshalDefault(c.priority_final, I32_MAX)
      /\ w.cap_effective = MarshalCaps(c.cap_effective)
      /\ w.cap_permitted = MarshalCaps(c.cap_permitted)
      /\ w.cap_inheritable = MarshalCaps(c.cap_inheritable)
      /\ w.cap_bound = MarshalCaps(c.cap_bound)
      /\ w.rlimits = [i \in DOMAIN c.rlimits |-> PackRLimit(c.rlimits[i])]
      /\ w.secondary_groups = c.secondary_groups
  BY <1>2 DEF MarshalCommon, ParamFields
<1>. HIDE DEF w
<1>4. /\ p.selinux_flags = Some(w.selinux_flags) /\ p.no_new_privs = Some(w.no_new_privs)
      /\ p.process_name = Some(w.process_name) /\ p.se_info = Some(w.se_info)
      /\ p.uid = UnmarshalValidRange(w.uid, IsSetId(w.uid))
      /\ p.gid = UnmarshalValidRange(w.gid, IsSetId(w.gid))
      /\ p.priority_initial =
           UnmarshalValidRange(w.priority_initial, IsPriority(w.priority_initial))
      /\ p.priority_final =
           UnmarshalValidRange(w.priority_final, IsPriority(w.priority_final))
      /\ p.cap_effective = UnmarshalCaps(w.cap_effective)
      /\ p.cap_permitted = UnmarshalCaps(w.cap_permitted)
      /\ p.cap_inheritable = UnmarshalCaps(w.cap_inheritable)
      /\ p.cap_bound = UnmarshalCaps(w.cap_bound)
      /\ p.rlimits = [i \in DOMAIN w.rlimits |-> UnpackRLimit(w.rlimits[i])]
      /\ p.secondary_groups = w.secondary_groups
  BY <1>3 DEF UnmarshalCommon, ParamFields
<1>. HIDE DEF p, c
<1>5. \A field \in ParamFields \ ListFields : IsOption(c[field])
  BY MessagesAssumption DEF c
<1>6. ASSUME NEW option, IsOption(option), option # None
      PROVE  option = Some(Unwrap(option)) /\ \A d : MarshalDefault(option, d) = Unwrap(option)
  BY <1>6 DEF IsOption, Some, Unwrap, MarshalDefault, UnwrapOr, None
<1>7. \A d : MarshalDefault(None, d) = d
  BY DEF MarshalDefault, UnwrapOr
<1>8. ASSUME NEW option, IsOption(option), option \subseteq SUBSET Caps
      PROVE  UnmarshalCaps(MarshalCaps(option)) = option
  <2>1. CASE option = None
    BY <1>7, <2>1 DEF UnmarshalCaps, MarshalCaps
  <2>2. CASE option # None
    <3>1. option = Some(Unwrap(option)) /\ MarshalCaps(option) = Unwrap(option)
      BY <1>6, <1>8, <2>2 DEF MarshalCaps
    <3>2. Unwrap(option) \in SUBSET Caps
      BY <1>8, <2>2 DEF Unwrap, None
    <3>3. Unwrap(option) # RawCap_MAX /\ Unwrap(option) \cap Caps = Unwrap(option)
      BY <3>2, MessageAssumption DEF RawCap_MAX
    <3>. QED
      BY <3>1, <3>3 DEF UnmarshalCaps
  <2>. QED
    BY <2>1, <2>2
<1>9. ASSUME NEW field \in CapFields
      PROVE  p[field] = c[field]
  <2>1. IsOption(c[field]) /\ c[field] \subseteq SUBSET Caps
    BY <1>5, MessagesAssumption DEF CapFields, ParamFields, ListFields, c
  <2>2. p[field] = UnmarshalCaps(MarshalCaps(c[field]))
    BY <1>3, <1>4 DEF CapFields
  <2>. QED
    BY <1>8, <2>1, <2>2
<1>10. ASSUME NEW field \in NeverAbsent, c[field] # None
       PROVE  p[field] = c[field]
  <2>1. IsOption(c[field])
    BY <1>5 DEF NeverAbsent, ParamFields, ListFields
  <2>2. c[field] = Some(Unwrap(c[field])) /\ \A d : MarshalDefault(c[field], d) = Unwrap(c[field])
    BY <1>6, <1>10, <2>1
  <2>3. w[field] \in {MarshalDefault(c[field], 0), MarshalDefault(c[field], FALSE),
                      MarshalDefault(c[field], "")}
    BY <1>3 DEF NeverAbsent, MarshalString
  <2>4. p[field] = Some(w[field])
    BY <1>4 DEF NeverAbsent
  <2>. QED
    BY <2>2, <2>3, <2>4
<1>11. ASSUME NEW field \in {"uid", "gid"}
       PROVE  p[field] = IF c[field] # None /\ Legal(field, Unwrap(c[field]))
                         THEN c[field] ELSE None
  <2>1. IsOption(c[field])
    BY <1>5 DEF ParamFields, ListFields
  <2>2. p[field] = UnmarshalValidRange(w[field], IsSetId(w[field]))
        /\ w[field] = MarshalDefault(c[field], -1)
    BY <1>3, <1>4
  <2>3. CASE c[field] = None
    BY <1>7, <2>2, <2>3 DEF UnmarshalValidRange, IsSetId
  <2>4. CASE c[field] # None
    <3>1. c[field] = Some(Unwrap(c[field])) /\ w[field] = Unwrap(c[field])
      BY <1>6, <2>1, <2>2, <2>4
    <3>2. Legal(field, Unwrap(c[field])) <=> IsSetId(w[field])
      BY <3>1 DEF Legal
    <3>. QED
      BY <2>2, <2>4, <3>1, <3>2 DEF UnmarshalValidRange
  <2>. QED
    BY <2>3, <2>4
<1>12. ASSUME NEW field \in {"priority_initial", "priority_final"}
       PROVE  p[field] = IF c[field] # None /\ Legal(field, Unwrap(c[field]))
                         THEN c[field] ELSE None
  <2>1. IsOption(c[field])
    BY <1>5 DEF ParamFields, ListFields
  <2>2. p[field] = UnmarshalValidRange(w[field], IsPriority(w[field]))
        /\ w[field] = MarshalDefault(c[field], I32_MAX)
    BY <1>3, <1>4
  <2>3. CASE c[field] = None
    BY <1>7, <2>2, <2>3 DEF UnmarshalValidRange, IsPriority, I32_MAX
  <2>4. CASE c[field] # None
    <3>1. c[field] = Some(Unwrap(c[field])) /\ w[field] = Unwrap(c[field])
      BY <1>6, <2>1, <2>2, <2>4
    <3>2. Legal(field, Unwrap(c[field])) <=> IsPriority(w[field])
      BY <3>1 DEF Legal
    <3>. QED
      BY <2>2, <2>4, <3>1, <3>2 DEF UnmarshalValidRange
  <2>. QED
    BY <2>3, <2>4
<1>13. p.rlimits = c.rlimits
  <2>1. c.rlimits \in Seq(RLimit)
    BY MessagesAssumption DEF c
  <2>2. ASSUME NEW limit \in RLimit PROVE UnpackRLimit(PackRLimit(limit)) = limit
    BY DEF UnpackRLimit, PackRLimit, RLimit
  <2>3. p.rlimits = [i \in DOMAIN c.rlimits |-> UnpackRLimit(PackRLimit(c.rlimits[i]))]
    BY <1>3, <1>4
  <2>. QED
    BY <2>1, <2>2, <2>3
<1>14. p.secondary_groups = c.secondary_groups
  BY <1>3, <1>4
<1>15. ASSUME NEW field \in ParamFields \ ListFields
       PROVE  /\ c[field] # None /\ Legal(field, Unwrap(c[field])) => p[field] = c[field]
              /\ field \notin NeverAbsent =>
                   (c[field] = None \/ ~Legal(field, Unwrap(c[field])) => p[field] = None)
  <2>1. field \in CapFields \/ field \in NeverAbsent \/ field \in {"uid", "gid"}
        \/ field \in {"priority_initial", "priority_final"}
    BY DEF ParamFields, ListFields, CapFields, NeverAbsent
  <2>2. CASE field \in CapFields
    <3>1. Legal(field, Unwrap(c[field]))
      BY <2>2 DEF Legal, CapFields
    <3>. QED
      BY <1>9, <2>2, <3>1
  <2>3. CASE field \in NeverAbsent
    BY <1>10, <2>3
  <2>. QED
    BY <1>11, <1>12, <2>1, <2>2, <2>3
<1>. QED
  BY <1>13, <1>14, <1>15 DEF p, w, c

-----------------------------------------------------------------------------
(* What a child was asked for, and what a server died of, along its life.  *)

Groups(p) == p.secondary_groups \in Seq(Int)

WireInv == Groups(server.params) /\ ParamsSurviveWire /\ ServerSurvives

(* The steps of a child leave what it was asked for alone.                 *)
KeepsRequest ==
  /\ server' = server
  /\ child'.params = child.params /\ child'.asked = child.asked

LEMMA MovesKeepRequest ==
  ASSUME DOMAIN child = ChildFields
  PROVE  /\ \A next : Proceed(next) => KeepsRequest
         /\ \A to, next : Become(to, next) => KeepsRequest
         /\ \A end, cause : Ended(end, cause) => KeepsRequest
<1>1. ASSUME NEW next, Proceed(next) PROVE KeepsRequest
  BY <1>1 DEF Proceed, KeepsRequest, ChildFields
<1>2. ASSUME NEW to, NEW next, Become(to, next) PROVE KeepsRequest
  BY <1>2 DEF Become, KeepsRequest, ChildFields
<1>3. ASSUME NEW end, NEW cause, Ended(end, cause) PROVE KeepsRequest
  BY <1>3 DEF Ended, KeepsRequest, ChildFields
<1>. QED
  BY <1>1, <1>2, <1>3

LEMMA ChildStepsKeepRequest ==
  ASSUME DOMAIN child = ChildFields,
         ChildStep \/ AndroidFails \/ ApplicationEnds \/ Killed \/ ReportEnd
  PROVE  KeepsRequest
<1>1. ASSUME NEW may, NEW next, Expect(may, next) PROVE KeepsRequest
  BY <1>1, MovesKeepRequest DEF Expect
<1>2. ASSUME NEW given, NEW may, NEW next, ExpectIf(given, may, next) PROVE KeepsRequest
  BY <1>1, <1>2, MovesKeepRequest DEF ExpectIf
<1>3. CASE ReInitialize
  <2>1. CASE Prologue
    BY <1>1, <2>1 DEF Prologue
  <2>2. CASE SetSecureBits
    BY <2>2, MovesKeepRequest DEF SetSecureBits
  <2>3. CASE AddInheritable
    BY <1>2, <2>3 DEF AddInheritable
  <2>4. CASE DropBounding
    BY <1>2, <2>4 DEF DropBounding
  <2>5. CASE ReplaceGroups
    BY <1>2, <2>5 DEF ReplaceGroups
  <2>6. CASE SetNextRlimit
    BY <2>6, MovesKeepRequest DEF SetNextRlimit, KeepsRequest, ChildFields
  <2>7. CASE RlimitsSet
    BY <2>7, MovesKeepRequest DEF RlimitsSet
  <2>8. CASE SetGid
    BY <1>2, <2>8 DEF SetGid
  <2>9. CASE SetSeccomp
    BY <1>1, <2>9 DEF SetSeccomp
  <2>10. CASE SetUid
    BY <1>2, <2>10 DEF SetUid
  <2>11. CASE OverwriteCaps
    BY <1>1, <2>11 DEF OverwriteCaps
  <2>12. CASE Epilogue
    BY <1>1, <2>12 DEF Epilogue
  <2>. QED
    BY <1>3, <2>1, <2>2, <2>3, <2>4, <2>5, <2>6, <2>7, <2>8, <2>9, <2>10, <2>11, <2>12
       DEF ReInitialize
<1>4. CASE BecomeApplication \/ BecomeSubspecies
  BY <1>4, MovesKeepRequest DEF BecomeApplication, BecomeSubspecies
<1>5. CASE AndroidFails \/ ApplicationEnds \/ Killed
  BY <1>5, MovesKeepRequest DEF AndroidFails, ApplicationEnds, Killed
<1>6. CASE ReportEnd
  BY <1>6 DEF ReportEnd, KeepsRequest, ChildFields
<1>. QED
  BY <1>3, <1>4, <1>5, <1>6 DEF ChildStep

(* The configuration and the end of a server change with nothing else.     *)
KeepsServer ==
  /\ server'.params = server.params /\ server'.exec = server.exec
  /\ server'.died_of = server.died_of

LEMMA SurvivesStays ==
  ASSUME ServerSurvives, KeepsServer
  PROVE  ServerSurvives'
  BY DEF ServerSurvives, KeepsServer

LEMMA WireStays ==
  ASSUME WireInv, KeepsServer,
         \/ child' = NoChild
         \/ child # NoChild /\ child'.params = child.params /\ child'.asked = child.asked
  PROVE  WireInv'
<1>1. ServerSurvives' /\ Groups(server.params)'
  BY SurvivesStays DEF WireInv, KeepsServer, Groups
<1>2. CASE child' = NoChild
  BY <1>1, <1>2 DEF WireInv, ParamsSurviveWire
<1>3. CASE child # NoChild /\ child'.params = child.params /\ child'.asked = child.asked
  <2>1. ParamsSurviveWire'
    BY <1>3 DEF WireInv, ParamsSurviveWire, KeepsServer, params
  <2>. QED
    BY <1>1, <2>1 DEF WireInv
<1>. QED
  BY <1>2, <1>3

LEMMA SpawnOnWire ==
  ASSUME WireInv, ChildInv, PromisesKept, NEW message \in Messages, Spawn(message)
  PROVE  WireInv'
<1>. DEFINE parcel == ToParcel(message)
            asked == Unwrap(message.common)
            p == UnmarshalCommon(Unwrap(parcel.common))
            q == server.params
            merged == Merge(parcel)
<1>0. /\ asked \in message.common /\ DOMAIN asked = ParamFields
      /\ Unwrap(parcel.common) = MarshalCommon(asked)
  BY SpawnHasCommon, CommonArrives
<1>1. child' = Newborn(message, parcel) /\ KeepsServer
  BY DEF Spawn, ChildInv, WellShaped, ServerFields, KeepsServer
<1>2. child'.params = merged /\ child'.asked = asked
  BY <1>1 DEF Newborn
<1>3. DOMAIN p = ParamFields /\ \A field \in NeverAbsent : p[field] # None
  BY <1>0, UnmarshalledTyped
<1>4. /\ \A field \in ParamFields \ ListFields :
           /\ asked[field] # None /\ Legal(field, Unwrap(asked[field])) =>
                p[field] = asked[field]
           /\ field \notin NeverAbsent =>
                (asked[field] = None \/ ~Legal(field, Unwrap(asked[field])) =>
                  p[field] = None)
      /\ p.rlimits = asked.rlimits /\ p.secondary_groups = asked.secondary_groups
  BY <1>0, WireKeepsFields
<1>. HIDE DEF p, asked, q
<1>6. /\ merged.secondary_groups = Unique(p.secondary_groups \o q.secondary_groups)
      /\ merged.rlimits = p.rlimits \o q.rlimits
      /\ \A field \in ParamFields \ ListFields : merged[field] = OrElse(p[field], q[field])
  <2>1. merged = Or(p, q)
    BY DEF Merge, p, q
  <2>. QED
    BY <1>3, <2>1 DEF Or, ParamFields, ListFields
<1>. HIDE DEF merged, parcel
<1>7. ToSet(merged.secondary_groups) = ToSet(asked.secondary_groups \o q.secondary_groups)
  <2>1. asked.secondary_groups \in Seq(Int) /\ q.secondary_groups \in Seq(Int)
    BY <1>0, MessagesAssumption DEF q, WireInv, Groups
  <2>2. asked.secondary_groups \o q.secondary_groups \in Seq(Int)
    BY <2>1
  <2>. QED
    BY <1>4, <1>6, <2>2, UniqueKeepsValues
<1>8. \A field \in ParamFields \ ListFields :
        IF asked[field] # None /\ Legal(field, Unwrap(asked[field]))
        THEN merged[field] = asked[field]
        ELSE IF field \in NeverAbsent THEN merged[field] # None
        ELSE merged[field] = q[field]
  BY <1>3, <1>4, <1>6 DEF OrElse
<1>9. ParamsSurviveWire'
  <2>1. server'.params = q
    BY <1>1 DEF KeepsServer, q
  <2>2. merged.rlimits = asked.rlimits \o q.rlimits
    BY <1>4, <1>6
  <2>. QED
    BY <1>0, <1>2, <1>7, <1>8, <2>1, <2>2 DEF ParamsSurviveWire, params
<1>10. ServerSurvives' /\ Groups(server.params)'
  BY <1>1, SurvivesStays DEF WireInv, KeepsServer, Groups
<1>. QED
  BY <1>9, <1>10 DEF WireInv

LEMMA OneExceeds ==
  ASSUME NEW a \in Nat, NEW b \in Nat, NEW c \in Nat, NEW m \in Nat, NEW n \in Nat
  PROVE  /\ ~(a <= m) \/ ~(b <= n) => a > m \/ b + c > n
         /\ ~(a <= m) \/ ~(b + c <= n) => a > m \/ b + c > n
  OBVIOUS

(* A list that does not fit has more values than its vector holds.         *)
LEMMA ListsExceed ==
  ASSUME WireInv, PromisesKept, NEW message \in Messages, message.common # None,
         LET parcel == ToParcel(message)
         IN ~ListsFit(Unwrap(parcel.common)) \/ ~ListsFit(Merge(parcel))
  PROVE  LET asked == Unwrap(message.common)
             groups == asked.secondary_groups \o server.params.secondary_groups
         IN \/ Len(asked.secondary_groups) > GID_VECTOR_SIZE
            \/ Cardinality(ToSet(groups)) > GID_VECTOR_SIZE
            \/ Len(asked.rlimits) + Len(server.params.rlimits) > RLIMIT_VECTOR_SIZE
<1>. DEFINE parcel == ToParcel(message)
            w == Unwrap(parcel.common)
            asked == Unwrap(message.common)
            q == server.params
            merged == Merge(parcel)
            groups == asked.secondary_groups \o q.secondary_groups
<1>1. /\ asked \in message.common /\ DOMAIN asked = ParamFields
      /\ w = MarshalCommon(asked)
  BY CommonArrives
<1>2. /\ asked.secondary_groups \in Seq(Int) /\ q.secondary_groups \in Seq(Int)
      /\ asked.rlimits \in Seq(RLimit) /\ q.rlimits \in Seq(RLimit)
  BY <1>1, MessagesAssumption DEF WireInv, Groups, PromisesKept, ServerTyped, DefaultsOK
<1>3. /\ Len(w.secondary_groups) = Len(asked.secondary_groups)
      /\ Len(w.rlimits) = Len(asked.rlimits)
  <2>1. /\ w.secondary_groups = asked.secondary_groups
        /\ w.rlimits = [i \in DOMAIN asked.rlimits |-> PackRLimit(asked.rlimits[i])]
    BY <1>1 DEF MarshalCommon, ParamFields
  <2>. QED
    BY <1>2, <2>1
<1>4. /\ merged.secondary_groups = Unique(groups)
      /\ merged.rlimits = asked.rlimits \o q.rlimits
  <2>. DEFINE p == UnmarshalCommon(w)
  <2>1. /\ DOMAIN p = ParamFields
        /\ p.rlimits = asked.rlimits /\ p.secondary_groups = asked.secondary_groups
    BY <1>1, UnmarshalledTyped, WireKeepsFields
  <2>2. merged = Or(p, q)
    BY DEF Merge
  <2>. HIDE DEF p, asked, q, merged
  <2>3. /\ merged.secondary_groups = Unique(p.secondary_groups \o q.secondary_groups)
        /\ merged.rlimits = p.rlimits \o q.rlimits
    BY <2>1, <2>2 DEF Or, ParamFields, ListFields
  <2>. QED
    BY <2>1, <2>3
<1>5. Len(merged.secondary_groups) = Cardinality(ToSet(groups))
  <2>1. groups \in Seq(Int)
    BY <1>2
  <2>. HIDE DEF groups
  <2>. QED
    BY <1>4, <2>1, UniqueKeepsValues
<1>6. Len(merged.rlimits) = Len(asked.rlimits) + Len(q.rlimits)
  BY <1>2, <1>4
<1>7. /\ Len(asked.secondary_groups) \in Nat /\ Len(asked.rlimits) \in Nat
      /\ Len(q.rlimits) \in Nat /\ GID_VECTOR_SIZE \in Nat /\ RLIMIT_VECTOR_SIZE \in Nat
  BY <1>2, MessageAssumption
<1>8. Len(merged.secondary_groups) \in Nat
  <2>1. groups \in Seq(Int)
    BY <1>2
  <2>2. Unique(groups) \in Seq(ToSet(groups))
    BY <2>1, UniqueKeepsValues
  <2>. QED
    BY <1>4, <2>2
<1>9. ~ListsFit(w) \/ ~ListsFit(merged)
  OBVIOUS
<1>. HIDE DEF parcel, w, merged, groups, asked, q
<1>10. CASE ~ListsFit(w)
  <2>1. \/ ~(Len(asked.secondary_groups) <= GID_VECTOR_SIZE)
        \/ ~(Len(asked.rlimits) <= RLIMIT_VECTOR_SIZE)
    BY <1>3, <1>10 DEF ListsFit
  <2>2. \/ Len(asked.secondary_groups) > GID_VECTOR_SIZE
        \/ Len(asked.rlimits) + Len(q.rlimits) > RLIMIT_VECTOR_SIZE
    BY <1>7, <2>1, OneExceeds, Zenon
  <2>. QED
    BY <2>2 DEF asked, q, groups
<1>11. CASE ~ListsFit(merged)
  <2>1. \/ ~(Cardinality(ToSet(groups)) <= GID_VECTOR_SIZE)
        \/ ~(Len(asked.rlimits) + Len(q.rlimits) <= RLIMIT_VECTOR_SIZE)
    BY <1>5, <1>6, <1>11 DEF ListsFit
  <2>2. Cardinality(ToSet(groups)) \in Nat
    BY <1>5, <1>8
  <2>3. \/ Cardinality(ToSet(groups)) > GID_VECTOR_SIZE
        \/ Len(asked.rlimits) + Len(q.rlimits) > RLIMIT_VECTOR_SIZE
    BY <1>7, <2>1, <2>2, OneExceeds, Zenon
  <2>. QED
    BY <2>3 DEF asked, q, groups
<1>. QED
  BY <1>9, <1>10, <1>11

(* Whatever panics while a message is decoded and merged is one of these.  *)
LEMMA PanicOnWire ==
  ASSUME WireInv, ChildInv, PromisesKept, NEW message \in Messages, PanicInServer(message)
  PROVE  WireInv'
<1>. DEFINE parcel == ToParcel(message)
            asked == Unwrap(message.common)
            tooLong == /\ message.payload.variant = "LibApp"
                       /\ Len(message.payload.args) > MESSAGE_ARG_BUFFER_MAX
            exceeds(p, q) ==
              \/ Len(p.secondary_groups) > GID_VECTOR_SIZE
              \/ Cardinality(ToSet(p.secondary_groups \o q.secondary_groups))
                   > GID_VECTOR_SIZE
              \/ Len(p.rlimits) + Len(q.rlimits) > RLIMIT_VECTOR_SIZE
<1>1. /\ child' = child /\ server'.params = server.params /\ server'.exec = server.exec
      /\ server'.died_of = Some(message)
  BY DEF PanicInServer, ChildInv, WellShaped, ServerFields
<1>2. ASSUME message.common # None
      PROVE  /\ asked \in message.common
             /\ parcel.common = Some(MarshalCommon(asked))
             /\ Unwrap(parcel.common) = MarshalCommon(asked)
  BY <1>2, CommonArrives
<1>3. ASSUME ~ArgsFit(parcel.payload)
      PROVE  tooLong
  <2>1. parcel.payload = MarshalPayload(message.payload)
    BY ChildAssumption DEF ToParcel
  <2>2. message.payload.variant = "LibApp" /\ parcel.payload = message.payload
    <3>1. CASE message.payload.variant = "AndroidNative"
      <4>1. parcel.payload.variant = "AndroidNative"
        BY <2>1, <3>1 DEF MarshalPayload
      <4>. QED
        BY <1>3, <4>1 DEF ArgsFit
    <3>2. CASE message.payload.variant # "AndroidNative"
      BY <1>3, <2>1, <3>2 DEF ArgsFit, MarshalPayload
    <3>. QED
      BY <3>1, <3>2
  <2>3. Len(message.payload.args) \in Nat /\ MESSAGE_ARG_BUFFER_MAX \in Nat
    BY <2>2, MessagesAssumption, MessageAssumption
  <2>4. ~(Len(message.payload.args) <= MESSAGE_ARG_BUFFER_MAX)
    BY <1>3, <2>2 DEF ArgsFit
  <2>. QED
    BY <2>2, <2>3, <2>4
<1>4. ASSUME message.common # None,
             \/ \E w \in parcel.common : ~ListsFit(w)
             \/ ~ListsFit(Merge(parcel))
      PROVE  \E p \in message.common : exceeds(p, server.params)
  <2>1. ~ListsFit(Unwrap(parcel.common)) \/ ~ListsFit(Merge(parcel))
    BY <1>2, <1>4 DEF Some
  <2>2. exceeds(asked, server.params)
    BY <1>4, <2>1, ListsExceed
  <2>. QED
    BY <1>2, <1>4, <2>2
<1>5. \/ server.exec \/ message.common = None \/ tooLong
      \/ \E p \in message.common : exceeds(p, server.params)
  <2>1. \/ parcel.common = None
        \/ \E w \in parcel.common : ~ListsFit(w)
        \/ ~ArgsFit(parcel.payload)
        \/ ~ListsFit(Merge(parcel))
        \/ server.exec
    BY DEF PanicInServer, ParcelPanics
  <2>2. parcel.common = None => message.common = None
    BY <1>2 DEF Some, None
  <2>. QED
    BY <1>3, <1>4, <2>1, <2>2
<1>6. ServerSurvives'
  <2>. SUFFICES ASSUME NEW dead \in server'.died_of
                PROVE  \/ server'.exec
                       \/ dead.common = None
                       \/ /\ dead.payload.variant = "LibApp"
                          /\ Len(dead.payload.args) > MESSAGE_ARG_BUFFER_MAX
                       \/ \E p \in dead.common : exceeds(p, server'.params)
    BY DEF ServerSurvives
  <2>1. dead = message
    BY <1>1 DEF Some
  <2>. QED
    BY <1>1, <1>5, <2>1
<1>7. ParamsSurviveWire'
  BY <1>1 DEF WireInv, ParamsSurviveWire, params
<1>. QED
  BY <1>1, <1>6, <1>7 DEF WireInv, Groups

LEMMA InitOnWire ==
  ASSUME Init
  PROVE  WireInv
<1>1. PICK start \in Starts : server = start
  BY DEF Init
<1>. QED
  BY <1>1, StartAssumption
     DEF Init, WireInv, Groups, ParamsSurviveWire, ServerSurvives, None

LEMMA NextOnWire ==
  ASSUME WireInv, ChildInv, PromisesKept, [Next]_vars
  PROVE  WireInv'
<1>1. CASE UNCHANGED vars
  BY <1>1 DEF vars, WireInv, Groups, ParamsSurviveWire, ServerSurvives, params
<1>2. CASE EnterContext \/ LeaveContext
  <2>1. child = NoChild
    BY <1>2 DEF EnterContext, LeaveContext, PromisesKept, ServerTyped
  <2>2. child' = NoChild
    BY <1>2, <2>1 DEF EnterContext, LeaveContext
  <2>3. KeepsServer
    BY <1>2, <2>1
       DEF EnterContext, LeaveContext, KeepsServer, ChildInv, WellShaped, ServerFields
  <2>. QED
    BY <2>2, <2>3, WireStays
<1>3. ASSUME NEW message \in Messages, Spawn(message) \/ PanicInServer(message)
      PROVE  WireInv'
  BY <1>3, SpawnOnWire, PanicOnWire
<1>4. CASE ChildStep \/ AndroidFails \/ ApplicationEnds \/ Killed \/ ReportEnd
  <2>1. child # NoChild
    <3>1. child.pc # "none"
      BY <1>4 DEF ChildStep, ReInitialize, Prologue, SetSecureBits, AddInheritable,
         DropBounding, ReplaceGroups, SetNextRlimit, RlimitsSet, SetGid, SetSeccomp, SetUid,
         OverwriteCaps, Epilogue, BecomeApplication, BecomeSubspecies, AndroidFails,
         ApplicationEnds, Killed, ReportEnd
    <3>. QED
      BY <3>1 DEF NoChild
  <2>2. DOMAIN child = ChildFields
    BY <2>1 DEF PromisesKept, ChildTyped
  <2>3. KeepsRequest
    BY <1>4, <2>2, ChildStepsKeepRequest
  <2>. QED
    BY <2>1, <2>3, WireStays DEF KeepsRequest, KeepsServer
<1>5. CASE ServeAsSubspecies
  <2>1. child' = NoChild
    BY <1>5 DEF ServeAsSubspecies
  <2>2. KeepsServer
    BY <1>5 DEF ServeAsSubspecies, KeepsServer, ChildInv, WellShaped, ServerFields
  <2>. QED
    BY <2>1, <2>2, WireStays
<1>. QED
  BY <1>1, <1>2, <1>3, <1>4, <1>5 DEF Next

(* Marshalling, unmarshalling and or: the parameters a child works with    *)
(* are its client's where those are legal and its server's elsewhere.      *)
LEMMA WireInvariant == Spec => []WireInv
<1>1. Init => WireInv
  BY InitOnWire
<1>2. SpawningInv => ChildInv /\ PromisesKept
  BY DEF SpawningInv
<1>3. WireInv /\ ChildInv /\ PromisesKept /\ [Next]_vars => WireInv'
  BY NextOnWire
<1>. QED
  BY <1>1, <1>2, <1>3, SpawningKeepsPromises, PTL DEF Spec

(* Marshalling, unmarshalling and SpawnParamsCommon::or: a child works     *)
(* with its client's parameters where those are legal and its server's     *)
(* elsewhere, and no group or limit of either is lost or added.            *)
THEOREM ParametersArrive == Spec => []ParamsSurviveWire
<1>1. WireInv => ParamsSurviveWire
  BY DEF WireInv
<1>. QED
  BY <1>1, WireInvariant, PTL

(* try_from_parcel, ArrayVec and Itertools::unique: a server panics on no  *)
(* spawn message that has its common table, whose LibApp arguments fit and *)
(* whose groups and limits, each group counted once, fit with its own.     *)
THEOREM ServersSurvive == Spec => []ServerSurvives
<1>1. WireInv => ServerSurvives
  BY DEF WireInv
<1>. QED
  BY <1>1, WireInvariant, PTL

=============================================================================
