-------------------------- MODULE ChildProcessProofs --------------------------
(***************************************************************************)
(* Proofs about ChildProcess, for any servers, messages, capabilities and  *)
(* bounds that its assumptions allow.                                      *)
(***************************************************************************)
EXTENDS ChildProcess, TLAPS

-----------------------------------------------------------------------------
(* The order of the steps.                                                 *)

LEMMA AfterTable ==
  /\ After("prologue") = "securebits" /\ After("securebits") = "additive"
  /\ After("additive") = "bound" /\ After("bound") = "groups"
  /\ After("groups") = "rlimits" /\ After("rlimits") = "gid"
  /\ After("gid") = "seccomp" /\ After("seccomp") = "uid"
  /\ After("uid") = "overwrite" /\ After("overwrite") = "epilogue"
  /\ After("epilogue") = "born"
<1>1. DOMAIN Steps = 1..11 /\ Len(Steps) = 11
  BY DEF Steps
<1>2. ASSUME NEW i \in 1..11
      PROVE  (CHOOSE j \in DOMAIN Steps : Steps[j] = Steps[i]) = i
  <2>1. \A j \in 1..11 : Steps[j] = Steps[i] => j = i
    BY DEF Steps
  <2>. QED
    BY <1>1, <2>1
<1>3. ASSUME NEW i \in 1..11
      PROVE  After(Steps[i]) = IF i = 11 THEN "born" ELSE Steps[i + 1]
  <2>. DEFINE at == CHOOSE j \in DOMAIN Steps : Steps[j] = Steps[i]
  <2>1. After(Steps[i]) = IF at = Len(Steps) THEN "born" ELSE Steps[at + 1]
    BY DEF After
  <2>2. at = i
    BY <1>2
  <2>. QED
    BY <1>1, <2>1, <2>2
<1>. QED
  BY <1>3 DEF Steps

-----------------------------------------------------------------------------
(* Parameters.                                                             *)

LEMMA NoneIsOption == IsOption(None) /\ \A x : IsOption(Some(x))
  BY DEF IsOption, None, Some

LEMMA UnwrapOption ==
  ASSUME NEW option, IsOption(option), NEW d
  PROVE  \A x \in option : Unwrap(option) = x /\ UnwrapOr(option, d) = x
  BY DEF IsOption, Unwrap, UnwrapOr, None

LEMMA NoneUnwrapOr == \A d : UnwrapOr(None, d) = d
  BY DEF UnwrapOr

(* What arrives has at most one value per field.                           *)
LEMMA UnmarshalledOptions ==
  ASSUME NEW w, DOMAIN w = ParamFields
  PROVE  /\ DOMAIN UnmarshalCommon(w) = ParamFields
         /\ \A field \in ParamFields \ ListFields : IsOption(UnmarshalCommon(w)[field])
<1>1. ASSUME NEW v, NEW inRange PROVE IsOption(UnmarshalValidRange(v, inRange))
  BY NoneIsOption DEF UnmarshalValidRange
<1>2. ASSUME NEW raw PROVE IsOption(UnmarshalCaps(raw))
  BY NoneIsOption DEF UnmarshalCaps
<1>. QED
  BY <1>1, <1>2, NoneIsOption DEF UnmarshalCommon, ParamFields, ListFields

(* A message that has a common table has it in its parcel.                 *)
LEMMA CommonArrives ==
  ASSUME NEW message \in Messages, message.common # None
  PROVE  /\ Unwrap(message.common) \in message.common
         /\ DOMAIN Unwrap(message.common) = ParamFields
         /\ ToParcel(message).common = Some(MarshalCommon(Unwrap(message.common)))
         /\ Unwrap(ToParcel(message).common) = MarshalCommon(Unwrap(message.common))
<1>1. PICK p : p \in message.common
  BY DEF None
<1>2. Unwrap(message.common) = p /\ message.common = Some(p)
  BY <1>1, ChildAssumption DEF IsOption, Unwrap, Some
<1>3. DOMAIN p = ParamFields
  BY <1>1, ChildAssumption
<1>4. ToParcel(message).common = {MarshalCommon(q) : q \in message.common}
  BY ChildAssumption DEF ToParcel
<1>5. ToParcel(message).common = Some(MarshalCommon(p))
  BY <1>2, <1>4 DEF Some
<1>6. ASSUME NEW w PROVE Unwrap(Some(w)) = w
  BY DEF Unwrap, Some
<1>. QED
  BY <1>1, <1>2, <1>3, <1>5, <1>6

(* A message whose parcel lacks the table does not get as far as a fork.   *)
LEMMA SpawnHasCommon ==
  ASSUME NEW message \in Messages, Spawn(message)
  PROVE  message.common # None
<1>. DEFINE parcel == ToParcel(message)
<1>1. parcel.variant \in SpawnVariants /\ ~ParcelPanics(parcel)
  BY DEF Spawn, Understood, TryFromParcel
<1>2. parcel.common = {MarshalCommon(p) : p \in message.common}
  BY ChildAssumption DEF ToParcel
<1>. HIDE DEF parcel
<1>. QED
  BY <1>1, <1>2 DEF ParcelPanics, None

LEMMA MergedOptions ==
  ASSUME WellShaped, NEW message \in Messages, message.common # None
  PROVE  LET merged == Merge(ToParcel(message))
         IN \A field \in ParamFields \ ListFields : IsOption(merged[field])
<1>. DEFINE parcel == ToParcel(message)
            common == UnmarshalCommon(Unwrap(parcel.common))
<1>1. Unwrap(parcel.common) = MarshalCommon(Unwrap(message.common))
  BY CommonArrives
<1>2. DOMAIN Unwrap(parcel.common) = ParamFields
  BY <1>1, CommonArrives DEF MarshalCommon
<1>3. /\ DOMAIN common = ParamFields
      /\ \A field \in ParamFields \ ListFields : IsOption(common[field])
  BY <1>2, UnmarshalledOptions
<1>4. \A field \in ParamFields \ ListFields :
        Merge(parcel)[field] = OrElse(common[field], server.params[field])
  BY <1>3 DEF Merge, Or, ListFields, ParamFields
<1>. HIDE DEF parcel, common
<1>5. \A field \in ParamFields \ ListFields : IsOption(Merge(parcel)[field])
  BY <1>3, <1>4 DEF OrElse, WellShaped
<1>. QED
  BY <1>5 DEF parcel

-----------------------------------------------------------------------------
(* re_initialize.                                                          *)

(* A child that ends keeps nothing to speak of.                            *)
LEMMA EndedInv ==
  ASSUME ChildInv, child.pc \in Alive, NEW end, NEW cause, Ended(end, cause)
  PROVE  ChildInv'
<1>1. server' = server
  BY DEF Ended
<1>2. child'.pc = "ended"
  BY DEF Ended, ChildInv, WellShaped
<1>. QED
  BY <1>1, <1>2
     DEF ChildInv, WellShaped, CapsBounded, ServerConfines, ChildConfined, Alive,
         AfterBound, AfterSeccomp, AfterUid, AfterOverwrite, Ready

(* The child takes a step and has the credentials `next`.                  *)
GoesOn(pc, next) ==
  /\ server' = server
  /\ child'.pc = pc /\ child'.cred = next
  /\ child'.params = child.params /\ child'.payload = child.payload
  /\ child'.variant = child.variant
  /\ DOMAIN child' = DOMAIN child

LEMMA ProceedGoesOn ==
  ASSUME ChildInv, child.pc \in Alive, NEW next, Proceed(next)
  PROVE  GoesOn(After(child.pc), next)
  BY DEF Proceed, GoesOn, ChildInv, WellShaped

LEMMA ExpectCases ==
  ASSUME ChildInv, child.pc \in Alive, NEW may, NEW next, Expect(may, next)
  PROVE  \/ may /\ GoesOn(After(child.pc), next)
         \/ ChildInv'
<1>1. CASE may
  BY <1>1, ProceedGoesOn DEF Expect
<1>2. CASE ~ may
  BY <1>2, EndedInv DEF Expect
<1>. QED
  BY <1>1, <1>2

LEMMA ExpectIfCases ==
  ASSUME ChildInv, child.pc \in Alive, NEW given, NEW may, NEW next,
         ExpectIf(given, may, next)
  PROVE  \/ given /\ may /\ GoesOn(After(child.pc), next)
         \/ ~ given /\ GoesOn(After(child.pc), cred)
         \/ ChildInv'
<1>1. CASE given
  BY <1>1, ExpectCases DEF ExpectIf
<1>2. CASE ~ given
  BY <1>2, ProceedGoesOn DEF ExpectIf
<1>. QED
  BY <1>1, <1>2

(* A step of the child leaves the server's part of the invariant alone.    *)
LEMMA GoesOnShape ==
  ASSUME ChildInv, child.pc \in Alive, NEW pc \in Alive, NEW next,
         GoesOn(pc, next), DOMAIN next = CredFields
  PROVE  WellShaped' /\ ServerConfines'
<1>1. WellShaped'
  BY DEF ChildInv, WellShaped, GoesOn, cred, params
<1>2. ServerConfines'
  BY DEF ChildInv, ServerConfines, GoesOn
<1>. QED
  BY <1>1, <1>2

(* Steps before the ids change that leave alone what the invariant is      *)
(* about.                                                                  *)
Alike(a, b) ==
  /\ a.permitted = b.permitted /\ a.effective = b.effective
  /\ a.bounding = b.bounding /\ a.gid = b.gid
  /\ a.filters = b.filters /\ a.ranges = b.ranges /\ a.no_new_privs = b.no_new_privs

LEMMA AlikeInv ==
  ASSUME ChildInv, NEW next, DOMAIN next = CredFields, Alike(next, cred),
         \/ child.pc = "prologue" /\ GoesOn("securebits", next)
         \/ child.pc = "securebits" /\ GoesOn("additive", next)
         \/ child.pc = "additive" /\ GoesOn("bound", next)
         \/ child.pc = "groups" /\ GoesOn("rlimits", next)
         \/ child.pc = "rlimits" /\ (GoesOn("rlimits", next) \/ GoesOn("gid", next))
  PROVE  ChildInv'
<1>. USE DEF Alive, AfterBound, AfterSeccomp, AfterUid, AfterOverwrite, Ready
<1>1. WellShaped' /\ ServerConfines'
  BY GoesOnShape
<1>2. CapsBounded'
  BY DEF ChildInv, CapsBounded, GoesOn, Alike, cred, params
<1>3. ChildConfined'
  BY DEF ChildInv, ChildConfined, GoesOn, Alike, cred, params
<1>. QED
  BY <1>1, <1>2, <1>3 DEF ChildInv

LEMMA EarlyStepsInv ==
  ASSUME ChildInv,
         \/ Prologue \/ SetSecureBits \/ AddInheritable \/ ReplaceGroups
         \/ SetNextRlimit \/ RlimitsSet
  PROVE  ChildInv'
<1>. USE AfterTable
<1>0. child.pc \in Alive
  BY DEF Prologue, SetSecureBits, AddInheritable, ReplaceGroups, SetNextRlimit,
         RlimitsSet, Alive, AfterBound
<1>1. DOMAIN cred = CredFields /\ Alike(cred, cred)
  BY <1>0 DEF ChildInv, WellShaped, Alike
<1>2. CASE Prologue
  BY <1>0, <1>1, <1>2, ExpectCases, AlikeInv DEF Prologue
<1>3. CASE SetSecureBits
  <2>1. DOMAIN KeepCaps(cred) = CredFields /\ Alike(KeepCaps(cred), cred)
    BY <1>1 DEF KeepCaps, Alike, CredFields
  <2>. QED
    BY <1>0, <1>1, <1>3, <2>1, ProceedGoesOn, AlikeInv DEF SetSecureBits
<1>4. CASE AddInheritable
  <2>. DEFINE wanted == cred.inheritable \cup Unwrap(params.cap_permitted)
              next == Store(cred, cred.effective, cred.permitted, wanted)
  <2>1. DOMAIN next = CredFields /\ Alike(next, cred)
    BY <1>1 DEF Store, Alike, CredFields
  <2>. QED
    BY <1>0, <1>1, <1>4, <2>1, ExpectIfCases, AlikeInv DEF AddInheritable
<1>5. CASE ReplaceGroups
  <2>. DEFINE next == SetGroups(cred, ToSet(params.secondary_groups))
  <2>1. DOMAIN next = CredFields /\ Alike(next, cred)
    BY <1>1 DEF SetGroups, Alike, CredFields
  <2>. QED
    BY <1>0, <1>1, <1>5, <2>1, ExpectIfCases, AlikeInv DEF ReplaceGroups
<1>6. CASE SetNextRlimit
  <2>. DEFINE limit == params.rlimits[child.limits_set + 1]
              next == [cred EXCEPT !.limits = SetRlimit(@, limit)]
  <2>1. DOMAIN next = CredFields /\ Alike(next, cred)
    BY <1>1 DEF Alike, CredFields
  <2>2. CASE MaySetRlimit(cred, limit)
    <3>1. child' = [child EXCEPT !.limits_set = @ + 1, !.cred = next]
      BY <1>6, <2>2 DEF SetNextRlimit, cred
    <3>2. server' = server /\ child.pc = "rlimits"
      BY <1>6, <2>2 DEF SetNextRlimit
    <3>. HIDE DEF next
    <3>3. GoesOn("rlimits", next)
      BY <1>0, <3>1, <3>2 DEF GoesOn, ChildInv, WellShaped
    <3>. QED
      BY <2>1, <3>2, <3>3, AlikeInv
  <2>3. CASE ~ MaySetRlimit(cred, limit)
    BY <1>0, <1>6, <2>3, EndedInv DEF SetNextRlimit
  <2>. QED
    BY <2>2, <2>3
<1>7. CASE RlimitsSet
  BY <1>0, <1>1, <1>7, ProceedGoesOn, AlikeInv DEF RlimitsSet
<1>. QED
  BY <1>2, <1>3, <1>4, <1>5, <1>6, <1>7

LEMMA DropBoundingInv ==
  ASSUME ChildInv, DropBounding
  PROVE  ChildInv'
<1>. USE DEF Alive, AfterBound, AfterSeccomp, AfterUid, AfterOverwrite, Ready
<1>. DEFINE surplus == cred.bounding \ Unwrap(params.cap_bound)
            next == DropBound(cred, surplus)
<1>0. child.pc = "bound" /\ child.pc \in Alive /\ DOMAIN cred = CredFields
  BY DEF DropBounding, ChildInv, WellShaped
<1>1. IsOption(params.cap_bound)
  BY <1>0 DEF ChildInv, WellShaped, ParamFields, ListFields
<1>2. \/ params.cap_bound # None /\ GoesOn("groups", next)
      \/ params.cap_bound = None /\ GoesOn("groups", cred)
      \/ ChildInv'
  BY <1>0, AfterTable, ExpectIfCases DEF DropBounding
<1>3. CASE params.cap_bound # None /\ GoesOn("groups", next)
  <2>1. /\ DOMAIN next = CredFields
        /\ next.bounding = cred.bounding \cap Unwrap(params.cap_bound)
        /\ next.permitted = cred.permitted /\ next.effective = cred.effective
        /\ next.gid = cred.gid /\ next.filters = cred.filters
        /\ next.ranges = cred.ranges /\ next.no_new_privs = cred.no_new_privs
    BY <1>0 DEF DropBound, CredFields
  <2>2. WellShaped' /\ ServerConfines'
    BY <1>0, <1>3, <2>1, GoesOnShape
  <2>3. \A caps \in params.cap_bound : next.bounding \subseteq caps
    BY <1>1, <2>1, UnwrapOption
  <2>. HIDE DEF next
  <2>4. CapsBounded'
    BY <1>0, <1>3, <2>1, <2>3 DEF ChildInv, CapsBounded, GoesOn, cred, params
  <2>5. ChildConfined'
    BY <1>0, <1>3, <2>1 DEF ChildInv, ChildConfined, GoesOn, cred, params
  <2>. QED
    BY <2>2, <2>4, <2>5 DEF ChildInv
<1>4. CASE params.cap_bound = None /\ GoesOn("groups", cred)
  <2>1. WellShaped' /\ ServerConfines'
    BY <1>0, <1>4, GoesOnShape
  <2>2. CapsBounded'
    BY <1>0, <1>4 DEF ChildInv, CapsBounded, GoesOn, cred, params, None
  <2>3. ChildConfined'
    BY <1>0, <1>4 DEF ChildInv, ChildConfined, GoesOn, cred, params
  <2>. QED
    BY <2>1, <2>2, <2>3 DEF ChildInv
<1>. QED
  BY <1>2, <1>3, <1>4

(* The ranges of a server bound the ids that its children can take on.     *)
LEMMA RangesInherited ==
  ASSUME ChildConfined, child.pc \in Alive, server.species = "AndroidNative",
         NEW id, InRanges(cred, id)
  PROVE  InRanges(server.cred, id)
  BY DEF ChildConfined, InRanges

LEMMA SetGidInv ==
  ASSUME ChildInv, SetGid
  PROVE  ChildInv'
<1>. USE DEF Alive, AfterBound, AfterSeccomp, AfterUid, AfterOverwrite, Ready
<1>. DEFINE id == Unwrap(params.gid)
            next == SetResGid(cred, id)
<1>0. child.pc = "gid" /\ child.pc \in Alive /\ DOMAIN cred = CredFields
  BY DEF SetGid, ChildInv, WellShaped
<1>1. \/ MaySetResGid(cred, id) /\ GoesOn("seccomp", next)
      \/ GoesOn("seccomp", cred)
      \/ ChildInv'
  BY <1>0, AfterTable, ExpectIfCases DEF SetGid
<1>2. CASE MaySetResGid(cred, id) /\ GoesOn("seccomp", next)
  <2>1. /\ DOMAIN next = CredFields /\ next.gid = Ids(id)
        /\ next.permitted = cred.permitted /\ next.effective = cred.effective
        /\ next.bounding = cred.bounding /\ next.filters = cred.filters
        /\ next.ranges = cred.ranges /\ next.no_new_privs = cred.no_new_privs
    BY <1>0 DEF SetResGid, CredFields
  <2>2. WellShaped' /\ ServerConfines'
    BY <1>0, <1>2, <2>1, GoesOnShape
  <2>3. server.species = "AndroidNative" => InRanges(server.cred, next.gid.e)
    BY <1>0, <1>2, <2>1, RangesInherited DEF MaySetResGid, Ids, ChildInv
  <2>. HIDE DEF next
  <2>4. CapsBounded'
    BY <1>0, <1>2, <2>1 DEF ChildInv, CapsBounded, GoesOn, cred, params
  <2>5. ChildConfined'
    BY <1>0, <1>2, <2>1, <2>3 DEF ChildInv, ChildConfined, GoesOn, cred, params
  <2>. QED
    BY <2>2, <2>4, <2>5 DEF ChildInv
<1>3. CASE GoesOn("seccomp", cred)
  <2>1. WellShaped' /\ ServerConfines'
    BY <1>0, <1>3, GoesOnShape
  <2>2. CapsBounded'
    BY <1>0, <1>3 DEF ChildInv, CapsBounded, GoesOn, cred, params
  <2>3. ChildConfined'
    BY <1>0, <1>3 DEF ChildInv, ChildConfined, GoesOn, cred, params
  <2>. QED
    BY <2>1, <2>2, <2>3 DEF ChildInv
<1>. QED
  BY <1>1, <1>2, <1>3

(* With the privilege of its server still effective, the filter is there.  *)
LEMMA SetSeccompInv ==
  ASSUME ChildInv, SetSeccomp
  PROVE  ChildInv'
<1>. USE DEF Alive, AfterBound, AfterSeccomp, AfterUid, AfterOverwrite, Ready
<1>. DEFINE next == SetSeccompFilters(server.species, cred, params, child.payload)
<1>0. child.pc = "seccomp" /\ child.pc \in Alive /\ DOMAIN cred = CredFields
  BY DEF SetSeccomp, ChildInv, WellShaped
<1>1. \/ GoesOn("uid", next) \/ ChildInv'
  BY <1>0, AfterTable, ExpectCases DEF SetSeccomp
<1>2. ASSUME NEW filter
      PROVE  LET c == InstallFilter(cred, filter)
             IN /\ DOMAIN c = CredFields /\ cred.filters \subseteq c.filters
                /\ c.permitted = cred.permitted /\ c.effective = cred.effective
                /\ c.bounding = cred.bounding /\ c.gid = cred.gid
                /\ c.ranges = cred.ranges /\ c.no_new_privs = cred.no_new_privs
                /\ MayInstallFilter(cred) => filter \in c.filters
  BY <1>0 DEF InstallFilter, CredFields
<1>3. /\ DOMAIN next = CredFields /\ cred.filters \subseteq next.filters
      /\ next.permitted = cred.permitted /\ next.effective = cred.effective
      /\ next.bounding = cred.bounding /\ next.gid = cred.gid
      /\ next.ranges = cred.ranges
      /\ cred.no_new_privs => next.no_new_privs
  <2>1. CASE server.species # "AndroidNative"
    BY <1>0, <2>1 DEF SetSeccompFilters
  <2>2. CASE /\ server.species = "AndroidNative"
             /\ child.payload.variant = "AndroidNativeSubspecies"
    <3>. DEFINE c == InstallFilter(cred, "app_zygote")
    <3>1. next = NoNewPrivs(c)
      BY <2>2 DEF SetSeccompFilters
    <3>2. /\ DOMAIN c = CredFields /\ cred.filters \subseteq c.filters
          /\ c.permitted = cred.permitted /\ c.effective = cred.effective
          /\ c.bounding = cred.bounding /\ c.gid = cred.gid
          /\ c.ranges = cred.ranges
      BY <1>2
    <3>. HIDE DEF c
    <3>. QED
      BY <3>1, <3>2 DEF NoNewPrivs, CredFields
  <2>3. CASE /\ server.species = "AndroidNative"
             /\ child.payload.variant # "AndroidNativeSubspecies"
    <3>1. \E filter : next = InstallFilter(cred, filter)
      BY <2>3 DEF SetSeccompFilters
    <3>. QED
      BY <1>2, <3>1
  <2>. QED
    BY <2>1, <2>2, <2>3
<1>4. /\ server.species = "AndroidNative"
      /\ child.payload.variant = "AndroidNativeSubspecies"
      => next.no_new_privs /\ "app_zygote" \in next.filters
  <2>. SUFFICES ASSUME server.species = "AndroidNative",
                       child.payload.variant = "AndroidNativeSubspecies"
                PROVE  next.no_new_privs /\ "app_zygote" \in next.filters
    OBVIOUS
  <2>. DEFINE c == InstallFilter(cred, "app_zygote")
  <2>1. next = NoNewPrivs(c)
    BY DEF SetSeccompFilters
  <2>2. MayInstallFilter(cred)
    BY <1>0 DEF ChildInv, ChildConfined, ServerConfines, WellShaped, MayInstallFilter
  <2>3. DOMAIN c = CredFields /\ "app_zygote" \in c.filters
    BY <1>2, <2>2
  <2>. HIDE DEF c
  <2>. QED
    BY <2>1, <2>3 DEF NoNewPrivs, CredFields
<1>. HIDE DEF next
<1>5. CASE GoesOn("uid", next)
  <2>1. WellShaped' /\ ServerConfines'
    BY <1>0, <1>5, <1>3, GoesOnShape
  <2>2. CapsBounded'
    BY <1>0, <1>5, <1>3 DEF ChildInv, CapsBounded, GoesOn, cred, params
  <2>3. ChildConfined'
    BY <1>0, <1>5, <1>3, <1>4 DEF ChildInv, ChildConfined, GoesOn, cred, params
  <2>. QED
    BY <2>1, <2>2, <2>3 DEF ChildInv
<1>. QED
  BY <1>1, <1>5

(* The filters let pass no id outside the range, and a change of ids never *)
(* adds a capability.                                                      *)
LEMMA SetUidInv ==
  ASSUME ChildInv, SetUid
  PROVE  ChildInv'
<1>. USE DEF Alive, AfterBound, AfterSeccomp, AfterUid, AfterOverwrite, Ready
<1>. DEFINE id == Unwrap(params.uid)
            next == SetResUid(cred, id)
<1>0. child.pc = "uid" /\ child.pc \in Alive /\ DOMAIN cred = CredFields
  BY DEF SetUid, ChildInv, WellShaped
<1>1. \/ params.uid # None /\ MaySetResUid(cred, id) /\ GoesOn("overwrite", next)
      \/ params.uid = None /\ GoesOn("overwrite", cred)
      \/ ChildInv'
  BY <1>0, AfterTable, ExpectIfCases DEF SetUid
<1>2. CASE MaySetResUid(cred, id) /\ GoesOn("overwrite", next)
  <2>1. /\ DOMAIN next = CredFields /\ next.uid = Ids(id)
        /\ next.permitted \subseteq cred.permitted
        /\ next.bounding = cred.bounding /\ next.filters = cred.filters
        /\ next.gid = cred.gid
        /\ next.ranges = cred.ranges /\ next.no_new_privs = cred.no_new_privs
    BY <1>0 DEF SetResUid, FixCaps, CredFields
  <2>2. WellShaped' /\ ServerConfines'
    BY <1>0, <1>2, <2>1, GoesOnShape
  <2>3. IsOption(params.uid)
    BY <1>0 DEF ChildInv, WellShaped, ParamFields, ListFields
  <2>4. server.species = "AndroidNative" => InRanges(server.cred, id)
    BY <1>0, <1>2, RangesInherited DEF MaySetResUid, ChildInv
  <2>5. \A uid \in params.uid : uid = id
    BY <2>3, UnwrapOption
  <2>. HIDE DEF next, id
  <2>6. CapsBounded'
    BY <1>0, <1>2, <2>1 DEF ChildInv, CapsBounded, GoesOn, cred, params
  <2>7. ChildConfined'
    BY <1>0, <1>2, <2>1, <2>4, <2>5 DEF ChildInv, ChildConfined, GoesOn, cred, params
  <2>. QED
    BY <2>2, <2>6, <2>7 DEF ChildInv
<1>3. CASE params.uid = None /\ GoesOn("overwrite", cred)
  <2>1. WellShaped' /\ ServerConfines'
    BY <1>0, <1>3, GoesOnShape
  <2>2. CapsBounded'
    BY <1>0, <1>3 DEF ChildInv, CapsBounded, GoesOn, cred, params
  <2>3. ChildConfined'
    BY <1>0, <1>3 DEF ChildInv, ChildConfined, GoesOn, cred, params, None
  <2>. QED
    BY <2>1, <2>2, <2>3 DEF ChildInv
<1>. QED
  BY <1>1, <1>2, <1>3

(* capset sets what was asked for, and refuses what is not permitted.      *)
LEMMA OverwriteCapsInv ==
  ASSUME ChildInv, OverwriteCaps
  PROVE  ChildInv'
<1>. USE DEF Alive, AfterBound, AfterSeccomp, AfterUid, AfterOverwrite, Ready
<1>. DEFINE e == UnwrapOr(params.cap_effective, cred.effective)
            p == UnwrapOr(params.cap_permitted, cred.permitted)
            i == UnwrapOr(params.cap_inheritable, cred.inheritable)
            next == Store(cred, e, p, i)
<1>0. child.pc = "overwrite" /\ child.pc \in Alive /\ DOMAIN cred = CredFields
  BY DEF OverwriteCaps, ChildInv, WellShaped
<1>1. \/ MayStore(cred, e, p, i) /\ GoesOn("epilogue", next)
      \/ ChildInv'
  BY <1>0, AfterTable, ExpectCases DEF OverwriteCaps
<1>2. CASE MayStore(cred, e, p, i) /\ GoesOn("epilogue", next)
  <2>1. /\ DOMAIN next = CredFields /\ next.permitted = p /\ next.effective = e
        /\ next.inheritable = i /\ next.uid = cred.uid
        /\ next.bounding = cred.bounding /\ next.filters = cred.filters
        /\ next.gid = cred.gid
        /\ next.ranges = cred.ranges /\ next.no_new_privs = cred.no_new_privs
    BY <1>0 DEF Store, CredFields
  <2>2. WellShaped' /\ ServerConfines'
    BY <1>0, <1>2, <2>1, GoesOnShape
  <2>3. /\ IsOption(params.cap_effective) /\ IsOption(params.cap_permitted)
        /\ IsOption(params.cap_inheritable)
    BY <1>0 DEF ChildInv, WellShaped, ParamFields, ListFields
  <2>4. /\ \A caps \in params.cap_effective : next.effective = caps
        /\ \A caps \in params.cap_permitted : next.permitted = caps
        /\ \A caps \in params.cap_inheritable : next.inheritable = caps
    BY <2>1, <2>3, UnwrapOption
  <2>5. next.permitted \subseteq cred.permitted
    BY <1>2, <2>1 DEF MayStore
  <2>. HIDE DEF next, e, p, i
  <2>6. CapsBounded'
    BY <1>0, <1>2, <2>1, <2>4, <2>5 DEF ChildInv, CapsBounded, GoesOn, cred, params
  <2>7. ChildConfined'
    BY <1>0, <1>2, <2>1 DEF ChildInv, ChildConfined, GoesOn, cred, params
  <2>. QED
    BY <2>2, <2>6, <2>7 DEF ChildInv
<1>. QED
  BY <1>1, <1>2

LEMMA EpilogueInv ==
  ASSUME ChildInv, Epilogue
  PROVE  ChildInv'
<1>. USE DEF Alive, AfterBound, AfterSeccomp, AfterUid, AfterOverwrite, Ready
<1>. DEFINE next == ReInitializeEpilogue(server.species, cred, params)
<1>0. child.pc = "epilogue" /\ child.pc \in Alive /\ DOMAIN cred = CredFields
  BY DEF Epilogue, ChildInv, WellShaped
<1>1. \/ EpilogueAccepts(server.species, params) /\ GoesOn("born", next)
      \/ ChildInv'
  BY <1>0, AfterTable, ExpectCases DEF Epilogue
<1>2. CASE EpilogueAccepts(server.species, params) /\ GoesOn("born", next)
  <2>1. /\ DOMAIN next = CredFields /\ next.permitted = cred.permitted
        /\ next.effective = cred.effective /\ next.inheritable = cred.inheritable
        /\ next.bounding = cred.bounding /\ next.uid = cred.uid
        /\ next.gid = cred.gid /\ next.filters = cred.filters
        /\ next.ranges = cred.ranges
        /\ cred.no_new_privs => next.no_new_privs
    BY <1>0 DEF ReInitializeEpilogue, CredFields
  <2>2. WellShaped' /\ ServerConfines'
    BY <1>0, <1>2, <2>1, GoesOnShape
  <2>3. server.species = "AndroidNative" => params.uid # None
    BY <1>2 DEF EpilogueAccepts
  <2>. HIDE DEF next
  <2>4. CapsBounded'
    BY <1>0, <1>2, <2>1 DEF ChildInv, CapsBounded, GoesOn, cred, params
  <2>5. ChildConfined'
    BY <1>0, <1>2, <2>1, <2>3 DEF ChildInv, ChildConfined, GoesOn, cred, params
  <2>. QED
    BY <2>2, <2>4, <2>5 DEF ChildInv
<1>. QED
  BY <1>1, <1>2

-----------------------------------------------------------------------------
(* After re_initialize.                                                    *)

LEMMA BecomeGoesOn ==
  ASSUME ChildInv, child.pc \in Alive, NEW pc, NEW next, Become(pc, next)
  PROVE  GoesOn(pc, next)
  BY DEF Become, GoesOn, ChildInv, WellShaped

LEMMA BecomeApplicationInv ==
  ASSUME ChildInv, BecomeApplication
  PROVE  ChildInv'
<1>. USE DEF Alive, AfterBound, AfterSeccomp, AfterUid, AfterOverwrite, Ready
<1>. DEFINE next == Gestate(server.species, cred, params)
<1>0. child.pc = "born" /\ child.pc \in Alive /\ DOMAIN cred = CredFields
  BY DEF BecomeApplication, ChildInv, WellShaped
<1>1. \/ GoesOn("running", next) \/ ChildInv'
  BY <1>0, BecomeGoesOn, EndedInv DEF BecomeApplication
<1>2. /\ DOMAIN next = CredFields /\ next.permitted = cred.permitted
      /\ next.effective = cred.effective /\ next.inheritable = cred.inheritable
      /\ next.bounding = cred.bounding /\ next.uid = cred.uid
      /\ next.gid = cred.gid /\ next.filters = cred.filters
      /\ next.ranges = cred.ranges /\ next.no_new_privs = cred.no_new_privs
  BY <1>0 DEF Gestate, SetPriority, CredFields
<1>. HIDE DEF next
<1>3. CASE GoesOn("running", next)
  <2>1. WellShaped' /\ ServerConfines'
    BY <1>0, <1>2, <1>3, GoesOnShape
  <2>2. CapsBounded'
    BY <1>0, <1>2, <1>3 DEF ChildInv, CapsBounded, GoesOn, cred, params
  <2>3. ChildConfined'
    BY <1>0, <1>2, <1>3 DEF ChildInv, ChildConfined, GoesOn, cred, params
  <2>. QED
    BY <2>1, <2>2, <2>3 DEF ChildInv
<1>. QED
  BY <1>1, <1>3

(* With NO_NEW_PRIVS set the range filter is installed.                    *)
LEMMA BecomeSubspeciesInv ==
  ASSUME ChildInv, BecomeSubspecies
  PROVE  ChildInv'
<1>. USE DEF Alive, AfterBound, AfterSeccomp, AfterUid, AfterOverwrite, Ready
<1>. DEFINE next == Speciate(server.species, cred, child.payload)
<1>0. child.pc = "born" /\ child.pc \in Alive /\ DOMAIN cred = CredFields
  BY DEF BecomeSubspecies, ChildInv, WellShaped
<1>1. \/ /\ SpeciateAccepts(server.species, child.payload)
         /\ GoesOn("serving", next)
      \/ ChildInv'
  BY <1>0, BecomeGoesOn, EndedInv DEF BecomeSubspecies
<1>2. /\ DOMAIN next = CredFields /\ next.permitted = cred.permitted
      /\ next.effective = cred.effective /\ next.inheritable = cred.inheritable
      /\ next.bounding = cred.bounding /\ next.uid = cred.uid
      /\ next.gid = cred.gid /\ next.filters = cred.filters
      /\ cred.ranges \subseteq next.ranges /\ next.no_new_privs = cred.no_new_privs
  BY <1>0 DEF Speciate, InstallRange, CredFields
<1>3. CASE /\ SpeciateAccepts(server.species, child.payload)
           /\ GoesOn("serving", next)
  <2>1. WellShaped' /\ ServerConfines'
    BY <1>0, <1>2, <1>3, GoesOnShape
  <2>2. server.species = "AndroidNative" =>
          /\ child.payload.variant = "AndroidNativeSubspecies"
          /\ next.ranges # {}
    <3>. SUFFICES ASSUME server.species = "AndroidNative"
                  PROVE  /\ child.payload.variant = "AndroidNativeSubspecies"
                         /\ next.ranges # {}
      OBVIOUS
    <3>1. child.payload.variant = "AndroidNativeSubspecies"
      BY <1>3 DEF SpeciateAccepts
    <3>2. MayInstallFilter(cred)
      BY <1>0, <3>1 DEF ChildInv, ChildConfined, MayInstallFilter
    <3>. QED
      BY <1>0, <3>1, <3>2 DEF Speciate, InstallRange, CredFields
  <2>. HIDE DEF next
  <2>3. CapsBounded'
    BY <1>0, <1>2, <1>3 DEF ChildInv, CapsBounded, GoesOn, cred, params
  <2>4. ChildConfined'
    BY <1>0, <1>2, <1>3, <2>2 DEF ChildInv, ChildConfined, GoesOn, cred, params
  <2>. QED
    BY <2>1, <2>3, <2>4 DEF ChildInv
<1>. QED
  BY <1>1, <1>3

(* The child is the server from now on, and confined as such.              *)
LEMMA ServeAsSubspeciesInv ==
  ASSUME ChildInv, ServeAsSubspecies
  PROVE  ChildInv'
<1>. USE DEF Alive, AfterBound, AfterSeccomp, AfterUid, AfterOverwrite, Ready
<1>0. child.pc = "serving" /\ DOMAIN cred = CredFields
  BY DEF ServeAsSubspecies, ChildInv, WellShaped
<1>1. /\ DOMAIN server' = DOMAIN server /\ server'.cred = cred
      /\ server'.depth = server.depth + 1 /\ server'.phase = server.phase
      /\ server'.species = server.species /\ server'.params = server.params
      /\ server'.preload_uid = server.preload_uid
  BY DEF ServeAsSubspecies, ChildInv, WellShaped, ServerFields
<1>2. child'.pc = "none"
  BY DEF ServeAsSubspecies, NoChild
<1>3. WellShaped'
  BY <1>0, <1>1, <1>2 DEF ChildInv, WellShaped
<1>4. CapsBounded' /\ ChildConfined'
  BY <1>2 DEF CapsBounded, ChildConfined
<1>5. ServerConfines'
  <2>1. server'.depth # 0 /\ server.phase \in {"serving", "exec"}
    BY <1>0, <1>1 DEF ChildInv, WellShaped
  <2>. QED
    BY <1>0, <1>1, <2>1 DEF ChildInv, ServerConfines, ChildConfined
<1>. QED
  BY <1>3, <1>4, <1>5 DEF ChildInv

(* The server goes on without a child, or with one that has ended.         *)
LEMMA ServerGoesOn ==
  ASSUME ChildInv, child'.pc \in {"none", "ended", "reported"},
         DOMAIN server' = DOMAIN server, DOMAIN server'.cred = CredFields,
         server'.depth = server.depth, server'.params = server.params,
         ServerConfines'
  PROVE  ChildInv'
<1>. USE DEF Alive, AfterBound, AfterSeccomp, AfterUid, AfterOverwrite, Ready
<1>1. WellShaped'
  BY DEF ChildInv, WellShaped
<1>2. CapsBounded' /\ ChildConfined'
  BY DEF CapsBounded, ChildConfined
<1>. QED
  BY <1>1, <1>2 DEF ChildInv

(* Priority aside, a child is born with the credentials of its server.     *)
LEMMA SpawnInv ==
  ASSUME ChildInv, NEW message \in Messages, Spawn(message)
  PROVE  ChildInv'
<1>. USE DEF Alive, AfterBound, AfterSeccomp, AfterUid, AfterOverwrite, Ready
<1>. DEFINE merged == Merge(ToParcel(message))
            initial == merged.priority_initial
            born == IF initial = None THEN server.cred
                    ELSE SetPriority(server.cred, Unwrap(initial))
<1>1. /\ DOMAIN child' = {"pc", "cred", "params", "payload", "variant", "asked",
                          "limits_set", "end", "cause"}
      /\ child'.pc = "prologue" /\ child'.cred = born /\ child'.params = merged
  BY DEF Spawn, Newborn
<1>2. /\ server.phase = "serving" /\ server'.phase \in {"serving", "exec"}
      /\ DOMAIN server' = DOMAIN server /\ server'.cred = server.cred
      /\ server'.depth = server.depth /\ server'.species = server.species
      /\ server'.params = server.params
  BY DEF Spawn, Idle, ChildInv, WellShaped, ServerFields
<1>3. DOMAIN server.cred = CredFields
  BY DEF ChildInv, WellShaped
<1>4. /\ DOMAIN born = CredFields /\ born.permitted = server.cred.permitted
      /\ born.effective = server.cred.effective
      /\ born.bounding = server.cred.bounding /\ born.gid = server.cred.gid
      /\ born.filters = server.cred.filters /\ born.ranges = server.cred.ranges
      /\ born.no_new_privs = server.cred.no_new_privs
  BY <1>3 DEF SetPriority, CredFields
<1>5. \A field \in ParamFields \ ListFields : IsOption(merged[field])
  BY SpawnHasCommon, MergedOptions DEF ChildInv
<1>. HIDE DEF born, merged
<1>6. WellShaped'
  BY <1>1, <1>2, <1>3, <1>4, <1>5 DEF ChildInv, WellShaped, cred, params
<1>7. ServerConfines'
  BY <1>2 DEF ChildInv, ServerConfines
<1>8. CapsBounded'
  BY <1>1, <1>2, <1>4 DEF CapsBounded, cred
<1>9. ChildConfined'
  BY <1>1, <1>2, <1>4 DEF ChildConfined, cred
<1>. QED
  BY <1>6, <1>7, <1>8, <1>9 DEF ChildInv

-----------------------------------------------------------------------------
(* The effective id context.                                               *)

(* Under another effective id root keeps its capabilities as permitted.    *)
LEMMA EffectiveOfRoot ==
  ASSUME NEW c, DOMAIN c = CredFields, DOMAIN c.uid = {"r", "e", "s"},
         c.uid.r = Root, NEW id
  PROVE  LET d == SetEUid(c, id)
         IN /\ DOMAIN d = CredFields /\ DOMAIN d.uid = {"r", "e", "s"}
            /\ d.uid.r = Root /\ d.uid.e = id /\ d.permitted = c.permitted
            /\ id = Root => d.effective = IF c.uid.e = Root THEN c.effective
                                          ELSE c.permitted
<1>. DEFINE uid == Effective(c.uid, id)
<1>1. DOMAIN uid = {"r", "e", "s"} /\ uid.r = Root /\ uid.e = id
  BY DEF Effective
<1>2. HasRoot(uid)
  BY <1>1 DEF HasRoot
<1>3. SetEUid(c, id) = FixCaps(c, uid)
  BY DEF SetEUid
<1>. HIDE DEF uid
<1>4. LET d == FixCaps(c, uid)
      IN /\ DOMAIN d = CredFields /\ d.uid = uid /\ d.permitted = c.permitted
         /\ d.effective = CASE c.uid.e = Root /\ uid.e # Root -> {}
                             [] c.uid.e # Root /\ uid.e = Root -> c.permitted
                             [] OTHER -> c.effective
  BY <1>2 DEF FixCaps, CredFields
<1>. QED
  BY <1>1, <1>3, <1>4

LEMMA EnterContextInv ==
  ASSUME ChildInv, EnterContext
  PROVE  ChildInv'
<1>. USE DEF Alive, AfterBound, AfterSeccomp, AfterUid, AfterOverwrite, Ready
<1>. DEFINE uidFails == /\ server.preload_uid # None
                        /\ ~MaySetEUid(server.cred, Unwrap(server.preload_uid))
            c1 == IF server.preload_uid = None \/ uidFails THEN server.cred
                  ELSE SetEUid(server.cred, Unwrap(server.preload_uid))
            gidFails == /\ server.preload_gid # None
                        /\ ~MaySetEGid(c1, Unwrap(server.preload_gid))
            c2 == IF server.preload_gid = None \/ gidFails THEN c1
                  ELSE SetEGid(c1, Unwrap(server.preload_gid))
<1>0. /\ server.phase = "new" /\ child' = child
      /\ server' = IF uidFails \/ gidFails
                   THEN [server EXCEPT !.phase = "failed", !.cred = c1]
                   ELSE [server EXCEPT !.phase = "preloading", !.cred = c2]
  BY DEF EnterContext
<1>1. DOMAIN server = ServerFields /\ DOMAIN server.cred = CredFields
  BY DEF ChildInv, WellShaped
<1>2. child'.pc \in {"none", "ended", "reported"}
  BY <1>0 DEF ChildInv, WellShaped
<1>3. DOMAIN c1 = CredFields
  BY <1>1 DEF SetEUid, FixCaps, CredFields
<1>4. /\ DOMAIN c2 = CredFields /\ c2.uid = c1.uid
      /\ c2.permitted = c1.permitted /\ c2.effective = c1.effective
  <2>. HIDE DEF c1
  <2>. QED
    BY <1>3 DEF SetEGid, CredFields
<1>5. server.species = "AndroidNative" =>
        /\ DOMAIN c1.uid = {"r", "e", "s"} /\ c1.uid.r = Root
        /\ server.preload_uid = None => c1.uid.e = Root
        /\ "SYS_ADMIN" \in c1.permitted
        /\ c1.uid.e = Root => "SYS_ADMIN" \in c1.effective
  <2>. SUFFICES ASSUME server.species = "AndroidNative"
                PROVE  /\ DOMAIN c1.uid = {"r", "e", "s"} /\ c1.uid.r = Root
                       /\ server.preload_uid = None => c1.uid.e = Root
                       /\ "SYS_ADMIN" \in c1.permitted
                       /\ c1.uid.e = Root => "SYS_ADMIN" \in c1.effective
    OBVIOUS
  <2>1. /\ server.cred.uid = Ids(Root)
        /\ "SYS_ADMIN" \in server.cred.effective
        /\ "SYS_ADMIN" \in server.cred.permitted
    BY <1>0 DEF ChildInv, ServerConfines
  <2>2. /\ DOMAIN server.cred.uid = {"r", "e", "s"} /\ server.cred.uid.r = Root
        /\ server.cred.uid.e = Root
    BY <2>1 DEF Ids
  <2>3. CASE c1 = server.cred
    BY <2>1, <2>2, <2>3
  <2>4. CASE /\ server.preload_uid # None
             /\ c1 = SetEUid(server.cred, Unwrap(server.preload_uid))
    <3>. HIDE DEF c1
    <3>. QED
      BY <1>1, <2>1, <2>2, <2>4, EffectiveOfRoot
  <2>. QED
    BY <2>3, <2>4
<1>. HIDE DEF uidFails, gidFails, c1, c2
<1>6. /\ DOMAIN server' = DOMAIN server /\ DOMAIN server'.cred = CredFields
      /\ server'.depth = server.depth /\ server'.params = server.params
      /\ server'.species = server.species
      /\ server'.preload_uid = server.preload_uid
      /\ \/ server'.phase = "failed"
         \/ server'.phase = "preloading" /\ server'.cred = c2
  BY <1>0, <1>1, <1>3, <1>4 DEF ServerFields
<1>7. ServerConfines'
  <2>1. server.species = "AndroidNative" => ~(server.depth > 0)
    BY <1>0 DEF ChildInv, ServerConfines
  <2>. QED
    BY <1>4, <1>5, <1>6, <2>1 DEF ServerConfines
<1>. QED
  BY <1>2, <1>6, <1>7, ServerGoesOn

LEMMA LeaveContextInv ==
  ASSUME ChildInv, LeaveContext
  PROVE  ChildInv'
<1>. USE DEF Alive, AfterBound, AfterSeccomp, AfterUid, AfterOverwrite, Ready
<1>. DEFINE c0 == server.cred
            c1 == IF server.preload_uid = None THEN c0 ELSE SetEUid(c0, c0.uid.r)
            c2 == IF server.preload_gid = None THEN c1 ELSE SetEGid(c1, c1.gid.r)
<1>0. /\ server.phase = "preloading" /\ child' = child
      /\ \/ server' = [server EXCEPT !.phase = "panicked"]
         \/ server' = [server EXCEPT !.phase = "serving", !.cred = c2]
  BY DEF LeaveContext
<1>1. DOMAIN server = ServerFields /\ DOMAIN server.cred = CredFields
  BY DEF ChildInv, WellShaped
<1>2. child'.pc \in {"none", "ended", "reported"}
  BY <1>0 DEF ChildInv, WellShaped
<1>3. DOMAIN c1 = CredFields
  BY <1>1 DEF SetEUid, FixCaps, CredFields
<1>4. DOMAIN c2 = CredFields /\ c2.effective = c1.effective
  <2>. HIDE DEF c1
  <2>. QED
    BY <1>3 DEF SetEGid, CredFields
<1>5. server.species = "AndroidNative" => "SYS_ADMIN" \in c1.effective
  <2>. SUFFICES ASSUME server.species = "AndroidNative"
                PROVE  "SYS_ADMIN" \in c1.effective
    OBVIOUS
  <2>1. /\ DOMAIN c0.uid = {"r", "e", "s"} /\ c0.uid.r = Root
        /\ server.preload_uid = None => c0.uid.e = Root
        /\ c0.uid.e # Root => "SYS_ADMIN" \in c0.permitted
        /\ c0.uid.e = Root => "SYS_ADMIN" \in c0.effective
    BY <1>0 DEF ChildInv, ServerConfines
  <2>2. CASE server.preload_uid = None
    BY <2>1, <2>2
  <2>3. CASE server.preload_uid # None
    <3>1. c1 = SetEUid(c0, Root)
      BY <2>1, <2>3
    <3>. HIDE DEF c0, c1
    <3>2. DOMAIN c0 = CredFields
      BY <1>1 DEF c0
    <3>. QED
      BY <2>1, <3>1, <3>2, EffectiveOfRoot
  <2>. QED
    BY <2>2, <2>3
<1>. HIDE DEF c0, c1, c2
<1>6. /\ DOMAIN server' = DOMAIN server /\ DOMAIN server'.cred = CredFields
      /\ server'.depth = server.depth /\ server'.params = server.params
      /\ server'.species = server.species
      /\ \/ server'.phase = "panicked"
         \/ server'.phase = "serving" /\ server'.cred = c2
  BY <1>0, <1>1, <1>4 DEF ServerFields
<1>7. ServerConfines'
  <2>1. server.species = "AndroidNative" => ~(server.depth > 0)
    BY <1>0 DEF ChildInv, ServerConfines
  <2>. QED
    BY <1>4, <1>5, <1>6, <2>1 DEF ServerConfines
<1>. QED
  BY <1>2, <1>6, <1>7, ServerGoesOn

-----------------------------------------------------------------------------
(* The remaining steps, and the theorems.                                  *)

LEMMA RemainingStepsInv ==
  ASSUME ChildInv,
         \/ \E message \in Messages : PanicInServer(message)
         \/ AndroidFails \/ ApplicationEnds \/ Killed \/ ReportEnd
  PROVE  ChildInv'
<1>. USE DEF Alive, AfterBound, AfterSeccomp, AfterUid, AfterOverwrite, Ready
<1>1. CASE \E message \in Messages : PanicInServer(message)
  <2>1. PICK message \in Messages : PanicInServer(message)
    BY <1>1
  <2>2. /\ child' = child /\ child.pc \in {"none", "reported"}
        /\ server.phase = "serving"
        /\ DOMAIN server' = DOMAIN server /\ server'.phase = "panicked"
        /\ server'.cred = server.cred /\ server'.depth = server.depth
        /\ server'.params = server.params /\ server'.species = server.species
    BY <2>1 DEF PanicInServer, Idle, ChildInv, WellShaped, ServerFields
  <2>3. ServerConfines'
    BY <2>2 DEF ChildInv, ServerConfines
  <2>4. DOMAIN server'.cred = CredFields
    BY <2>2 DEF ChildInv, WellShaped
  <2>. QED
    BY <2>2, <2>3, <2>4, ServerGoesOn
<1>2. CASE AndroidFails
  BY <1>2, EndedInv DEF AndroidFails
<1>3. CASE ApplicationEnds
  BY <1>3, EndedInv DEF ApplicationEnds
<1>4. CASE Killed
  <2>1. child.pc \in Alive
    BY <1>4 DEF Killed, ChildInv, WellShaped
  <2>. QED
    BY <1>4, <2>1, EndedInv DEF Killed
<1>5. CASE ReportEnd
  <2>1. server' = server /\ child'.pc = "reported"
    BY <1>5 DEF ReportEnd
  <2>2. ServerConfines'
    BY <2>1 DEF ChildInv, ServerConfines
  <2>3. DOMAIN server.cred = CredFields
    BY DEF ChildInv, WellShaped
  <2>. QED
    BY <2>1, <2>2, <2>3, ServerGoesOn
<1>. QED
  BY <1>1, <1>2, <1>3, <1>4, <1>5

LEMMA InitInv ==
  ASSUME Init
  PROVE  ChildInv
<1>. USE DEF Alive, AfterBound, AfterSeccomp, AfterUid, AfterOverwrite, Ready
<1>1. server \in Starts /\ child.pc = "none"
  BY DEF Init, NoChild
<1>2. WellShaped
  BY <1>1, ChildAssumption DEF WellShaped
<1>3. ServerConfines
  BY <1>1, ChildAssumption DEF ServerConfines
<1>. QED
  BY <1>1, <1>2, <1>3 DEF ChildInv, CapsBounded, ChildConfined

LEMMA NextInv ==
  ASSUME ChildInv, [Next]_vars
  PROVE  ChildInv'
<1>1. CASE UNCHANGED vars
  BY <1>1 DEF vars, ChildInv, WellShaped, CapsBounded, ServerConfines, ChildConfined,
              cred, params
<1>2. CASE EnterContext \/ LeaveContext
  BY <1>2, EnterContextInv, LeaveContextInv
<1>3. ASSUME NEW message \in Messages, Spawn(message)
      PROVE  ChildInv'
  BY <1>3, SpawnInv
<1>4. CASE ReInitialize
  BY <1>4, EarlyStepsInv, DropBoundingInv, SetGidInv, SetSeccompInv, SetUidInv,
     OverwriteCapsInv, EpilogueInv
     DEF ReInitialize
<1>5. CASE BecomeApplication \/ BecomeSubspecies \/ ServeAsSubspecies
  BY <1>5, BecomeApplicationInv, BecomeSubspeciesInv, ServeAsSubspeciesInv
<1>6. CASE \/ \E message \in Messages : PanicInServer(message)
           \/ AndroidFails \/ ApplicationEnds \/ Killed \/ ReportEnd
  BY <1>6, RemainingStepsInv
<1>. QED
  BY <1>1, <1>2, <1>3, <1>4, <1>5, <1>6 DEF Next, ChildStep

(* From the fork to the end of a child, and from one subspecies zygote to  *)
(* the next: re_initialize never leaves a capability that the parent has   *)
(* not, and what confines a zygote confines all that come after it.        *)
THEOREM SpawningInvariant == Spec => []ChildInv
<1>1. Init => ChildInv
  BY InitInv
<1>2. ChildInv /\ [Next]_vars => ChildInv'
  BY NextInv
<1>. QED
  BY <1>1, <1>2, PTL DEF Spec

(* speciate and set_seccomp_filters: a subspecies zygote of AndroidNative  *)
(* and every application it spawns stay inside its user id range.          *)
THEOREM SubspeciesConfined == Spec => []Confined
<1>1. ASSUME ChildInv PROVE Confined
  <2>. USE <1>1 DEF Alive, AfterBound, AfterSeccomp, AfterUid, AfterOverwrite, Ready
  <2>. SUFFICES ASSUME server.species = "AndroidNative", server.depth > 0
                PROVE  Confined
    BY DEF Confined
  <2>1. /\ server.cred.ranges # {} /\ server.cred.no_new_privs
        /\ "app_zygote" \in server.cred.filters
    BY DEF ChildInv, ServerConfines
  <2>2. ASSUME child.pc \in Settled
        PROVE  /\ \A uid \in {cred.uid.r, cred.uid.e, cred.uid.s} :
                    InRanges(server.cred, uid)
               /\ InRanges(server.cred, cred.gid.e) \/ cred.gid = server.cred.gid
               /\ server.cred.ranges \subseteq cred.ranges /\ cred.no_new_privs
    <3>1. child.pc \in Ready
      BY <2>2 DEF Settled
    <3>2. PICK uid \in params.uid : cred.uid = Ids(uid) /\ InRanges(server.cred, uid)
      BY <3>1 DEF ChildInv, ChildConfined, None
    <3>. QED
      BY <2>1, <3>1, <3>2 DEF ChildInv, ChildConfined, Ids
  <2>. QED
    BY <2>1, <2>2 DEF Confined
<1>. QED
  BY <1>1, SpawningInvariant, PTL

=============================================================================
