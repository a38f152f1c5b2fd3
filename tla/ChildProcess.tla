------------------------------ MODULE ChildProcess ------------------------------
(***************************************************************************)
(* The life of a spawned child: a client's message, the fork, the          *)
(* re-initialisation of src/zygote/src/child_process.rs one privileged     *)
(* call at a time, and then an application or a subspecies zygote, which   *)
(* takes the next message with the credentials it has left.  It begins     *)
(* with the server loading its libraries under other effective ids.        *)
(*                                                                         *)
(* Children share nothing while they re-initialise, so one is followed at  *)
(* a time; when it becomes a server, it is the one followed.               *)
(***************************************************************************)
EXTENDS Species, WaitStatus, FiniteSets

CONSTANTS
  Starts,         (* servers init may start, see Server                    *)
  Messages,       (* the messages clients build                            *)
  Resources,      (* the resources a limit may name, known ones or not     *)
  PanicEnds,      (* how a process that panics may end                     *)
  KillEnds,       (* how a process may be ended from outside               *)
  AppEnds,        (* how an application may end                            *)
  MaxSubspecies   (* nested subspecies zygotes                             *)

(* A server has these fields, the credentials of a process those; see the  *)
(* modules that use them.                                                  *)
ServerFields == {"phase", "species", "exec", "cred", "params", "preload_uid",
                 "preload_gid", "depth", "died_of"}
CredFields == {"uid", "gid", "groups", "permitted", "effective", "inheritable",
               "bounding", "keep_caps", "no_new_privs", "filters", "ranges",
               "limits", "domain", "priority"}
ParamFields == {"selinux_flags", "no_new_privs", "uid", "gid", "process_name",
                "priority_initial", "priority_final", "cap_effective",
                "cap_permitted", "cap_inheritable", "cap_bound", "se_info",
                "secondary_groups", "rlimits"}

(* At most one value.                                                      *)
IsOption(option) == \A x, y \in option : x = y

(* init starts the AndroidNative server as root (zygote_next.rc), and the  *)
(* privilege to install filters comes with that.                           *)
ASSUME ChildAssumption ==
  /\ \A start \in Starts :
       /\ DOMAIN start = ServerFields /\ DOMAIN start.cred = CredFields
       /\ start.phase = "new" /\ start.depth = 0
       /\ DOMAIN start.params = ParamFields
       /\ \A field \in ParamFields \ ListFields : IsOption(start.params[field])
       /\ start.species = "AndroidNative" =>
            /\ start.cred.uid = Ids(Root)
            /\ "SYS_ADMIN" \in start.cred.effective \cap start.cred.permitted
  /\ \A message \in Messages :
       /\ DOMAIN message = {"variant", "common", "payload"}
       /\ IsOption(message.common)
       /\ \A p \in message.common : DOMAIN p = ParamFields

(* Ids are numbers, and the kernel keeps the effective capabilities within *)
(* the permitted ones.                                                     *)
IdTriple == [r : Nat, e : Nat, s : Nat]
Priority == -20..19
RLimit == [resource : Resources, soft : Nat, hard : Nat]

CredOK(c) ==
  /\ c.uid \in IdTriple /\ c.gid \in IdTriple /\ c.priority \in Priority
  /\ c.effective \subseteq c.permitted
  /\ c.permitted \cup c.inheritable \cup c.bounding \subseteq Caps
  /\ c.filters \subseteq {"app", "system", "app_zygote"}

(* A server's configuration: the ids it names are not negative, and the    *)
(* command line has checked the priorities.                                *)
DefaultsOK(p) ==
  /\ p.uid \cup p.gid \subseteq Nat /\ p.rlimits \in Seq(RLimit)
  /\ p.priority_initial \cup p.priority_final \subseteq Priority

(* init executes no set-user-id program.                                   *)
ASSUME StartAssumption ==
  /\ MaxSubspecies \in Nat
  /\ \A start \in Starts :
       /\ start.species \in SpeciesTags /\ start.exec \in BOOLEAN
       /\ start.died_of = None
       /\ CredOK(start.cred) /\ DefaultsOK(start.params)
       /\ start.params.secondary_groups \in Seq(Int)
       /\ start.cred.uid.e = start.cred.uid.r /\ start.cred.gid.e = start.cred.gid.r
       /\ start.cred.effective = start.cred.permitted
       /\ IsOption(start.preload_uid) /\ start.preload_uid \subseteq Nat
       /\ IsOption(start.preload_gid) /\ start.preload_gid \subseteq Nat

CapFields == {"cap_effective", "cap_permitted", "cap_inheritable", "cap_bound"}

(* The types of SpawnParamsCommon, as a client fills it in, and of the     *)
(* arguments.                                                              *)
ASSUME MessagesAssumption ==
  \A message \in Messages :
    /\ message.payload.variant = "LibApp" => message.payload.args \in Seq(STRING)
    /\ \A p \in message.common :
         /\ p.rlimits \in Seq(RLimit) /\ p.secondary_groups \in Seq(Int)
         /\ \A field \in {"uid", "gid", "priority_initial", "priority_final"} :
              p[field] \subseteq Int
         /\ \A field \in CapFields : p[field] \subseteq SUBSET Caps
         /\ \A field \in ParamFields \ ListFields : IsOption(p[field])

(* An exit code has eight bits, and 127 is no signal.  A panic exits with  *)
(* 101 or aborts; who is killed has not exited.                            *)
End == [how : {"exit"}, value : 0..255] \cup [how : {"kill", "dump"}, value : 1..126]

ASSUME EndAssumption ==
  /\ PanicEnds \cup KillEnds \cup AppEnds \subseteq End
  /\ [how |-> "exit", value |-> 0] \notin PanicEnds \cup KillEnds

VARIABLES
  server,   (* the process that takes messages                             *)
  child,    (* the process it has forked                                   *)
  report    (* the datagram sent to the system server about its end        *)

vars == <<server, child, report>>

ServerPhases == {"new", "preloading", "serving", "exec", "failed", "panicked"}

(* The order of re_initialize.                                             *)
Steps == <<"prologue", "securebits", "additive", "bound", "groups", "rlimits",
           "gid", "seccomp", "uid", "overwrite", "epilogue">>

(* Faulty After: the bounding set is reduced before the inheritable one    *)
(* has the capabilities to be kept.                                        *)
AfterBoundFirst(pc) ==
  CASE pc = "securebits" -> "bound" [] pc = "bound" -> "additive"
    [] pc = "additive" -> "groups" [] pc = "epilogue" -> "born"
    [] OTHER -> LET i == CHOOSE j \in DOMAIN Steps : Steps[j] = pc IN Steps[i + 1]

After(pc) ==
  LET i == CHOOSE j \in DOMAIN Steps : Steps[j] = pc
  IN IF i = Len(Steps) THEN "born" ELSE Steps[i + 1]

NoChild == [pc |-> "none"]

Init ==
  /\ \E start \in Starts : server = start
  /\ child = NoChild
  /\ report = None

-----------------------------------------------------------------------------
(* Server::preload inside an EffectiveIdContext.                           *)

(* Faulty EnterContext: what setregid returns is not looked at.            *)
EnterContextUnchecked ==
  /\ server.phase = "new"
  /\ LET uid == server.preload_uid
         gid == server.preload_gid
         c1 == IF uid = None THEN server.cred
               ELSE SetEUid(server.cred, Unwrap(uid))
         c2 == IF gid = None \/ ~MaySetEGid(c1, Unwrap(gid)) THEN c1
               ELSE SetEGid(c1, Unwrap(gid))
     IN server' = [server EXCEPT !.phase = "preloading", !.cred = c2]
  /\ UNCHANGED <<child, report>>

(* EffectiveIdContext::enter: the user, then the group; an error leaves    *)
(* the ids where they are and Server::new fails.                           *)
EnterContext ==
  /\ server.phase = "new"
  /\ LET uid == server.preload_uid
         gid == server.preload_gid
         uidFails == uid # None /\ ~MaySetEUid(server.cred, Unwrap(uid))
         c1 == IF uid = None \/ uidFails THEN server.cred
               ELSE SetEUid(server.cred, Unwrap(uid))
         gidFails == gid # None /\ ~MaySetEGid(c1, Unwrap(gid))
         c2 == IF gid = None \/ gidFails THEN c1 ELSE SetEGid(c1, Unwrap(gid))
     IN server' = IF uidFails \/ gidFails
                  THEN [server EXCEPT !.phase = "failed", !.cred = c1]
                  ELSE [server EXCEPT !.phase = "preloading", !.cred = c2]
  /\ UNCHANGED <<child, report>>

(* Faulty LeaveContext: only the user id is restored.                      *)
LeaveContextUidOnly ==
  /\ server.phase = "preloading"
  /\ server' = [server EXCEPT !.phase = "serving",
                  !.cred = IF server.preload_uid = None THEN @
                           ELSE SetEUid(@, @.uid.r)]
  /\ UNCHANGED <<child, report>>

(* dlopen has returned: exit() from Drop, which panics on an error.        *)
LeaveContext ==
  /\ server.phase = "preloading"
  /\ LET c0 == server.cred
         c1 == IF server.preload_uid = None THEN c0 ELSE SetEUid(c0, c0.uid.r)
         c2 == IF server.preload_gid = None THEN c1 ELSE SetEGid(c1, c1.gid.r)
         fails == \/ server.preload_uid # None /\ ~MaySetEUid(c0, c0.uid.r)
                  \/ server.preload_gid # None /\ ~MaySetEGid(c1, c1.gid.r)
     IN server' = IF fails THEN [server EXCEPT !.phase = "panicked"]
                  ELSE [server EXCEPT !.phase = "serving", !.cred = c2]
  /\ UNCHANGED <<child, report>>

-----------------------------------------------------------------------------
(* handle_spawn.                                                           *)

(* Faulty Merge: the client's parameters as they came.                     *)
MergeNothing(parcel) == UnmarshalCommon(Unwrap(parcel.common))

Merge(parcel) == Or(UnmarshalCommon(Unwrap(parcel.common)), server.params)

(* What the child starts with, its initial priority set.                   *)
Newborn(message, parcel) ==
  LET params == Merge(parcel)
      payload == UnmarshalPayload(parcel.payload)
      cred == IF params.priority_initial = None THEN server.cred
              ELSE SetPriority(server.cred, Unwrap(params.priority_initial))
  IN [pc |-> "prologue", cred |-> cred, params |-> params, payload |-> payload,
      variant |-> parcel.variant, asked |-> Unwrap(message.common), limits_set |-> 0,
      end |-> None, cause |-> None]

Idle == server.phase = "serving" /\ child.pc \in {"none", "reported"}

(* The message is decoded, and its payload is one of this species.         *)
Understood(parcel) ==
  /\ TryFromParcel(parcel) # None
  /\ server.exec \/ IsSpawnPayloadType(server.species, parcel.payload)

(* The message cannot be decoded without a panic; or the groups or limits  *)
(* merged do not fit; or an exec-spawned process, whose only message is    *)
(* not verified before, expects it to be one of this schema.               *)
PanicInServer(message) ==
  LET parcel == ToParcel(message) IN
  /\ Idle
  /\ \/ ParcelPanics(parcel)
     \/ ~ParcelPanics(parcel) /\ Understood(parcel) /\ ~ListsFit(Merge(parcel))
     \/ server.exec /\ TryFromParcel(parcel) = None
  /\ server' = [server EXCEPT !.phase = "panicked", !.died_of = Some(message)]
  /\ UNCHANGED <<child, report>>

(* handle_message_spawn and handle_message_spawn_subspecies; a server      *)
(* that was exec-spawned goes on as the child itself.                      *)
Spawn(message) ==
  LET parcel == ToParcel(message) IN
  /\ Idle
  /\ message.variant = "SpawnSubspecies" => server.depth < MaxSubspecies
  /\ ~ParcelPanics(parcel) /\ Understood(parcel) /\ ListsFit(Merge(parcel))
  /\ child' = Newborn(message, parcel)
  /\ server' = [server EXCEPT !.phase = IF server.exec THEN "exec" ELSE @]
  /\ report' = None

-----------------------------------------------------------------------------
(* re_initialize.                                                          *)

cred == child.cred
params == child.params

Ended(end, cause) ==
  /\ child' = [child EXCEPT !.pc = "ended", !.end = Some(end),
                             !.cause = Some(cause)]
  /\ UNCHANGED <<server, report>>

Proceed(next) ==
  /\ child' = [child EXCEPT !.pc = After(@), !.cred = next]
  /\ UNCHANGED <<server, report>>

(* expect(): go on with what the call leaves behind, or panic.             *)
Expect(may, next) ==
  IF may THEN Proceed(next) ELSE \E end \in PanicEnds : Ended(end, "panic")

(* A call that is only made when the parameter is given.                   *)
ExpectIf(given, may, next) == IF given THEN Expect(may, next) ELSE Proceed(cred)

Prologue ==
  /\ child.pc = "prologue"
  /\ Expect(PrologueAccepts(server.species, cred, params), cred)

(* Without the privilege there is only a warning.                          *)
SetSecureBits ==
  /\ child.pc = "securebits"
  /\ Proceed(IF MaySetSecureBits(cred) THEN KeepCaps(cred) ELSE cred)

(* Faulty AddInheritable: all the permitted capabilities there are.        *)
AddAllInheritable ==
  LET wanted == cred.inheritable \cup cred.permitted IN
  /\ child.pc = "additive"
  /\ ExpectIf(params.cap_permitted # None,
              MayStore(cred, cred.effective, cred.permitted, wanted),
              Store(cred, cred.effective, cred.permitted, wanted))

(* store_additive with the permitted capabilities to be as inheritable.    *)
AddInheritable ==
  LET wanted == cred.inheritable \cup Unwrap(params.cap_permitted) IN
  /\ child.pc = "additive"
  /\ ExpectIf(params.cap_permitted # None,
              MayStore(cred, cred.effective, cred.permitted, wanted),
              Store(cred, cred.effective, cred.permitted, wanted))

DropBounding ==
  LET surplus == cred.bounding \ Unwrap(params.cap_bound) IN
  /\ child.pc = "bound"
  /\ ExpectIf(params.cap_bound # None, surplus = {} \/ MayDropBound(cred),
              DropBound(cred, surplus))

(* Faulty ReplaceGroups: an exec-spawned child is treated as the others.   *)
ReplaceListedGroups ==
  /\ child.pc = "groups"
  /\ ExpectIf(params.secondary_groups # <<>>, MaySetGroups(cred),
              SetGroups(cred, ToSet(params.secondary_groups)))

ReplaceGroups ==
  /\ child.pc = "groups"
  /\ ExpectIf(params.secondary_groups # <<>> \/ server.exec, MaySetGroups(cred),
              SetGroups(cred, ToSet(params.secondary_groups)))

(* One setrlimit call per entry, in their order.                           *)
SetNextRlimit ==
  LET limit == params.rlimits[child.limits_set + 1] IN
  /\ child.pc = "rlimits" /\ child.limits_set < Len(params.rlimits)
  /\ IF MaySetRlimit(cred, limit)
     THEN /\ child' = [child EXCEPT !.limits_set = @ + 1,
                                    !.cred.limits = SetRlimit(@, limit)]
          /\ UNCHANGED <<server, report>>
     ELSE \E end \in PanicEnds : Ended(end, "panic")

RlimitsSet ==
  /\ child.pc = "rlimits" /\ child.limits_set = Len(params.rlimits)
  /\ Proceed(cred)

SetGid ==
  /\ child.pc = "gid"
  /\ ExpectIf(params.gid # None, MaySetResGid(cred, Unwrap(params.gid)),
              SetResGid(cred, Unwrap(params.gid)))

SetSeccomp ==
  /\ child.pc = "seccomp"
  /\ Expect(SeccompAccepts(server.species, params, child.payload),
            SetSeccompFilters(server.species, cred, params, child.payload))

(* Faulty SetUid: tried again until it is allowed.                         *)
SetUidRetried ==
  /\ child.pc = "uid"
  /\ \A uid \in params.uid : MaySetResUid(cred, uid)
  /\ Proceed(IF params.uid = None THEN cred
             ELSE SetResUid(cred, Unwrap(params.uid)))

SetUid ==
  /\ child.pc = "uid"
  /\ ExpectIf(params.uid # None, MaySetResUid(cred, Unwrap(params.uid)),
              SetResUid(cred, Unwrap(params.uid)))

(* overwrite_some and store_overwrite, then the name asked for.            *)
OverwriteCaps ==
  LET e == UnwrapOr(params.cap_effective, cred.effective)
      p == UnwrapOr(params.cap_permitted, cred.permitted)
      i == UnwrapOr(params.cap_inheritable, cred.inheritable)
  IN /\ child.pc = "overwrite"
     /\ Expect(MayStore(cred, e, p, i), Store(cred, e, p, i))

Epilogue ==
  /\ child.pc = "epilogue"
  /\ Expect(EpilogueAccepts(server.species, params),
            ReInitializeEpilogue(server.species, cred, params))

(* cgroup::create, set_sched_policy or set_selinux_context fails.          *)
AndroidFails ==
  /\ server.species = "AndroidNative"
  /\ child.pc \in {"prologue", "epilogue"}
  /\ \E end \in PanicEnds : Ended(end, "android")

-----------------------------------------------------------------------------
(* After re_initialize.                                                    *)

Become(pc, next) ==
  /\ child' = [child EXCEPT !.pc = pc, !.cred = next]
  /\ UNCHANGED <<server, report>>

(* The continuation of a Spawn gestates whatever the payload is.           *)
BecomeApplication ==
  /\ child.pc = "born" /\ (child.variant = "Spawn" \/ server.exec)
  /\ IF GestateAccepts(server.species, child.payload, server.exec)
     THEN Become("running", Gestate(server.species, cred, params))
     ELSE \E end \in PanicEnds : Ended(end, "panic")

(* Faulty BecomeSubspecies: without speciate, as if its caller called it.  *)
BecomeUnspeciated ==
  /\ child.pc = "born" /\ child.variant = "SpawnSubspecies" /\ ~server.exec
  /\ Become("serving", cred)

BecomeSubspecies ==
  /\ child.pc = "born" /\ child.variant = "SpawnSubspecies" /\ ~server.exec
  /\ IF SpeciateAccepts(server.species, child.payload)
     THEN Become("serving", Speciate(server.species, cred, child.payload))
     ELSE \E end \in PanicEnds : Ended(end, "panic")

(* re_initialize_as_subspecies: the same loop, the same spawn_params.      *)
ServeAsSubspecies ==
  /\ child.pc = "serving"
  /\ server' = [server EXCEPT !.cred = cred, !.depth = @ + 1]
  /\ child' = NoChild
  /\ UNCHANGED report

ApplicationEnds ==
  /\ child.pc = "running"
  /\ \E end \in AppEnds : Ended(end, "application")

(* A signal from outside, between any two steps.                           *)
Killed ==
  /\ child.pc \notin {"none", "ended", "reported"}
  /\ \E end \in KillEnds : Ended(end, "signal")

(* handle_signalfd_events and handle_sigchld.  A system server that is not *)
(* listening, or a failed send, is only logged.                            *)
ReportEnd ==
  /\ child.pc = "ended" /\ server.phase = "serving"
  /\ child' = [child EXCEPT !.pc = "reported"]
  /\ \/ report' = None
     \/ /\ ReportsChildren(server.species)
        /\ report' = Some([uid |-> cred.uid.r,
                           status |-> RawStatus(SigInfo(Unwrap(child.end)))])
  /\ UNCHANGED server

-----------------------------------------------------------------------------
ReInitialize ==
  \/ Prologue \/ SetSecureBits \/ AddInheritable \/ DropBounding \/ ReplaceGroups
  \/ SetNextRlimit \/ RlimitsSet \/ SetGid \/ SetSeccomp \/ SetUid
  \/ OverwriteCaps \/ Epilogue

ChildStep == ReInitialize \/ BecomeApplication \/ BecomeSubspecies

Next ==
  \/ EnterContext \/ LeaveContext
  \/ \E message \in Messages : Spawn(message) \/ PanicInServer(message)
  \/ ChildStep \/ ServeAsSubspecies
  \/ AndroidFails \/ ApplicationEnds \/ Killed \/ ReportEnd

(* A runnable child runs, and the server collects its children.            *)
Fairness == WF_vars(ChildStep) /\ WF_vars(ReportEnd)

Spec == Init /\ [][Next]_vars /\ Fairness

-----------------------------------------------------------------------------
(* Properties.                                                             *)

Settled == {"running", "serving"}
(* Types.  The kernel and the checked ranges of the wire keep ids,         *)
(* priorities and capability sets within their bounds, whatever a client   *)
(* sends (priority_initial and priority_final of SpawnParamsCommon).       *)
TypeOK ==
  /\ server.phase \in ServerPhases /\ server.species \in SpeciesTags
  /\ server.depth \in 0..MaxSubspecies /\ CredOK(server.cred)
  /\ child.pc \in {"none", "born", "running", "serving", "ended", "reported"}
                  \cup ToSet(Steps)
  /\ child # NoChild =>
       /\ CredOK(cred) /\ Cardinality(child.end) <= 1
       /\ child.limits_set \in 0..Len(params.rlimits)
       /\ params.priority_initial \cup params.priority_final \subseteq Priority
       /\ \A field \in DOMAIN params \ ListFields :
            Cardinality(params[field]) <= 1
  /\ Cardinality(report) <= 1

(* EffectiveIdContext::enter: no library's initialisers ever run under     *)
(* other effective ids than those configured; an id that cannot be taken   *)
(* on stops the server instead.                                            *)
LibrariesLoadedAsAsked ==
  server.phase = "preloading" =>
    /\ \A uid \in server.preload_uid : server.cred.uid.e = uid
    /\ \A gid \in server.preload_gid : server.cred.gid.e = gid

(* Drop of EffectiveIdContext: once the libraries are loaded the server    *)
(* has its own ids back, and with them every capability it may use: it     *)
(* never forks children from a half-restored state.                        *)
ServesAsStarted ==
  server.phase \in {"serving", "exec"} /\ server.depth = 0 =>
    /\ server.cred.uid.e = server.cred.uid.r
    /\ server.cred.gid.e = server.cred.gid.r
    /\ server.cred.effective = server.cred.permitted

Legal(field, value) ==
  CASE field \in {"uid", "gid"} -> IsSetId(value)
    [] field \in {"priority_initial", "priority_final"} -> IsPriority(value)
    [] OTHER -> TRUE

NeverAbsent == {"selinux_flags", "no_new_privs", "process_name", "se_info"}

(* The parameters of one child: what its client gave, where it gave a      *)
(* legal value, and the server's default elsewhere; for the four fields    *)
(* that have no absent value on the wire some value all the same           *)
(* (marshalling, unmarshalling and SpawnParamsCommon::or together).        *)
ParamsSurviveWire ==
  child # NoChild =>
    /\ ToSet(params.secondary_groups) =
         ToSet(child.asked.secondary_groups \o server.params.secondary_groups)
    /\ params.rlimits = child.asked.rlimits \o server.params.rlimits
    /\ \A field \in DOMAIN child.asked \ ListFields :
         LET asked == child.asked[field]
         IN IF asked # None /\ Legal(field, Unwrap(asked)) THEN params[field] = asked
            ELSE IF field \in NeverAbsent THEN params[field] # None
            ELSE params[field] = server.params[field]

(* try_from_parcel and SpawnParamsCommon::or: a spawn message that ends    *)
(* the server lacks its common table, or gives LibApp more arguments than  *)
(* a Message keeps, or names more groups or limits than a child can be     *)
(* given, by itself or together with the server's defaults.  Merging is    *)
(* what is easy to get wrong: there a group named twice counts once.  (An  *)
(* exec-spawned process serves nobody.)                                    *)
ServerSurvives ==
  \A message \in server.died_of :
    \/ server.exec
    \/ message.common = None
    \/ /\ message.payload.variant = "LibApp"
       /\ Len(message.payload.args) > MESSAGE_ARG_BUFFER_MAX
    \/ \E asked \in message.common :
         \/ Len(asked.secondary_groups) > GID_VECTOR_SIZE
         \/ Cardinality(ToSet(asked.secondary_groups \o server.params.secondary_groups))
              > GID_VECTOR_SIZE
         \/ Len(asked.rlimits) + Len(server.params.rlimits) > RLIMIT_VECTOR_SIZE

(* re_initialize: whatever the order its calls need, what the last of them *)
(* leaves behind is what was asked for: ids, groups (those inherited by    *)
(* an exec-spawned process are always replaced), limits, and for Android   *)
(* the SELinux domain, a filter and NO_NEW_PRIVS.                          *)
RunsAsAsked ==
  child.pc \in Settled =>
    /\ \A uid \in params.uid : cred.uid = Ids(uid)
    /\ \A gid \in params.gid : cred.gid = Ids(gid)
    /\ cred.groups = IF params.secondary_groups = <<>> /\ ~server.exec
                     THEN server.cred.groups ELSE ToSet(params.secondary_groups)
    /\ params.rlimits # <<>> =>
         LET limit == Last(params.rlimits)
         IN cred.limits[limit.resource] = [soft |-> limit.soft, hard |-> limit.hard]
    /\ server.species = "AndroidNative" =>
         /\ cred.domain = Some(Domain(params))
         /\ cred.filters # {}
         /\ TRUE \in params.no_new_privs => cred.no_new_privs

(* store_additive: the server's inheritable set and the permitted set that *)
(* was asked for.                                                          *)
Additive == server.cred.inheritable \cup UNION params.cap_permitted

(* CapabilitiesSet: a child has exactly the sets that were asked for, and  *)
(* where nothing was asked never more of the permitted and bounding sets   *)
(* than its parent.  Two things re_initialize does for its own sake are    *)
(* not taken back, and this says how much of them stays: unless an         *)
(* inheritable set was asked for, what store_additive added to it, and     *)
(* SECBIT_KEEP_CAPS wherever the server could set it.  Nothing else stays. *)
NoExtraPrivilege ==
  child.pc \in Settled =>
    /\ \A caps \in params.cap_permitted : cred.permitted = caps
    /\ \A caps \in params.cap_effective : cred.effective = caps
    /\ \A caps \in params.cap_bound : cred.bounding \subseteq caps
    /\ cred.inheritable = UnwrapOr(params.cap_inheritable, Additive)
    /\ cred.keep_caps <=> server.cred.keep_caps \/ "SETPCAP" \in server.cred.effective
    /\ cred.permitted \subseteq server.cred.permitted
    /\ cred.bounding \subseteq server.cred.bounding

(* What the server must be able to do, and a client must say, for a child  *)
(* to come to life.                                                        *)
CapsRequestFits(c) ==
  LET P == params.cap_permitted
      others == UNION (params.cap_effective \cup params.cap_inheritable)
  IN /\ P # None => /\ "SETPCAP" \in c.effective /\ params.cap_effective # None
                    /\ Unwrap(P) \subseteq c.permitted \cap (c.bounding \cup c.inheritable)
                    /\ others \subseteq Unwrap(P)
     /\ P = None => others = {}
     /\ params.cap_bound # None => "SETPCAP" \in c.effective

WellFormed(c) ==
  /\ \A uid \in params.uid : "SETUID" \in c.effective /\ InRanges(c, uid)
  /\ \A gid \in params.gid : "SETGID" \in c.effective /\ InRanges(c, gid)
  /\ params.secondary_groups # <<>> \/ server.exec => MaySetGroups(c)
  /\ \A limit \in ToSet(params.rlimits) :
       /\ limit.resource \in DOMAIN c.limits /\ limit.soft <= limit.hard
       /\ "SYS_RESOURCE" \in c.effective
  /\ CapsRequestFits(c)
  /\ server.species = "AndroidNative" => params.uid # None
  /\ child.payload.variant =
       IF child.variant = "SpawnSubspecies" /\ ~server.exec
          /\ server.species = "AndroidNative"
       THEN "AndroidNativeSubspecies" ELSE server.species
  /\ child.payload.variant = "AndroidNative" /\ server.exec =>
       \A cmd \in child.payload.preloading_cmd : IsPreloadingCmd(cmd)

(* re_initialize: the calls are made in an order in which none takes away  *)
(* a privilege that a later one needs, so that a request within the        *)
(* server's own credentials never ends in a panic of the child.            *)
PrivilegesSuffice ==
  child.pc \in {"ended", "reported"} /\ WellFormed(server.cred) =>
    child.cause # Some("panic")

(* speciate and set_seccomp_filters of AndroidNative: a subspecies zygote  *)
(* and every application it spawns stay inside its user id range for good. *)
Confined ==
  server.species = "AndroidNative" /\ server.depth > 0 =>
    /\ server.cred.ranges # {} /\ server.cred.no_new_privs
    /\ "app_zygote" \in server.cred.filters
    /\ child.pc \in Settled =>
         /\ \A uid \in {cred.uid.r, cred.uid.e, cred.uid.s} : InRanges(server.cred, uid)
         /\ InRanges(server.cred, cred.gid.e) \/ cred.gid = server.cred.gid
         /\ server.cred.ranges \subseteq cred.ranges /\ cred.no_new_privs

(* The steps a child has still ahead of it, by what it has behind it.      *)
Ready == {"born", "running", "serving"}
AfterOverwrite == {"epilogue"} \cup Ready
AfterUid == {"overwrite"} \cup AfterOverwrite
AfterSeccomp == {"uid"} \cup AfterUid
AfterBound == {"groups", "rlimits", "gid", "seccomp"} \cup AfterSeccomp
Alive == {"prologue", "securebits", "additive", "bound"} \cup AfterBound

WellShaped ==
  /\ DOMAIN server = ServerFields /\ DOMAIN server.cred = CredFields
  /\ server.depth \in Nat
  /\ DOMAIN server.params = ParamFields
  /\ \A field \in ParamFields \ ListFields : IsOption(server.params[field])
  /\ child.pc \in Alive =>
       /\ DOMAIN child = {"pc", "cred", "params", "payload", "variant", "asked",
                          "limits_set", "end", "cause"}
       /\ DOMAIN cred = CredFields
       /\ \A field \in ParamFields \ ListFields : IsOption(params[field])
       /\ server.phase \in {"serving", "exec"}
  /\ child.pc \notin Alive => child.pc \in {"none", "ended", "reported"}

(* A child never has a capability that its server has not, and has what    *)
(* was asked for from the step on that sets it.                            *)
CapsBounded ==
  child.pc \in Alive =>
    /\ cred.permitted \subseteq server.cred.permitted
    /\ cred.bounding \subseteq server.cred.bounding
    /\ child.pc \in AfterBound =>
         \A caps \in params.cap_bound : cred.bounding \subseteq caps
    /\ child.pc \in AfterOverwrite =>
         /\ \A caps \in params.cap_permitted : cred.permitted = caps
         /\ \A caps \in params.cap_effective : cred.effective = caps
         /\ \A caps \in params.cap_inheritable : cred.inheritable = caps

(* An AndroidNative server can install filters: the one init started has   *)
(* its privilege back after preloading, a subspecies has NO_NEW_PRIVS.     *)
ServerConfines ==
  server.species = "AndroidNative" =>
    /\ server.phase = "new" => server.cred.uid = Ids(Root)
    /\ server.phase = "preloading" =>
         /\ DOMAIN server.cred.uid = {"r", "e", "s"} /\ server.cred.uid.r = Root
         /\ server.preload_uid = None => server.cred.uid.e = Root
         /\ server.cred.uid.e # Root => "SYS_ADMIN" \in server.cred.permitted
    /\ \/ server.phase = "new"
       \/ server.phase = "preloading" /\ server.cred.uid.e = Root
       \/ server.phase \in {"serving", "exec"} /\ server.depth = 0
       => "SYS_ADMIN" \in server.cred.effective
    /\ server.phase = "new" => "SYS_ADMIN" \in server.cred.permitted
    /\ server.depth > 0 =>
         /\ server.cred.ranges # {} /\ server.cred.no_new_privs
         /\ "app_zygote" \in server.cred.filters
         /\ server.phase \notin {"new", "preloading"}

(* What confines a server confines its child, and an app zygote's child    *)
(* that is to be one is confined before it gives up its privilege.         *)
ChildConfined ==
  server.species = "AndroidNative" /\ child.pc \in Alive =>
    /\ server.cred.ranges \subseteq cred.ranges
    /\ server.cred.filters \subseteq cred.filters
    /\ server.cred.no_new_privs => cred.no_new_privs
    /\ child.pc \notin AfterUid => cred.effective = server.cred.effective
    /\ cred.gid = server.cred.gid \/ InRanges(server.cred, cred.gid.e)
    /\ child.pc \in AfterUid =>
         \A uid \in params.uid : cred.uid = Ids(uid) /\ InRanges(server.cred, uid)
    /\ child.pc \in AfterSeccomp /\ child.payload.variant = "AndroidNativeSubspecies" =>
         cred.no_new_privs /\ "app_zygote" \in cred.filters
    /\ child.pc \in Ready => params.uid # None
    /\ child.pc = "serving" =>
         /\ cred.ranges # {}
         /\ child.payload.variant = "AndroidNativeSubspecies"

(* The inductive invariant of re_initialize, handle_message_spawn and      *)
(* EffectiveIdContext: from fork to gestate or speciate, at every step     *)
(* what keeps a child within its parent's capabilities and an app zygote's *)
(* children within its range.                                              *)
ChildInv == WellShaped /\ CapsBounded /\ ServerConfines /\ ChildConfined

(* What a server is configured with stays what it is, and what it merges   *)
(* with a message is within the same bounds.                               *)
ServerTyped ==
  /\ server.phase \in ServerPhases /\ server.species \in SpeciesTags
  /\ server.depth \in 0..MaxSubspecies
  /\ CredOK(server.cred) /\ DefaultsOK(server.params)
  /\ IsOption(server.preload_uid) /\ server.preload_uid \subseteq Nat
  /\ IsOption(server.preload_gid) /\ server.preload_gid \subseteq Nat
  /\ child # NoChild => server.phase \notin {"new", "preloading"}

ChildFields == {"pc", "cred", "params", "payload", "variant", "asked",
                "limits_set", "end", "cause"}

ChildTyped ==
  child # NoChild =>
    /\ child.pc \in Alive \cup {"ended", "reported"}
    /\ DOMAIN child = ChildFields /\ DOMAIN cred = CredFields
    /\ CredOK(cred) /\ DefaultsOK(params)
    /\ DOMAIN params = ParamFields
    /\ \A field \in ParamFields \ ListFields : IsOption(params[field])
    /\ \A field \in NeverAbsent : params[field] # None
    /\ child.limits_set \in 0..Len(params.rlimits)
    /\ child.variant = "SpawnSubspecies" /\ child.pc \in Alive =>
         server.depth < MaxSubspecies
    /\ child.pc = "serving" => child.variant = "SpawnSubspecies"

(* How a child ends, and what is sent of it.                               *)
EndTruthful ==
  /\ child.pc \in {"ended", "reported"} =>
       \E end \in End :
         /\ child.end = Some(end)
         /\ child.cause # Some("application") => end # [how |-> "exit", value |-> 0]
         /\ child.cause = Some("application") => params.uid \subseteq {cred.uid.r}
  /\ child.pc \in Alive => child.end = None
  /\ report # None =>
       /\ child.pc = "reported"
       /\ report = Some([uid |-> cred.uid.r,
                         status |-> RawStatus(SigInfo(Unwrap(child.end)))])

(* What each step of re_initialize finds as the server had it, because no  *)
(* earlier one has touched it: the privileges of the later steps.          *)
PrivilegesKept ==
  child.pc \in Alive =>
    /\ child.pc # "serving" => cred.ranges = server.cred.ranges
    /\ child.pc \notin AfterUid =>
         /\ cred.effective = server.cred.effective
         /\ cred.permitted = server.cred.permitted
    /\ child.pc \notin AfterSeccomp => cred.filters = server.cred.filters
    /\ child.pc \notin AfterBound => cred.bounding = server.cred.bounding
    /\ child.pc \notin AfterBound \cup {"bound"} =>
         cred.inheritable = server.cred.inheritable
    /\ child.pc \in (AfterBound \cup {"bound"}) \ AfterOverwrite =>
         \A caps \in params.cap_permitted : caps \subseteq cred.inheritable
    /\ child.pc \notin AfterOverwrite /\ "SETPCAP" \in server.cred.effective =>
         /\ cred.permitted = server.cred.permitted
         /\ child.pc \notin {"prologue", "securebits"} => cred.keep_caps
    /\ DOMAIN cred.limits = DOMAIN server.cred.limits

AfterGid == {"seccomp"} \cup AfterSeccomp
AfterRlimits == {"gid"} \cup AfterGid
AfterGroups == {"rlimits"} \cup AfterRlimits

(* What each step leaves behind, and no later one undoes.                  *)
DoneAsAsked ==
  child.pc \in Alive =>
    /\ child.pc \in {"prologue", "securebits"} => cred.keep_caps = server.cred.keep_caps
    /\ child.pc \notin {"prologue", "securebits"} =>
         (cred.keep_caps <=> server.cred.keep_caps \/ "SETPCAP" \in server.cred.effective)
    /\ child.pc \in (AfterBound \cup {"bound"}) \ AfterOverwrite =>
         cred.inheritable = Additive
    /\ child.pc \in AfterOverwrite =>
         cred.inheritable = UnwrapOr(params.cap_inheritable, Additive)
    /\ child.pc \notin AfterGroups => cred.groups = server.cred.groups
    /\ child.pc \in AfterGroups =>
         cred.groups = IF params.secondary_groups = <<>> /\ ~server.exec
                       THEN server.cred.groups ELSE ToSet(params.secondary_groups)
    /\ child.pc \in AfterRlimits => child.limits_set = Len(params.rlimits)
    /\ child.limits_set > 0 =>
         LET limit == params.rlimits[child.limits_set]
         IN cred.limits[limit.resource] = [soft |-> limit.soft, hard |-> limit.hard]
    /\ child.pc \in AfterGid => \A gid \in params.gid : cred.gid = Ids(gid)
    /\ child.pc \in AfterUid => \A uid \in params.uid : cred.uid = Ids(uid)
    /\ server.species = "AndroidNative" =>
         /\ child.pc \in AfterSeccomp => cred.filters # {}
         /\ child.pc \in Ready =>
              /\ cred.domain = Some(Domain(params))
              /\ TRUE \in params.no_new_privs => cred.no_new_privs

PromisesKept ==
  /\ ServerTyped /\ ChildTyped /\ EndTruthful
  /\ PrivilegesKept /\ DoneAsAsked /\ PrivilegesSuffice

(* From the message to the datagram: at every step of a child what its     *)
(* later steps, its parent and the system server rely on.                  *)
SpawningInv == ChildInv /\ PromisesKept

(* Between Server::new and the end of preload: the ids and capabilities a  *)
(* server still has of those that it was started with.                     *)
ContextKeeps ==
  /\ server.phase = "new" =>
       /\ server.cred.uid.e = server.cred.uid.r
       /\ server.cred.gid.e = server.cred.gid.r
       /\ server.cred.effective = server.cred.permitted
  /\ server.phase = "preloading" =>
       /\ server.preload_uid = None => server.cred.uid.e = server.cred.uid.r
       /\ server.preload_gid = None => server.cred.gid.e = server.cred.gid.r
       /\ server.cred.uid.e = Root \/ server.cred.uid.r # Root =>
            server.cred.effective = server.cred.permitted
       /\ server.cred.uid.r # Root => server.cred.uid.e # Root
  /\ server.phase \in {"new", "preloading"} /\ server.cred.uid.r # Root =>
       Root \notin server.preload_uid

(* raw_status_from_siginfo and handle_sigchld: the system server decodes   *)
(* from the raw status how the child ended, takes it for a clean exit only *)
(* if the application made one, and an application's end bears its uid.    *)
StatusTruthful ==
  \A sent \in report :
    LET record == FromStatus(sent.status) IN
    /\ record = FromSigInfo(SigInfo(Unwrap(child.end)))
    /\ record = [record |-> "Exited", status |-> 0] => child.cause = Some("application")
    /\ child.cause = Some("application") => params.uid \subseteq {sent.uid}

(* A forked child becomes what it was forked for or ends, and a server     *)
(* that still serves collects it: no child is left half re-initialised.    *)
ChildSettles ==
  /\ child.pc = "prologue" ~> child.pc \in Settled \cup {"ended"}
  /\ (child.pc = "ended" /\ server.phase = "serving") ~> child.pc = "reported"

=============================================================================
