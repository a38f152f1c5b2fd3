---------------------------- MODULE ZygoteMessages ----------------------------
(***************************************************************************)
(* What a spawn message says and what is left of it after the wire:        *)
(* src/zygote-messages and the code src/zygote-proc-macros generates for   *)
(* it.  A parcel is a record of the fields of the FlatBuffers table; an    *)
(* Option is a set of at most one element; a capability mask is the set of *)
(* its bits.  Names and labels are members of small sets, "" among them.   *)
(*                                                                         *)
(* `common` is an Option: the schema does not require the table, although  *)
(* every Message of this repository has one.  Lists may be longer than the *)
(* vectors a Message keeps them in, for the same reason.                   *)
(***************************************************************************)
EXTENDS Subsequences, SequencesExt

CONSTANTS
  Caps,               (* the capability bits CapabilityFlags names         *)
  UnknownBit,         (* a bit of RawCap that is none of them              *)
  GID_VECTOR_SIZE,    (* capacity of secondary_groups                      *)
  RLIMIT_VECTOR_SIZE, (* capacity of rlimits                               *)
  MESSAGE_ARG_BUFFER_MAX  (* capacity of the arguments of a LibApp payload *)

ASSUME MessageAssumption ==
  /\ UnknownBit \notin Caps
  /\ GID_VECTOR_SIZE \in Nat /\ RLIMIT_VECTOR_SIZE \in Nat
  /\ MESSAGE_ARG_BUFFER_MAX \in Nat

None == {}
Some(x) == {x}
Unwrap(option) == CHOOSE x \in option : TRUE
UnwrapOr(option, d) == IF option = None THEN d ELSE Unwrap(option)
OrElse(a, b) == IF a # None THEN a ELSE b

I32_MAX == 2147483647
RawCap_MAX == Caps \cup {UnknownBit}

-----------------------------------------------------------------------------
(* The code the macros generate for one field.                             *)

(* #[marshal(default = d)]                                                 *)
MarshalDefault(option, d) == UnwrapOr(option, d)

(* #[unmarshal(valid_range = ...)]                                         *)
UnmarshalValidRange(value, inRange) == IF inRange THEN Some(value) ELSE None

(* The hand-written functions of #[marshal(map)] and #[unmarshal(map)].    *)
MarshalCaps(option) == MarshalDefault(option, RawCap_MAX)
UnmarshalCaps(raw) == IF raw = RawCap_MAX THEN None ELSE Some(raw \cap Caps)
MarshalString(option) == MarshalDefault(option, "")
MarshalBytes(option) == MarshalDefault(option, "")
UnmarshalPreloadingCmd(bytes) == UnmarshalValidRange(bytes, bytes # "")

(* A limit is a struct of three numbers: resource, hard, soft.             *)
PackRLimit(limit) == <<limit.resource, limit.hard, limit.soft>>
UnpackRLimit(raw) == [soft |-> raw[3], hard |-> raw[2], resource |-> raw[1]]

(* The ranges of uid and gid, and of the two priorities.                   *)
IsSetId(id) == id >= 1
IsPriorityInclusive(p) == p >= -20 /\ p <= 20   (* a faulty IsPriority    *)
IsPriority(p) == p >= -20 /\ p < 20

-----------------------------------------------------------------------------
(* SpawnParamsCommon.                                                      *)

(* What the command line tools and the server's own configuration can say. *)
CliParams(args) ==
  [selinux_flags |-> args.selinux_flags, no_new_privs |-> None,
   uid |-> args.uid, gid |-> args.gid, process_name |-> args.process_name,
   priority_initial |-> args.priority_initial,
   priority_final |-> args.priority_final,
   cap_effective |-> None, cap_permitted |-> None,
   cap_inheritable |-> None, cap_bound |-> None,
   se_info |-> args.se_info, secondary_groups |-> args.secondary_groups,
   rlimits |-> <<>>]

(* config::Server::to_spawn_params: there is no --se-info.                 *)
ConfigParams(config) == [CliParams(config) EXCEPT !.se_info = None]

MarshalCommon(p) ==
  [p EXCEPT
     !.selinux_flags = MarshalDefault(@, 0),
     !.no_new_privs = MarshalDefault(@, FALSE),
     !.uid = MarshalDefault(@, -1), !.gid = MarshalDefault(@, -1),
     !.process_name = MarshalString(@), !.se_info = MarshalString(@),
     !.priority_initial = MarshalDefault(@, I32_MAX),
     !.priority_final = MarshalDefault(@, I32_MAX),
     !.cap_effective = MarshalCaps(@), !.cap_permitted = MarshalCaps(@),
     !.cap_inheritable = MarshalCaps(@), !.cap_bound = MarshalCaps(@),
     !.rlimits = [i \in DOMAIN @ |-> PackRLimit(@[i])]]

UnmarshalCommon(w) ==
  [w EXCEPT
     !.selinux_flags = Some(@), !.no_new_privs = Some(@),
     !.uid = UnmarshalValidRange(@, IsSetId(@)),
     !.gid = UnmarshalValidRange(@, IsSetId(@)),
     !.process_name = Some(@), !.se_info = Some(@),
     !.priority_initial = UnmarshalValidRange(@, IsPriority(@)),
     !.priority_final = UnmarshalValidRange(@, IsPriority(@)),
     !.cap_effective = UnmarshalCaps(@), !.cap_permitted = UnmarshalCaps(@),
     !.cap_inheritable = UnmarshalCaps(@), !.cap_bound = UnmarshalCaps(@),
     !.rlimits = [i \in DOMAIN @ |-> UnpackRLimit(@[i])]]

(* Collecting more elements into an ArrayVec than it holds panics.         *)
ListsFit(p) ==
  /\ Len(p.secondary_groups) <= GID_VECTOR_SIZE
  /\ Len(p.rlimits) <= RLIMIT_VECTOR_SIZE

(* Faulty Unique: the chain is collected as it is.                         *)
NotUnique(s) == s

(* Itertools::unique: the first of each value, in their order.             *)
Unique(s) ==
  Select(s, {i \in DOMAIN s : \A j \in 1 .. i - 1 : s[j] # s[i]})

ListFields == {"secondary_groups", "rlimits"}

(* SpawnParamsCommon::or, before the lists are collected.                  *)
Or(p, q) ==
  [f \in DOMAIN p |->
     CASE f = "secondary_groups" -> Unique(p[f] \o q[f])
       [] f = "rlimits" -> p[f] \o q[f]
       [] OTHER -> OrElse(p[f], q[f])]

-----------------------------------------------------------------------------
(* SpawnPayload and Message.                                               *)

(* The variants of the two unions, and those that carry spawn parameters.  *)
PayloadVariants == {"AndroidNative", "AndroidNativeSubspecies", "LibApp", "Mock"}
SpawnVariants == {"Spawn", "SpawnSubspecies"}

(* Only the fields later steps look at, and the arguments, by their number.*)
MarshalPayload(payload) ==
  IF payload.variant = "AndroidNative"
  THEN [payload EXCEPT !.preloading_cmd = MarshalBytes(@)]
  ELSE payload

(* unmarshal_libapp_args: what fits is taken over, see ParcelPanics.       *)
ArgsFit(payload) ==
  payload.variant = "LibApp" => Len(payload.args) <= MESSAGE_ARG_BUFFER_MAX

UnmarshalPayload(payload) ==
  IF payload.variant = "AndroidNative"
  THEN [payload EXCEPT !.preloading_cmd = UnmarshalPreloadingCmd(@)]
  ELSE payload

ToParcel(message) ==
  [message EXCEPT !.common = {MarshalCommon(p) : p \in @},
                  !.payload = MarshalPayload(@)]

(* Err(UnknownVariant) for a tag of another version of the schema.         *)
TryFromParcel(parcel) ==
  IF /\ parcel.variant \in SpawnVariants
     /\ parcel.payload.variant \in PayloadVariants
  THEN Some([parcel EXCEPT !.common = {UnmarshalCommon(w) : w \in @},
                           !.payload = UnmarshalPayload(@)])
  ELSE None

(* try_from_parcel expects the table to be there, and collects the lists   *)
(* into vectors that may be too small, whatever the species is.            *)
ParcelPanics(parcel) ==
  /\ parcel.variant \in SpawnVariants
  /\ \/ parcel.common = None
     \/ \E w \in parcel.common : ~ListsFit(w)
     \/ ~ArgsFit(parcel.payload)

(* parse_spawn_subspecies_android_native verifies the bytes.               *)
IsPreloadingCmd(bytes) == bytes # "garbage"

(* SpawnPayloadParser::to_spawn_payload: no preloading command.            *)
ToSpawnPayload(parser) ==
  IF parser.variant = "AndroidNative" THEN [parser EXCEPT !.preloading_cmd = None]
  ELSE parser

(* MessageParser::to_message and Launch::to_spawn_message.                 *)
ToMessage(variant, args, parser) ==
  [variant |-> variant, common |-> Some(CliParams(args)),
   payload |-> ToSpawnPayload(parser)]

=============================================================================
