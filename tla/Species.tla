-------------------------------- MODULE Species --------------------------------
(***************************************************************************)
(* The callbacks of the Species trait that a spawned child runs            *)
(* (src/zygote/src/species.rs and its three implementations).  Each        *)
(* callback is what it takes not to panic, and what it makes of the        *)
(* credentials.  What it asks of Android outside the repository (cgroups,  *)
(* scheduling policy, SELinux policy) may fail whatever the parameters     *)
(* are; a callback that does nothing is not listed for that species.       *)
(***************************************************************************)
EXTENDS Credentials, ZygoteMessages

CONSTANT AID_APP_START   (* the first user id of an application            *)

SpeciesTags == {"AndroidNative", "LibApp", "Mock"}

IsSpawnPayloadType(species, payload) ==
  CASE species = "AndroidNative" ->
         payload.variant \in {"AndroidNative", "AndroidNativeSubspecies"}
    [] species = "LibApp" -> payload.variant = "LibApp"
    [] species = "Mock" -> payload.variant = "Mock"

(* re_initialize_prologue: a cgroup for a child of root, named by its uid. *)
PrologueAccepts(species, cred, params) ==
  species = "AndroidNative" /\ cred.uid.r = Root => params.uid # None

(* Faulty SetSeccompFilters: NO_NEW_PRIVS is left to the epilogue.         *)
SetSeccompFiltersOnly(species, cred, params, payload) ==
  IF species # "AndroidNative" THEN cred
  ELSE InstallFilter(cred,
         IF payload.variant = "AndroidNativeSubspecies" THEN "app_zygote"
         ELSE IF Unwrap(params.uid) >= AID_APP_START THEN "app" ELSE "system")

(* set_seccomp_filters                                                     *)
SetSeccompFilters(species, cred, params, payload) ==
  IF species # "AndroidNative" THEN cred
  ELSE IF payload.variant = "AndroidNativeSubspecies"
       THEN NoNewPrivs(InstallFilter(cred, "app_zygote"))
       ELSE InstallFilter(cred, IF Unwrap(params.uid) >= AID_APP_START
                                THEN "app" ELSE "system")

SeccompAccepts(species, params, payload) ==
  \/ species # "AndroidNative" \/ payload.variant = "AndroidNativeSubspecies"
  \/ params.uid # None

(* re_initialize_epilogue                                                  *)
EpilogueAccepts(species, params) ==
  species = "AndroidNative" =>
    None \notin {params.uid, params.se_info, params.process_name,
                 params.selinux_flags}

Domain(params) ==
  [uid |-> Unwrap(params.uid), se_info |-> Unwrap(params.se_info),
   name |-> Unwrap(params.process_name), flags |-> Unwrap(params.selinux_flags)]

ReInitializeEpilogue(species, cred, params) ==
  IF species # "AndroidNative" THEN cred
  ELSE [cred EXCEPT !.domain = Some(Domain(params)),
                    !.no_new_privs = @ \/ TRUE \in params.no_new_privs]

(* speciate: the other species have nothing to do.                         *)
SpeciateAccepts(species, payload) ==
  species = "AndroidNative" => payload.variant = "AndroidNativeSubspecies"

Speciate(species, cred, payload) ==
  IF species = "AndroidNative"
  THEN InstallRange(cred, payload.uid_gid_min, payload.uid_gid_max)
  ELSE cred

(* gestate, up to the call of the application's code.  An exec-spawned     *)
(* process loads first what its subspecies zygote would have loaded.       *)
GestateAccepts(species, payload, exec) ==
  /\ payload.variant = species
  /\ species = "AndroidNative" /\ exec =>
       \A cmd \in payload.preloading_cmd : IsPreloadingCmd(cmd)

Gestate(species, cred, params) ==
  IF species = "LibApp" /\ params.priority_final # None
  THEN SetPriority(cred, Unwrap(params.priority_final))
  ELSE cred

(* handle_sigchld: only Android has someone to tell.                       *)
ReportsChildren(species) == species = "AndroidNative"

=============================================================================
