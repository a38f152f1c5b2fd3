------------------------------ MODULE Credentials ------------------------------
(***************************************************************************)
(* The credentials of a process and the system calls of src/zygote-sys     *)
(* that change them.  For each call there is what the kernel requires of   *)
(* the caller (May...) and what it leaves behind.  The kernel is outside   *)
(* the repository: its rules are those of capabilities(7), setresuid(2),   *)
(* setreuid(2), prctl(2) and seccomp(2), for the calls the code makes.     *)
(***************************************************************************)
EXTENDS Integers

Root == 0

(* ids: [r, e, s], for the user and for the group.  ranges: the            *)
(* [uid_gid_min, uid_gid_max] of the set*id filters installed.  domain:    *)
(* the SELinux domain, the arguments of the last transition.               *)
Ids(r) == [r |-> r, e |-> r, s |-> r]

-----------------------------------------------------------------------------
(* User and group ids.                                                     *)

InRanges(cred, id) == \A range \in cred.ranges : range[1] <= id /\ id <= range[2]

MaySetResGid(cred, id) ==
  /\ "SETGID" \in cred.effective \/ id \in {cred.gid.r, cred.gid.e, cred.gid.s}
  /\ InRanges(cred, id)

SetResGid(cred, id) == [cred EXCEPT !.gid = Ids(id)]

MaySetResUid(cred, id) ==
  /\ "SETUID" \in cred.effective \/ id \in {cred.uid.r, cred.uid.e, cred.uid.s}
  /\ InRanges(cred, id)

HasRoot(ids) == Root \in {ids.r, ids.e, ids.s}

(* What the kernel does to the capabilities of a process whose user ids    *)
(* change: the last root id takes them all unless SECBIT_KEEP_CAPS is set, *)
(* and the effective id switches the effective set off and on.             *)
FixCaps(cred, uid) ==
  LET lost == HasRoot(cred.uid) /\ ~HasRoot(uid) /\ ~cred.keep_caps
      permitted == IF lost THEN {} ELSE cred.permitted
  IN [cred EXCEPT
        !.uid = uid,
        !.permitted = permitted,
        !.effective =
           CASE lost \/ (cred.uid.e = Root /\ uid.e # Root) -> {}
             [] cred.uid.e # Root /\ uid.e = Root -> permitted
             [] OTHER -> @]

SetResUid(cred, id) == FixCaps(cred, Ids(id))

(* setreuid(-1, id) and setregid(-1, id): the saved id follows an          *)
(* effective id that is not the real one.                                  *)
Effective(ids, id) == [ids EXCEPT !.e = id, !.s = IF id # ids.r THEN id ELSE @]

MaySetEUid(cred, id) ==
  "SETUID" \in cred.effective \/ id \in {cred.uid.r, cred.uid.e, cred.uid.s}

SetEUid(cred, id) == FixCaps(cred, Effective(cred.uid, id))

MaySetEGid(cred, id) ==
  "SETGID" \in cred.effective \/ id \in {cred.gid.r, cred.gid.e, cred.gid.s}

SetEGid(cred, id) == [cred EXCEPT !.gid = Effective(@, id)]

(* The filter of an app zygote forbids setgroups to it and its children.   *)
MaySetGroups(cred) ==
  "SETGID" \in cred.effective /\ "app_zygote" \notin cred.filters

SetGroups(cred, groups) == [cred EXCEPT !.groups = groups]

-----------------------------------------------------------------------------
(* Capabilities.                                                           *)

MaySetSecureBits(cred) == "SETPCAP" \in cred.effective

KeepCaps(cred) == [cred EXCEPT !.keep_caps = TRUE]

(* capset(2).                                                              *)
MayStore(cred, effective, permitted, inheritable) ==
  /\ permitted \subseteq cred.permitted
  /\ effective \subseteq permitted
  /\ inheritable \subseteq cred.inheritable \cup cred.bounding
  /\ \/ "SETPCAP" \in cred.effective
     \/ inheritable \subseteq cred.inheritable \cup cred.permitted

Store(cred, effective, permitted, inheritable) ==
  [cred EXCEPT !.effective = effective, !.permitted = permitted,
               !.inheritable = inheritable]

MayDropBound(cred) == "SETPCAP" \in cred.effective

DropBound(cred, caps) == [cred EXCEPT !.bounding = @ \ caps]

-----------------------------------------------------------------------------
(* Limits, filters, NO_NEW_PRIVS, SELinux, priority.                       *)

MaySetRlimit(cred, limit) ==
  /\ limit.resource \in DOMAIN cred.limits
  /\ limit.soft <= limit.hard
  /\ limit.hard <= cred.limits[limit.resource].hard \/ "SYS_RESOURCE" \in cred.effective

SetRlimit(limits, limit) ==
  [limits EXCEPT ![limit.resource] = [soft |-> limit.soft, hard |-> limit.hard]]

MayInstallFilter(cred) == "SYS_ADMIN" \in cred.effective \/ cred.no_new_privs

(* None of the callers looks at a result: without the privilege there is   *)
(* no filter.                                                              *)
InstallFilter(cred, filter) ==
  IF MayInstallFilter(cred) THEN [cred EXCEPT !.filters = @ \cup {filter}] ELSE cred

InstallRange(cred, min, max) ==
  IF MayInstallFilter(cred) THEN [cred EXCEPT !.ranges = @ \cup {<<min, max>>}]
                            ELSE cred

NoNewPrivs(cred) == [cred EXCEPT !.no_new_privs = TRUE]

SetPriority(cred, priority) ==
  IF priority >= cred.priority \/ "SYS_NICE" \in cred.effective
  THEN [cred EXCEPT !.priority = priority] ELSE cred

=============================================================================
