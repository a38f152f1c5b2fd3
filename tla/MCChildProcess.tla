---------------------------- MODULE MCChildProcess ----------------------------
(***************************************************************************)
(* A small instance of ChildProcess: the servers init starts, and for each *)
(* kind of message a complete one and the ways to depart from it.          *)
(***************************************************************************)
EXTENDS ChildProcess

MCResources == {"NOFILE", "unknown"}
MCCaps == {"SETUID", "SETGID", "SETPCAP", "SYS_ADMIN", "SYS_NICE", "SYS_RESOURCE", "KILL"}

-----------------------------------------------------------------------------
(* Parameters.                                                             *)

NoParams ==
  [selinux_flags |-> None, no_new_privs |-> None, uid |-> None, gid |-> None,
   process_name |-> None, priority_initial |-> None, priority_final |-> None,
   cap_effective |-> None, cap_permitted |-> None, cap_inheritable |-> None,
   cap_bound |-> None, se_info |-> None, secondary_groups |-> <<>>, rlimits |-> <<>>]

Limit(soft, hard) == [soft |-> soft, hard |-> hard, resource |-> "NOFILE"]

Ask(p, field, value) == [p EXCEPT ![field] = value]

App == [NoParams EXCEPT
          !.uid = Some(12), !.gid = Some(13), !.process_name = Some("app"),
          !.se_info = Some("default"), !.selinux_flags = Some(1),
          !.cap_effective = Some({}), !.cap_permitted = Some({})]

ZygoteApp == [App EXCEPT
          !.uid = Some(11), !.gid = Some(11), !.se_info = Some("app_zygote"),
          !.cap_permitted = Some({"SETUID", "SETGID"}),
          !.cap_effective = Some({"SETUID", "SETGID"})]

Isolated == [App EXCEPT !.uid = Some(21), !.gid = Some(21), !.process_name = Some("iso")]

Kept == [App EXCEPT !.cap_permitted = Some({"KILL"}), !.cap_effective = Some({"KILL"}),
                    !.cap_inheritable = Some({"KILL"})]

(* One field changed at a time.                                            *)
Changed(p) ==
  {Ask(p, field, None) : field \in {"uid", "gid", "process_name", "se_info",
                                    "cap_effective", "cap_permitted"}}
  \cup {Ask(p, "uid", Some(u)) : u \in {0, 5, 22, 25}}
  \cup {Ask(p, "gid", Some(25)), Ask(p, "no_new_privs", Some(TRUE))}
  \cup {Ask(p, "priority_initial", Some(n)) : n \in {-1, 20}}
  \cup {Ask(p, "priority_final", Some(n)) : n \in {-1, 20}}
  \cup {Ask(p, "cap_bound", Some(c)) : c \in {{}, {"KILL"}}}
  \cup {Ask(p, "cap_effective", Some({"KILL"})), Ask(p, "cap_permitted", Some({"KILL"})),
        Ask(p, "cap_inheritable", Some({"KILL"}))}
  \cup {Ask(p, "secondary_groups", g) : g \in {<<7>>, <<8, 7>>, <<7, 8, 9>>}}
  \cup {Ask(p, "rlimits", l) : l \in {<<Limit(1, 2)>>, <<Limit(2, 1)>>, <<Limit(1, 9)>>,
                                       <<Limit(1, 2), Limit(1, 1)>>,
                                       <<Limit(1, 2), Limit(1, 1), Limit(1, 1)>>,
                                       <<[Limit(1, 1) EXCEPT !.resource = "unknown"]>>}}

-----------------------------------------------------------------------------
(* Messages.                                                               *)

AppPayload == [variant |-> "AndroidNative", preloading_cmd |-> None]
Preloading(cmd) == [AppPayload EXCEPT !.preloading_cmd = Some(cmd)]
ZygotePayload == [variant |-> "AndroidNativeSubspecies", uid_gid_min |-> 20, uid_gid_max |-> 22]
LibPayload == [variant |-> "LibApp", args |-> <<"a">>]
LongLibPayload == [LibPayload EXCEPT !.args = <<"a", "b">>]
MockPayload == [variant |-> "Mock"]
NewerPayload == [variant |-> "of a newer schema"]

Message(variant, params_, payload) ==
  [variant |-> variant, common |-> Some(params_), payload |-> payload]

(* What a client of its own making may leave out of the table.             *)
WithoutCommon(variant, payload) ==
  [variant |-> variant, common |-> None, payload |-> payload]

Arguments ==
  [selinux_flags |-> None, uid |-> Some(12), gid |-> None, process_name |-> None,
   priority_initial |-> None, priority_final |-> Some(3), se_info |-> Some("default"),
   secondary_groups |-> <<7>>]

MCMessages ==
  {Message("Spawn", p, AppPayload) :
     p \in {App, Isolated, Kept, Ask(Kept, "cap_bound", Some({})), NoParams} \cup Changed(App)}
  \cup {Message("SpawnSubspecies", p, ZygotePayload) :
          p \in {ZygoteApp, Ask(ZygoteApp, "cap_bound", Some({})),
                 Ask(ZygoteApp, "secondary_groups", <<7>>),
                 Ask(ZygoteApp, "cap_effective", None)}}
  \cup {Message("Spawn", Ask(Isolated, "secondary_groups", <<7>>), AppPayload),
        Message("Spawn", Ask(Isolated, "gid", None), AppPayload),
        Message("Spawn", App, NewerPayload),
        Message("Spawn", App, ZygotePayload), Message("SpawnSubspecies", App, AppPayload),
        Message("SpawnSubspecies", NoParams, LibPayload),
        Message("SpawnSubspecies", NoParams, MockPayload),
        Message("Spawn", NoParams, MockPayload),
        Message("Spawn", NoParams, LibPayload),
        Message("Spawn", Kept, LibPayload),
        Message("Spawn", Ask(NoParams, "priority_final", Some(-1)), LibPayload),
        Message("Spawn", Ask(NoParams, "cap_permitted", Some({})), LibPayload),
        ToMessage("Spawn", Arguments, LibPayload),
        ToMessage("Spawn", [Arguments EXCEPT !.gid = Some(12)], Preloading("cmd")),
        Message("Spawn", App, Preloading("cmd")),
        Message("Spawn", App, Preloading("garbage"))}
  \cup {Message("Spawn", NoParams, LongLibPayload),
        Message("SpawnSubspecies", App, LongLibPayload),
        WithoutCommon("Spawn", AppPayload), WithoutCommon("Spawn", NewerPayload),
        WithoutCommon("SpawnSubspecies", LibPayload)}

-----------------------------------------------------------------------------
(* Servers.                                                                *)

Privileged ==
  [uid |-> Ids(Root), gid |-> Ids(Root), groups |-> {}, permitted |-> MCCaps,
   effective |-> MCCaps, inheritable |-> {}, bounding |-> MCCaps, keep_caps |-> FALSE,
   no_new_privs |-> FALSE, filters |-> {}, ranges |-> {},
   limits |-> [NOFILE |-> [soft |-> 4, hard |-> 4]], domain |-> None, priority |-> 0]

Unprivileged ==
  [Privileged EXCEPT !.uid = Ids(5), !.gid = Ids(5), !.permitted = {}, !.effective = {}]

Server(species, cred_) ==
  [phase |-> "new", species |-> species, exec |-> FALSE, cred |-> cred_,
   params |-> NoParams, preload_uid |-> None, preload_gid |-> None, depth |-> 0,
   died_of |-> None]

Android == Server("AndroidNative", Privileged)

MCStarts ==
  {Android,
   [Android EXCEPT !.preload_uid = Some(5)],
   [Android EXCEPT !.preload_gid = Some(5)],
   [Android EXCEPT !.preload_uid = Some(5), !.preload_gid = Some(5)],
   [Android EXCEPT !.params = ConfigParams(
      [Arguments EXCEPT !.priority_initial = Some(2), !.process_name = Some("name")]),
      !.params.rlimits = <<>>],
   [Android EXCEPT !.exec = TRUE, !.cred.groups = {9}],
   Server("LibApp", Privileged), Server("LibApp", Unprivileged),
   [Server("LibApp", Unprivileged) EXCEPT !.preload_uid = Some(6)],
   Server("Mock", Unprivileged)}

MCPanicEnds == {[how |-> "exit", value |-> 101], [how |-> "kill", value |-> 6]}
MCKillEnds == {[how |-> "kill", value |-> 9]}
MCAppEnds == {[how |-> "exit", value |-> 0], [how |-> "exit", value |-> 1],
              [how |-> "dump", value |-> 11]}

=============================================================================
