---------------------------- MODULE ZygoteProtocol ----------------------------
(***************************************************************************)
(* The requests and answers of src/zygote-messages/src/lib.rs that reach a *)
(* zygote server, and the bounds of the instances that use them.           *)
(***************************************************************************)
EXTENDS Subsequences

CONSTANTS
  Clients,      (* connections that may be made                            *)
  Requests,     (* the requests that occur, a subset of Request            *)
  MaxClients,   (* BUFFER_SIZE_CLIENT_SOCKETS                              *)
  MaxRequests,  (* bound: requests sent in a behaviour                     *)
  Pids,         (* bound: process ids the system may hand out              *)
  NoPid         (* no process id                                           *)

(* Wrong stands for every message that parses and is no request this       *)
(* species serves, Garbage for one that does not parse.                    *)
Request == {"Exit", "IdentityQuery", "Stat", "Spawn", "SpawnSubspecies",
            "Wrong", "Garbage"}

Forking == {"Spawn", "SpawnSubspecies"}
Answerable == Forking \cup {"Exit", "IdentityQuery", "Stat"}

(* An answer names the request it is for; SpawnResponse carries a pid.     *)
Reply == [request : Answerable, pid : Pids \cup {NoPid}]

ASSUME ProtocolAssumption ==
  /\ Requests \subseteq Request
  /\ MaxClients \in Nat
  /\ MaxRequests \in Nat
  /\ NoPid \notin Pids
  /\ IsFiniteSet(Clients)

(* The server's side of a connection, and a child of the server.           *)
ConnState == {"none", "backlog", "open", "refused", "dropped"}
ChildState == {"none", "running", "zombie", "collected"}

=============================================================================
