---------------------------- MODULE MCZygoteServer ----------------------------
(* Small instances of ZygoteServer for TLC.                                *)
EXTENDS ZygoteServer, TLC

(* The connections are interchangeable, and so are the process ids.        *)
Interchangeable == Permutations(Clients) \cup Permutations(Pids)

=============================================================================
