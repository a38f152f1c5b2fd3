---------------------------- MODULE MCProcessTree ----------------------------
(* Small instances of ProcessTree for TLC.                                 *)
EXTENDS ProcessTree, TLC

(* The process ids are interchangeable.                                    *)
Interchangeable == Permutations(Pids)

=============================================================================
