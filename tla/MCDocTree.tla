------------------------------ MODULE MCDocTree ------------------------------
(* Small instances of DocTree for TLC. *)
EXTENDS DocTree, TLC

\* Requests and workspaces are interchangeable (safety runs only).
Interchangeable == Permutations(Requests) \cup Permutations(Workspaces)
=============================================================================
