----------------------------- MODULE MCHandle ------------------------------
(* ClientHandle for TLC.  The processes are interchangeable. *)
EXTENDS ClientHandle, TLC

Interchangeable == Permutations(Process)
=============================================================================
