---------------------------- MODULE MCStdioClient ----------------------------
(* TLC instance of StdioClient: interchangeable calls on one child process. *)
EXTENDS StdioClient, TLC

Symmetry == Permutations(Calls)
=============================================================================
