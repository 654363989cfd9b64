------------------------------- MODULE MCLog -------------------------------
(* Log for TLC: processes and blocks are interchangeable. *)
EXTENDS Log, TLC

Symm == Permutations(Procs) \cup Permutations(Blocks)
============================================================================
