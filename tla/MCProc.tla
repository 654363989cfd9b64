------------------------------- MODULE MCProc -------------------------------
(* Proc for TLC: the CPUs are interchangeable. *)
EXTENDS Proc, TLC

Symm == Permutations(CPUs)
============================================================================
