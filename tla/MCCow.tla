------------------------------- MODULE MCCow -------------------------------
(* Cow for TLC: the slots other than initproc's are interchangeable. *)
EXTENDS Cow, TLC

Symm == Permutations(Procs \ {initproc})

(* Bound: three processes with one page each, or two with NPages. *)
Small == (\A p \in Procs : sz[p] <= 1) \/ nextpid <= 3
============================================================================
