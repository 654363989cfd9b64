--------------------------- MODULE PrivateMemory ---------------------------
(***************************************************************************)
(* What processes may assume of their memory: each has its own, a store    *)
(* changes one page of one process, a fork gives the child a copy of its   *)
(* parent's memory, and memory that sbrk() adds is zero.                   *)
(***************************************************************************)
EXTENDS Integers

CONSTANTS Procs, NPages, Vals, Zero, NULL

VARIABLE mem   \* mem[p][v]: the content of page v of p, NULL if it has none

Pages == 0 .. NPages - 1

Absent == [v \in Pages |-> NULL]

(* Page v is the first one p does not have. *)
Break(p, v) ==
  /\ \A u \in Pages : u < v => mem[p][u] # NULL
  /\ \A u \in Pages : u >= v => mem[p][u] = NULL

Store(p, v, x) ==
  /\ mem[p][v] # NULL
  /\ mem' = [mem EXCEPT ![p][v] = x]

Grow(p, v) ==
  /\ mem[p] # Absent /\ Break(p, v)
  /\ mem' = [mem EXCEPT ![p][v] = Zero]

Shrink(p, v) ==
  /\ v > 0 /\ mem[p][v] # NULL /\ Break(p, v + 1)
  /\ mem' = [mem EXCEPT ![p][v] = NULL]

Fork(p, c) ==
  /\ mem[p] # Absent /\ mem[c] = Absent
  /\ mem' = [mem EXCEPT ![c] = mem[p]]

Exit(p) == mem' = [mem EXCEPT ![p] = Absent]

Init == \E p \in Procs : mem = [q \in Procs |-> [v \in Pages |->
                                  IF q = p /\ v = 0 THEN Zero ELSE NULL]]

Next ==
  \E p \in Procs :
    \/ \E v \in Pages, x \in Vals : Store(p, v, x)
    \/ \E v \in Pages : Grow(p, v) \/ Shrink(p, v)
    \/ \E c \in Procs : Fork(p, c)
    \/ Exit(p)

Spec == Init /\ [][Next]_mem
============================================================================
