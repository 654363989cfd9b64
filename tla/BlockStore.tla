----------------------------- MODULE BlockStore -----------------------------
(***************************************************************************)
(* What the buffer cache promises its callers: a block is lent to one      *)
(* process at a time, which sees its contents and may change them.         *)
(***************************************************************************)
CONSTANTS Procs, Blocks, Vals, NULL

VARIABLES
  content,  \* the contents of each block
  lent      \* who has the block, and what that process sees

vars == <<content, lent>>

Init ==
  /\ content \in [Blocks -> Vals]
  /\ lent = [n \in Blocks |-> NULL]

Bread(p, n) ==
  /\ lent[n] = NULL
  /\ lent' = [lent EXCEPT ![n] = [by |-> p, sees |-> content[n]]]
  /\ UNCHANGED content

Write(p, n, x) ==
  /\ lent[n] # NULL /\ lent[n].by = p
  /\ content' = [content EXCEPT ![n] = x]
  /\ lent' = [lent EXCEPT ![n].sees = x]

Brelse(p, n) ==
  /\ lent[n] # NULL /\ lent[n].by = p
  /\ lent' = [lent EXCEPT ![n] = NULL]
  /\ UNCHANGED content

Next == \E p \in Procs, n \in Blocks :
  Bread(p, n) \/ Brelse(p, n) \/ \E x \in Vals : Write(p, n, x)

Spec == Init /\ [][Next]_vars
============================================================================
