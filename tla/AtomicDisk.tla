---------------------------- MODULE AtomicDisk ----------------------------
(***************************************************************************)
(* What the logging layer promises the file system: operations update the  *)
(* disk in memory, groups of finished operations become durable in one     *)
(* step, and a crash leaves exactly what was durable.                      *)
(***************************************************************************)
CONSTANTS Procs, Blocks, Vals, Blank

VARIABLES
  durable,   \* the disk a crash would leave
  current,   \* the disk the operations see
  active     \* the processes inside an operation

vars == <<durable, current, active>>

Init ==
  /\ durable = [b \in Blocks |-> Blank]
  /\ current = durable
  /\ active = {}

Begin(p) ==
  /\ p \notin active
  /\ active' = active \cup {p}
  /\ UNCHANGED <<durable, current>>

Write(p, b, x) ==
  /\ p \in active
  /\ current' = [current EXCEPT ![b] = x]
  /\ UNCHANGED <<durable, active>>

End(p) ==
  /\ active' = active \ {p}
  /\ UNCHANGED <<durable, current>>

(* Never while an operation is half done. *)
Commit ==
  /\ active = {}
  /\ durable' = current
  /\ UNCHANGED <<current, active>>

Crash ==
  /\ current' = durable
  /\ active' = {}
  /\ UNCHANGED durable

Next ==
  \/ \E p \in Procs :
       Begin(p) \/ End(p) \/ \E b \in Blocks, x \in Vals : Write(p, b, x)
  \/ Commit
  \/ Crash

Spec == Init /\ [][Next]_vars
============================================================================
