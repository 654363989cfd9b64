-------------------------------- MODULE Ide --------------------------------
(***************************************************************************)
(* The disk driver of ide.c: a queue of buffers, the one at its head being *)
(* transferred, and an interrupt when the transfer is over.                *)
(*                                                                         *)
(* The device is external: it takes one command at a time, performs it and *)
(* raises the interrupt.  A block is its number and one value.             *)
(***************************************************************************)
EXTENDS Integers, Sequences, FiniteSets

CONSTANTS
  Procs,     \* processes
  Bufs,      \* bcache.buf
  Blocks,    \* block numbers, all below FSSIZE
  Vals,      \* contents of a block
  Errors,    \* how idewait(1) may find a read: {FALSE}, or {FALSE, TRUE} if it can fail
  Blank,     \* what every block holds when the model starts
  NULL       \* no buffer, no block, no process, no data

VARIABLES
  flags,     \* b->flags
  data,      \* b->data
  blockno,   \* b->blockno
  idequeue,  \* the buffers from idequeue along qnext
  device,    \* the command the disk is performing
  disk,      \* what the disk holds
  pc,        \* where each process is
  cur,       \* the buffer of the call it is in
  panicked   \* some CPU called panic()

ideVars == <<flags, data, blockno, idequeue, device, disk, pc, cur, panicked>>

Command == [write : BOOLEAN, block : Blocks, data : Vals \cup {NULL}, done : BOOLEAN,
            err : BOOLEAN]

IdeTypeOK ==
  /\ flags \in [Bufs -> SUBSET {"VALID", "DIRTY"}]
  /\ data \in [Bufs -> Vals \cup {NULL}]
  /\ blockno \in [Bufs -> Blocks \cup {NULL}]
  /\ idequeue \in Seq(Bufs)
  /\ device \in Command \cup {NULL}
  /\ disk \in [Blocks -> Vals]
  /\ cur \in [Procs -> Bufs \cup {NULL}]
  /\ panicked \in BOOLEAN

IdeInit ==
  /\ flags = [b \in Bufs |-> {}]
  /\ data = [b \in Bufs |-> NULL]
  /\ blockno = [b \in Bufs |-> NULL]
  /\ idequeue = <<>>
  /\ device = NULL
  /\ disk = [n \in Blocks |-> Blank]
  /\ pc = [p \in Procs |-> "run"]
  /\ cur = [p \in Procs |-> NULL]
  /\ panicked = FALSE

At(p, l) == ~panicked /\ pc[p] = l
Goto(p, l) == pc' = [pc EXCEPT ![p] = l]

(* p returns from the call. *)
Return(p) == Goto(p, "run") /\ cur' = [cur EXCEPT ![p] = NULL]

(* The command idestart() gives the disk for b. *)
Idestart(b) ==
  [write |-> "DIRTY" \in flags[b], block |-> blockno[b], data |-> data[b],
   done |-> FALSE, err |-> FALSE]

(* iderw(): the buffer joins the queue, the disk is started if it is idle, *)
(* and the process sleeps.                                                 *)
Iderw(p) ==
  /\ At(p, "iderw")
  /\ IF flags[cur[p]] = {"VALID"}
       THEN panicked' = TRUE /\ UNCHANGED <<idequeue, device, pc>>
       ELSE /\ idequeue' = Append(idequeue, cur[p])
            /\ device' = IF idequeue = <<>> THEN Idestart(cur[p]) ELSE device
            /\ Goto(p, "iderw_sleep")
            /\ UNCHANGED panicked
  /\ UNCHANGED <<flags, data, blockno, disk, cur>>

(* The loop of iderw(), after a wakeup. *)
IderwWake(p) ==
  /\ At(p, "iderw_wake")
  /\ IF flags[cur[p]] = {"VALID"}
       THEN Return(p)
       ELSE Goto(p, "iderw_sleep") /\ UNCHANGED cur
  /\ UNCHANGED <<flags, data, blockno, idequeue, device, disk, panicked>>

(* The disk performs its command (external). *)
DeviceDone ==
  /\ device # NULL /\ ~device.done
  /\ \E e \in Errors : device' = [device EXCEPT !.done = TRUE, !.err = e]
  /\ disk' = IF device.write THEN [disk EXCEPT ![device.block] = device.data] ELSE disk
  /\ UNCHANGED <<flags, data, blockno, idequeue, pc, cur, panicked>>

(* Variant: the disk is not started for the next buffer. *)
IdeintrIdle ==
  /\ ~panicked /\ device # NULL /\ device.done
  /\ LET b == Head(idequeue) IN
     /\ data' = IF "DIRTY" \in flags[b] \/ device.err THEN data
                                                      ELSE [data EXCEPT ![b] = disk[device.block]]
     /\ flags' = [flags EXCEPT ![b] = {"VALID"}]
     /\ pc' = [p \in Procs |-> IF pc[p] = "iderw_sleep" /\ cur[p] = b THEN "iderw_wake"
                                                                     ELSE pc[p]]
  /\ idequeue' = Tail(idequeue)
  /\ device' = NULL
  /\ UNCHANGED <<blockno, disk, cur, panicked>>

(* ideintr(): the first buffer is finished, whoever waits for it is woken  *)
(* and the disk is started for the next one.                               *)
Ideintr ==
  /\ ~panicked /\ device # NULL /\ device.done
  /\ LET b == Head(idequeue) IN
     /\ data' = IF "DIRTY" \in flags[b] \/ device.err THEN data
                                                      ELSE [data EXCEPT ![b] = disk[device.block]]
     /\ flags' = [flags EXCEPT ![b] = {"VALID"}]
     /\ pc' = [p \in Procs |-> IF pc[p] = "iderw_sleep" /\ cur[p] = b THEN "iderw_wake"
                                                                     ELSE pc[p]]
  /\ idequeue' = Tail(idequeue)
  /\ device' = IF Tail(idequeue) = <<>> THEN NULL ELSE Idestart(idequeue[2])
  /\ UNCHANGED <<blockno, disk, cur, panicked>>
============================================================================
