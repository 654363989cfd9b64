------------------------------- MODULE Log -------------------------------
(***************************************************************************)
(* The write-ahead log of log.c.  Processes run file system operations     *)
(* between begin_op() and end_op(); the last end_op() commits.  The        *)
(* machine may crash between any two disk writes, recovery included; it    *)
(* loses memory and keeps the disk.                                        *)
(*                                                                         *)
(* A block is its number and one value.  The buffer cache is the value a   *)
(* block has in memory: log_write() pins it with B_DIRTY, bread() of any   *)
(* other block gives what the disk has (modules Bcache, Ide).              *)
(* Each bwrite() is one atomic sector write.                               *)
(***************************************************************************)
EXTENDS Integers, Sequences, FiniteSets

CONSTANTS
  Procs,        \* processes that make file system calls
  Blocks,       \* blocks outside the log
  Vals,         \* contents of a block
  Blank,        \* what every block holds when the model starts
  LOGSIZE,      \* param.h
  MAXOPBLOCKS,  \* param.h
  NLOG,         \* log.size, from the superblock: header and data blocks
  OpBlocks,     \* distinct blocks one operation writes
  MaxDepth,     \* 2 if a page fault inside an operation may start another
  NULL          \* no block

ASSUME ConstantsAssumption ==
  /\ IsFiniteSet(Procs) /\ IsFiniteSet(Blocks)
  /\ Blank \in Vals
  /\ LOGSIZE \in Nat /\ MAXOPBLOCKS \in Nat /\ NLOG \in Nat
  /\ OpBlocks \in 0 .. MAXOPBLOCKS
  /\ MaxDepth \in {1, 2}
  /\ NULL \notin Blocks

VARIABLES
  disk,         \* home locations of the blocks
  dlog,         \* data blocks of the on-disk log
  dhead,        \* header block of the on-disk log: the blocks of lh
  cache,        \* contents of the blocks in memory
  lh,           \* log.lh
  outstanding,  \* log.outstanding
  committing,   \* log.committing
  tail,         \* the local variable tail of write_log(), install_trans()
  pc,           \* where each process is
  depth,        \* operations the process has begun and not ended
  wrote,        \* blocks its operation has passed to log_write()
  held,         \* the buffer the process has locked in log_write()
  boot,         \* where initlog() is; "up" once it returned
  panicked      \* some CPU called panic()

onDisk == <<disk, dlog, dhead>>
inLog == <<lh, outstanding, committing>>
vars == <<disk, dlog, dhead, cache, lh, outstanding, committing, tail, pc, depth,
          wrote, held, boot, panicked>>

PCs == {"run", "begin_op", "sleep", "log_write", "write_log", "write_head",
        "install_trans", "clear_head", "committed"}
Boots == {"read_head", "install_trans", "clear_head", "up"}

TypeOK ==
  /\ disk \in [Blocks -> Vals]
  /\ dlog \in [1 .. LOGSIZE -> Vals]
  /\ dhead \in Seq(Blocks) /\ Len(dhead) <= LOGSIZE
  /\ cache \in [Blocks -> Vals]
  /\ lh \in Seq(Blocks) /\ Len(lh) <= LOGSIZE
  /\ outstanding \in Nat
  /\ committing \in BOOLEAN
  /\ tail \in 1 .. LOGSIZE + 1
  /\ pc \in [Procs -> PCs]
  /\ depth \in [Procs -> 0 .. MaxDepth]
  /\ wrote \in [Procs -> SUBSET Blocks]
  /\ held \in [Procs -> Blocks \cup {NULL}]
  /\ boot \in Boots
  /\ panicked \in BOOLEAN

Init ==
  /\ disk = [b \in Blocks |-> Blank]
  /\ dlog = [i \in 1 .. LOGSIZE |-> Blank]
  /\ dhead = <<>>
  /\ cache = [b \in Blocks |-> Blank]
  /\ lh = <<>>
  /\ outstanding = 0 /\ committing = FALSE
  /\ tail = 1
  /\ pc = [p \in Procs |-> "run"]
  /\ depth = [p \in Procs |-> 0]
  /\ wrote = [p \in Procs |-> {}]
  /\ held = [p \in Procs |-> NULL]
  /\ boot = "read_head"
  /\ panicked = FALSE

Up == boot = "up" /\ ~panicked
At(p, l) == Up /\ pc[p] = l
Goto(p, l) == pc' = [pc EXCEPT ![p] = l]

(* wakeup(&log), and p goes to l. *)
WakeupAndGoto(p, l) ==
  pc' = [q \in Procs |-> IF q = p THEN l
                         ELSE IF pc[q] = "sleep" THEN "begin_op" ELSE pc[q]]

----------------------------------------------------------------------------
(* A process enters a file system call; at depth 1, a page fault inside    *)
(* one: handle_pf() writes the victim with writeToSwapFile().              *)
Call(p) ==
  /\ At(p, "run") /\ depth[p] < MaxDepth
  /\ Goto(p, "begin_op")
  /\ UNCHANGED <<disk, dlog, dhead, cache, lh, outstanding, committing, tail, depth,
                 wrote, held, boot, panicked>>

(* Variant: the space other operations have reserved is not counted. *)
BeginOpUnreserved(p) ==
  /\ At(p, "begin_op")
  /\ IF committing \/ Len(lh) + MAXOPBLOCKS > LOGSIZE
       THEN /\ Goto(p, "sleep")
            /\ UNCHANGED <<outstanding, depth>>
       ELSE /\ Goto(p, "run")
            /\ outstanding' = outstanding + 1
            /\ depth' = [depth EXCEPT ![p] = @ + 1]
  /\ UNCHANGED <<disk, dlog, dhead, cache, lh, committing, tail, wrote, held, boot,
                 panicked>>

(* begin_op() has log.lock: it goes to sleep or starts the operation. *)
BeginOp(p) ==
  /\ At(p, "begin_op")
  /\ IF committing \/ Len(lh) + (outstanding + 1) * MAXOPBLOCKS > LOGSIZE
       THEN /\ Goto(p, "sleep")
            /\ UNCHANGED <<outstanding, depth>>
       ELSE /\ Goto(p, "run")
            /\ outstanding' = outstanding + 1
            /\ depth' = [depth EXCEPT ![p] = @ + 1]
  /\ UNCHANGED <<disk, dlog, dhead, cache, lh, committing, tail, wrote, held, boot,
                 panicked>>

(* The caller of log_write() has changed a block whose buffer it has       *)
(* locked; log_write() tests the size of the log before it has log.lock.   *)
LogWriteTest(p, b, x) ==
  /\ At(p, "run") /\ depth[p] > 0
  /\ Cardinality(wrote[p] \cup {b}) <= OpBlocks
  /\ \A q \in Procs : held[q] # b
  /\ cache' = [cache EXCEPT ![b] = x]
  /\ wrote' = [wrote EXCEPT ![p] = @ \cup {b}]
  /\ IF Len(lh) >= LOGSIZE \/ Len(lh) >= NLOG - 1 \/ outstanding < 1
       THEN panicked' = TRUE /\ UNCHANGED <<pc, held>>
       ELSE /\ Goto(p, "log_write")
            /\ held' = [held EXCEPT ![p] = b]
            /\ UNCHANGED panicked
  /\ UNCHANGED <<disk, dlog, dhead, lh, outstanding, committing, tail, depth, boot>>

(* log_write() has log.lock: the block joins the transaction once. *)
LogWrite(p) ==
  /\ At(p, "log_write")
  /\ lh' = IF \E i \in 1 .. Len(lh) : lh[i] = held[p] THEN lh ELSE Append(lh, held[p])
  /\ held' = [held EXCEPT ![p] = NULL]
  /\ Goto(p, "run")
  /\ UNCHANGED <<disk, dlog, dhead, cache, outstanding, committing, tail, depth, wrote,
                 boot, panicked>>

(* Variant: log.committing is not set. *)
EndOpUnmarked(p) ==
  /\ At(p, "run") /\ depth[p] > 0
  /\ outstanding' = outstanding - 1
  /\ depth' = [depth EXCEPT ![p] = @ - 1]
  /\ wrote' = [wrote EXCEPT ![p] = IF depth[p] = 1 THEN {} ELSE @]
  /\ IF outstanding = 1
       THEN Goto(p, IF lh = <<>> THEN "committed" ELSE "write_log")
       ELSE WakeupAndGoto(p, "run")
  /\ UNCHANGED <<disk, dlog, dhead, cache, lh, committing, tail, held, boot, panicked>>

(* end_op() up to its first release(); the last operation starts commit(). *)
EndOp(p) ==
  /\ At(p, "run") /\ depth[p] > 0
  /\ outstanding' = outstanding - 1
  /\ depth' = [depth EXCEPT ![p] = @ - 1]
  /\ wrote' = [wrote EXCEPT ![p] = IF depth[p] = 1 THEN {} ELSE @]
  /\ IF committing
       THEN panicked' = TRUE /\ UNCHANGED <<pc, committing>>
       ELSE /\ IF outstanding = 1
                 THEN /\ Goto(p, IF lh = <<>> THEN "committed" ELSE "write_log")
                      /\ committing' = TRUE
                 ELSE /\ WakeupAndGoto(p, "run")
                      /\ UNCHANGED committing
            /\ UNCHANGED panicked
  /\ UNCHANGED <<disk, dlog, dhead, cache, lh, tail, held, boot>>

----------------------------------------------------------------------------
(* commit() *)

(* Variant: the header is not written before the blocks are installed. *)
WriteLogNoHead(p) ==
  /\ At(p, "write_log")
  /\ IF tail <= Len(lh)
       THEN /\ dlog' = [dlog EXCEPT ![tail] = cache[lh[tail]]]
            /\ tail' = tail + 1
            /\ UNCHANGED pc
       ELSE /\ tail' = 1
            /\ Goto(p, "install_trans")
            /\ UNCHANGED dlog
  /\ UNCHANGED <<disk, dhead, cache, lh, outstanding, committing, depth, wrote, held,
                 boot, panicked>>

(* write_log(), one block, or the end of its loop. *)
WriteLog(p) ==
  /\ At(p, "write_log")
  /\ IF tail <= Len(lh)
       THEN /\ dlog' = [dlog EXCEPT ![tail] = cache[lh[tail]]]
            /\ tail' = tail + 1
            /\ UNCHANGED pc
       ELSE /\ tail' = 1
            /\ Goto(p, "write_head")
            /\ UNCHANGED dlog
  /\ UNCHANGED <<disk, dhead, cache, lh, outstanding, committing, depth, wrote, held,
                 boot, panicked>>

(* The first write_head(): the transaction commits. *)
WriteHead(p) ==
  /\ At(p, "write_head")
  /\ dhead' = lh
  /\ Goto(p, "install_trans")
  /\ UNCHANGED <<disk, dlog, cache, lh, outstanding, committing, tail, depth, wrote,
                 held, boot, panicked>>

(* install_trans(), one block, or the end of its loop. *)
InstallTrans(p) ==
  /\ At(p, "install_trans")
  /\ IF tail <= Len(lh)
       THEN /\ disk' = [disk EXCEPT ![lh[tail]] = dlog[tail]]
            /\ tail' = tail + 1
            /\ UNCHANGED pc
       ELSE /\ tail' = 1
            /\ Goto(p, "clear_head")
            /\ UNCHANGED disk
  /\ UNCHANGED <<dlog, dhead, cache, lh, outstanding, committing, depth, wrote, held,
                 boot, panicked>>

(* log.lh.n = 0 and the second write_head(). *)
ClearHead(p) ==
  /\ At(p, "clear_head")
  /\ lh' = <<>>
  /\ dhead' = <<>>
  /\ Goto(p, "committed")
  /\ UNCHANGED <<disk, dlog, cache, outstanding, committing, tail, depth, wrote, held,
                 boot, panicked>>

(* Variant: nobody is woken. *)
CommittedSilent(p) ==
  /\ At(p, "committed")
  /\ committing' = FALSE
  /\ Goto(p, "run")
  /\ UNCHANGED <<disk, dlog, dhead, cache, lh, outstanding, tail, depth, wrote, held,
                 boot, panicked>>

(* The rest of end_op() after commit(). *)
Committed(p) ==
  /\ At(p, "committed")
  /\ committing' = FALSE
  /\ WakeupAndGoto(p, "run")
  /\ UNCHANGED <<disk, dlog, dhead, cache, lh, outstanding, tail, depth, wrote, held,
                 boot, panicked>>

----------------------------------------------------------------------------
(* The machine stops, after a panic or at any other time, and boots again: *)
(* memory is lost, the disk is not.                                        *)
Crash ==
  /\ lh' = <<>> /\ outstanding' = 0 /\ committing' = FALSE
  /\ tail' = 1
  /\ pc' = [p \in Procs |-> "run"]
  /\ depth' = [p \in Procs |-> 0]
  /\ wrote' = [p \in Procs |-> {}]
  /\ held' = [p \in Procs |-> NULL]
  /\ boot' = "read_head"
  /\ panicked' = FALSE
  /\ cache' = disk
  /\ UNCHANGED <<disk, dlog, dhead>>

(* initlog() calls recover_from_log() before any process makes a call. *)
RecoverReadHead ==
  /\ boot = "read_head"
  /\ lh' = dhead
  /\ boot' = "install_trans"
  /\ UNCHANGED <<disk, dlog, dhead, cache, outstanding, committing, tail, pc, depth,
                 wrote, held, panicked>>

RecoverInstall ==
  /\ boot = "install_trans"
  /\ IF tail <= Len(lh)
       THEN /\ disk' = [disk EXCEPT ![lh[tail]] = dlog[tail]]
            /\ cache' = [cache EXCEPT ![lh[tail]] = dlog[tail]]
            /\ tail' = tail + 1
            /\ UNCHANGED boot
       ELSE /\ tail' = 1
            /\ boot' = "clear_head"
            /\ UNCHANGED <<disk, cache>>
  /\ UNCHANGED <<dlog, dhead, lh, outstanding, committing, pc, depth, wrote, held,
                 panicked>>

RecoverClear ==
  /\ boot = "clear_head"
  /\ lh' = <<>>
  /\ dhead' = <<>>
  /\ boot' = "up"
  /\ UNCHANGED <<disk, dlog, cache, outstanding, committing, tail, pc, depth, wrote,
                 held, panicked>>

----------------------------------------------------------------------------
Commit(p) ==
  WriteLog(p) \/ WriteHead(p) \/ InstallTrans(p) \/ ClearHead(p) \/ Committed(p)

Recover == RecoverReadHead \/ RecoverInstall \/ RecoverClear

ProcNext(p) ==
  \/ Call(p) \/ BeginOp(p) \/ LogWrite(p) \/ EndOp(p) \/ Commit(p)
  \/ \E b \in Blocks, x \in Vals : LogWriteTest(p, b, x)

Next == (\E p \in Procs : ProcNext(p)) \/ Recover \/ Crash

Spec == Init /\ [][Next]_vars

(* Without crashes, for what must eventually happen: a process that is in  *)
(* the log's code or inside an operation keeps running, and an operation   *)
(* makes finitely many calls of log_write() (end_op() is the end of a      *)
(* straight path or of a loop over the blocks of one write).               *)
UpNext == (\E p \in Procs : ProcNext(p)) \/ Recover

UpSpec ==
  /\ Init /\ [][UpNext]_vars
  /\ WF_vars(Recover)
  /\ \A p \in Procs : /\ WF_vars(BeginOp(p) \/ LogWrite(p) \/ Commit(p))
                       /\ SF_vars(EndOp(p))

----------------------------------------------------------------------------
(* What a reboot would leave of the disk: recover_from_log() installs the  *)
(* blocks the header names.                                                *)
Recovered ==
  [b \in Blocks |-> IF \E i \in 1 .. Len(dhead) : dhead[i] = b
                      THEN dlog[CHOOSE i \in 1 .. Len(dhead) : dhead[i] = b]
                      ELSE disk[b]]

Atomic == INSTANCE AtomicDisk WITH
  durable <- Recovered,
  current <- IF boot = "up" THEN cache ELSE Recovered,
  active <- {p \in Procs : depth[p] > 0}

(* log.c:11-15: operations become durable in groups, none of them half     *)
(* done, whenever the machine crashes and however often recovery is cut    *)
(* short.                                                                  *)
AtomicSpec == Atomic!Spec

(* While nobody is inside an operation and nothing is being committed, the *)
(* disk holds exactly what the cache shows: end_op() returns to its caller *)
(* only when the transaction it committed is installed.                    *)
QuiescentInstalled ==
  boot = "up" /\ outstanding = 0 /\ ~committing => disk = cache /\ dhead = <<>>

(* param.h: the log has room for every block begin_op() let operations     *)
(* reserve, so log_write() never finds it full and write_log() stays       *)
(* inside the NLOG - 1 data blocks of the on-disk log.                     *)
LogFits == Len(lh) < NLOG /\ ~panicked

(* begin_op() sleeps only until some end_op() wakes it. *)
SleepersWoken == \A p \in Procs : pc[p] = "sleep" ~> pc[p] # "sleep"
============================================================================
