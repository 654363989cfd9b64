----------------------------- MODULE LogProofs -----------------------------
(***************************************************************************)
(* Proofs about Log, for every number of processes and blocks, every size  *)
(* of the log and any number of crashes: the log never overflows, what     *)
(* end_op() has committed is installed, and transactions are atomic (Log   *)
(* implements AtomicDisk).                                                 *)
(***************************************************************************)
EXTENDS Log, FiniteSetTheorems, TLAPS

USE SMTT(30), ZenonT(60), SMTT(120)

CommitPCs == {"write_log", "write_head", "install_trans", "clear_head", "committed"}

In(b, l) == \E i \in 1 .. Len(l) : l[i] = b
Distinct(s) == \A i, j \in 1 .. Len(s) : s[i] = s[j] => i = j

(* The operations in progress; and the blocks that are in the log and that *)
(* an operation in progress has passed to log_write().                     *)
Ops(d) == {t \in Procs \X (1 .. MaxDepth) : t[2] <= d[t[1]]}
Charged(w, l) == {t \in Procs \X Blocks : t[2] \in w[t[1]] /\ In(t[2], l)}

(* begin_op() reserves MAXOPBLOCKS blocks for an operation, which uses     *)
(* those that it is charged for; the rest of the log holds what operations *)
(* that have ended left there.                                             *)
Reserved ==
  /\ outstanding = Cardinality(Ops(depth))
  /\ outstanding = 0 <=> \A p \in Procs : depth[p] = 0
  /\ \A p \in Procs : wrote[p] # {} => depth[p] > 0
  /\ \A p \in Procs : Cardinality(wrote[p]) <= OpBlocks
  /\ outstanding > 0 =>
       Len(lh) + outstanding * MAXOPBLOCKS <= LOGSIZE + Cardinality(Charged(wrote, lh))

(* One process commits, when no operation is in progress. *)
Control ==
  /\ committing => outstanding = 0
  /\ \A p \in Procs : pc[p] \in CommitPCs => committing
  /\ \A p, q \in Procs : pc[p] \in CommitPCs /\ pc[q] \in CommitPCs => p = q
  /\ \A p \in Procs : pc[p] \in {"begin_op", "sleep"} => depth[p] < MaxDepth
  /\ \A p \in Procs : pc[p] = "log_write" => depth[p] > 0 /\ held[p] \in wrote[p]
  /\ \A p \in Procs : pc[p] # "log_write" => held[p] = NULL
  /\ panicked => boot = "up" /\ outstanding > 0

(* The first n blocks of lh are in the on-disk log, and in their homes. *)
Copied(n) == \A i \in 1 .. n : dlog[i] = cache[lh[i]]
Installed(n) == \A i \in 1 .. n : disk[lh[i]] = dlog[i]

(* What commit() has done when it is at pc. *)
Progress(l) ==
  /\ l = "write_log" => dhead = <<>> /\ tail <= Len(lh) + 1 /\ Copied(tail - 1)
  /\ l = "write_head" => dhead = <<>> /\ tail = 1 /\ Copied(Len(lh))
  /\ l = "install_trans" => /\ dhead = lh /\ tail <= Len(lh) + 1
                            /\ Copied(Len(lh)) /\ Installed(tail - 1)
  /\ l = "clear_head" => dhead = lh /\ tail = 1 /\ Copied(Len(lh)) /\ Installed(Len(lh))
  /\ l = "committed" => dhead = <<>> /\ tail = 1 /\ lh = <<>>

(* A block differs in memory and on the disk only if it is in the log, or  *)
(* about to be.                                                            *)
Running ==
  /\ \A b \in Blocks : cache[b] = disk[b] \/ In(b, lh) \/ \E p \in Procs : held[p] = b
  /\ outstanding = 0 /\ ~committing => lh = <<>>
  /\ (\A p \in Procs : pc[p] \notin CommitPCs) => tail = 1 /\ dhead = <<>>
  /\ \A p \in Procs : Progress(pc[p])

(* What recover_from_log() has done. *)
Booting ==
  /\ \A p \in Procs : pc[p] = "run" /\ depth[p] = 0
  /\ ~committing /\ cache = disk
  /\ boot = "read_head" => lh = <<>> /\ tail = 1
  /\ boot = "install_trans" => lh = dhead /\ tail <= Len(lh) + 1 /\ Installed(tail - 1)
  /\ boot = "clear_head" => lh = dhead /\ tail = 1 /\ Installed(Len(lh))

(* The inductive invariant. *)
IInv ==
  /\ TypeOK
  /\ Distinct(lh) /\ Distinct(dhead)
  /\ Reserved
  /\ Control
  /\ Up => Running
  /\ boot # "up" => Booting

----------------------------------------------------------------------------
(* What a step that leaves part of the state alone keeps. *)

(* The reservations. *)
LEMMA KeepReserved ==
  ASSUME Reserved, UNCHANGED <<lh, outstanding, depth, wrote>>
  PROVE  Reserved'
  BY Zenon DEF Reserved

(* The relation of memory, log and disk. *)
LEMMA KeepRunning ==
  ASSUME Running, UNCHANGED <<disk, dlog, dhead, cache, lh, tail, held>>,
         outstanding' = 0 /\ ~committing' => lh = <<>>,
         (\A p \in Procs : pc'[p] \notin CommitPCs) => tail = 1 /\ dhead = <<>>,
         \A p \in Procs : Progress(pc'[p])
  PROVE  Running'
<1>1. \A l : Progress(l)' <=> Progress(l)
  BY DEF Progress, Copied, Installed
<1>2. \A p \in Procs : Progress(pc[p])'
  BY <1>1, Zenon
<1>3. \A b \in Blocks : (cache[b] = disk[b] \/ In(b, lh) \/ \E p \in Procs : held[p] = b)'
  BY Zenon DEF Running
<1> QED BY <1>2, <1>3, Zenon DEF Running

(* A process is not committing while another is in an operation. *)
LEMMA NobodyCommits ==
  ASSUME IInv, NEW p \in Procs, depth[p] > 0
  PROVE  /\ outstanding \in Nat /\ outstanding > 0 /\ ~committing
         /\ \A q \in Procs : pc[q] \notin CommitPCs
<1>1. outstanding \in Nat BY Zenon DEF IInv, TypeOK
<1>2. outstanding > 0 BY <1>1 DEF IInv, Reserved
<1> QED BY <1>1, <1>2 DEF IInv, Control

(* A process enters begin_op(). *)
LEMMA CallStep ==
  ASSUME IInv, NEW p \in Procs, Call(p)
  PROVE  IInv'
<1> USE DEF IInv, Call, At, Goto
<1>1. TypeOK'
  BY Zenon DEF TypeOK, PCs
<1>2. Reserved' /\ Distinct(lh)' /\ Distinct(dhead)'
  BY KeepReserved, Zenon
<1>3. Control'
  BY Zenon DEF Control, CommitPCs, TypeOK
<1>4. Up /\ Running /\ boot' = "up"
  BY Zenon DEF Up
<1>5. Running'
  <2>1. \A q \in Procs : pc'[q] \in CommitPCs <=> pc[q] \in CommitPCs
    BY Zenon DEF CommitPCs, TypeOK
  <2>2. \A q \in Procs : Progress(pc'[q])
    BY <1>4, Zenon DEF Running, TypeOK, Progress
  <2> QED BY <1>4, <2>1, <2>2, KeepRunning, Zenon DEF Running
<1> QED BY <1>1, <1>2, <1>3, <1>4, <1>5, Zenon

----------------------------------------------------------------------------
(* commit(): it runs alone. *)

(* While a process commits no operation is in progress. *)
LEMMA Committing ==
  ASSUME IInv, Up, NEW p \in Procs, pc[p] \in CommitPCs
  PROVE  /\ committing /\ outstanding = 0
         /\ \A q \in Procs : depth[q] = 0 /\ held[q] = NULL
         /\ \A q \in Procs : q # p => pc[q] \notin CommitPCs
         /\ \A b \in Blocks : cache[b] = disk[b] \/ In(b, lh)
         /\ Progress(pc[p])
<1>1. TypeOK /\ Reserved /\ Control /\ Running BY Zenon DEF IInv
<1>2. committing /\ outstanding = 0 BY <1>1, Zenon DEF Control
<1>3. \A q \in Procs : depth[q] = 0 BY <1>1, <1>2, Zenon DEF Reserved
<1>4. \A q \in Procs : held[q] = NULL BY <1>1, <1>3 DEF Control
<1>5. \A q \in Procs : q # p => pc[q] \notin CommitPCs BY <1>1, Zenon DEF Control
<1>6. \A b \in Blocks : cache[b] = disk[b] \/ In(b, lh)
  BY <1>1, <1>4, ConstantsAssumption, Zenon DEF Running
<1> QED BY <1>1, <1>2, <1>3, <1>4, <1>5, <1>6, Zenon DEF Running

(* A step of commit() from one of its labels to another, which may move    *)
(* blocks between memory, log and disk.                                    *)
LEMMA CommitStep ==
  ASSUME IInv, Up, NEW p \in Procs, pc[p] \in CommitPCs,
         NEW l \in CommitPCs, pc' = [pc EXCEPT ![p] = l],
         UNCHANGED <<outstanding, committing, depth, wrote, held, boot, panicked>>,
         TypeOK', Reserved', Distinct(lh)', Distinct(dhead)',
         \A b \in Blocks : cache'[b] = disk'[b] \/ In(b, lh'),
         Progress(l)'
  PROVE  IInv'
<1>1. TypeOK /\ Control BY Zenon DEF IInv
<1>2. /\ committing /\ outstanding = 0
      /\ \A q \in Procs : depth[q] = 0 /\ held[q] = NULL
      /\ \A q \in Procs : q # p => pc[q] \notin CommitPCs
  BY Committing, Zenon
<1>3. pc'[p] = l /\ \A q \in Procs : q # p => pc'[q] = pc[q] BY <1>1, Zenon DEF TypeOK
<1>4. l \notin {"run", "begin_op", "sleep", "log_write"} BY Zenon DEF CommitPCs
<1>5. Control'
  BY <1>1, <1>2, <1>3, <1>4, Zenon DEF Control
<1>6. \A q \in Procs : Progress(pc[q])'
  BY <1>2, <1>3, Zenon DEF Progress, CommitPCs
<1>7. Running' BY <1>2, <1>3, <1>6, Zenon DEF Running
<1> QED BY <1>5, <1>7, Zenon DEF IInv, Up

(* write_log() copies the next block to the on-disk log. *)
LEMMA WriteLogStep ==
  ASSUME IInv, NEW p \in Procs, WriteLog(p)
  PROVE  IInv'
<1>1. /\ Up /\ pc[p] = "write_log" /\ pc[p] \in CommitPCs
      /\ UNCHANGED <<disk, dhead, cache, lh, outstanding, committing, depth, wrote, held,
                     boot, panicked>>
  BY Zenon DEF WriteLog, At, CommitPCs
<1>2. TypeOK /\ Reserved /\ Distinct(lh) /\ Distinct(dhead) BY Zenon DEF IInv
<1>3. Reserved' /\ Distinct(lh)' /\ Distinct(dhead)' BY <1>1, <1>2, KeepReserved, Zenon
<1>4. dhead = <<>> /\ tail <= Len(lh) + 1 /\ Copied(tail - 1)
  BY <1>1, Committing, Zenon DEF Progress
<1>5. \A b \in Blocks : cache'[b] = disk'[b] \/ In(b, lh')
  BY <1>1, Committing, Zenon
<1>6. Len(lh) \in Nat /\ Len(lh) <= LOGSIZE /\ LOGSIZE \in Nat /\ tail \in Nat /\ tail >= 1
  BY <1>2, ConstantsAssumption DEF TypeOK
<1>7. CASE tail <= Len(lh)
  <2>1. /\ dlog' = [dlog EXCEPT ![tail] = cache[lh[tail]]] /\ tail' = tail + 1 /\ pc' = pc
    BY <1>7, Zenon DEF WriteLog
  <2>2. lh[tail] \in Blocks /\ tail \in 1 .. LOGSIZE BY <1>2, <1>6, <1>7 DEF TypeOK
  <2>3. dlog' \in [1 .. LOGSIZE -> Vals] BY <1>2, <2>1, <2>2, Zenon DEF TypeOK
  <2>4. tail' \in 1 .. LOGSIZE + 1 BY <1>6, <1>7, <2>1
  <2>5. TypeOK' BY <1>1, <1>2, <2>1, <2>3, <2>4, Zenon DEF TypeOK
  <2>6. \A i \in 1 .. tail : dlog'[i] = cache[lh[i]]
    <3> SUFFICES ASSUME NEW i \in 1 .. tail, i # tail PROVE dlog'[i] = cache[lh[i]]
      BY <1>2, <2>1, <2>2, Zenon DEF TypeOK
    <3>1. i \in 1 .. tail - 1 /\ i \in 1 .. LOGSIZE BY <1>6, <1>7
    <3> QED BY <1>2, <1>4, <2>1, <3>1, Zenon DEF TypeOK, Copied
  <2>7. tail' - 1 = tail /\ tail' <= Len(lh) + 1 BY <1>6, <1>7, <2>1
  <2>8. Copied(tail - 1)' BY <1>1, <2>6, <2>7, Zenon DEF Copied
  <2>9. Progress("write_log")' BY <1>1, <1>4, <2>7, <2>8, Zenon DEF Progress
  <2>10. pc' = [pc EXCEPT ![p] = "write_log"] BY <1>1, <1>2, <2>1, Zenon DEF TypeOK
  <2> QED BY <1>1, <1>3, <1>5, <2>5, <2>9, <2>10, CommitStep, Zenon
<1>8. CASE ~(tail <= Len(lh))
  <2>1. tail' = 1 /\ pc' = [pc EXCEPT ![p] = "write_head"] /\ dlog' = dlog
    BY <1>8, Zenon DEF WriteLog, Goto
  <2>2. tail - 1 = Len(lh) BY <1>4, <1>6, <1>8
  <2>3. TypeOK' BY <1>1, <1>2, <1>6, <2>1 DEF TypeOK, PCs
  <2>4. Copied(Len(lh))' BY <1>1, <1>4, <2>1, <2>2, Zenon DEF Copied
  <2>5. Progress("write_head")' BY <1>1, <1>4, <2>1, <2>4, Zenon DEF Progress
  <2>6. "write_head" \in CommitPCs BY Zenon DEF CommitPCs
  <2> QED BY <1>1, <1>3, <1>5, <2>1, <2>3, <2>5, <2>6, CommitStep, Zenon
<1> QED BY <1>7, <1>8, Zenon

(* write_head() commits. *)
LEMMA WriteHeadStep ==
  ASSUME IInv, NEW p \in Procs, WriteHead(p)
  PROVE  IInv'
<1>1. /\ Up /\ pc[p] = "write_head" /\ pc[p] \in CommitPCs
      /\ dhead' = lh /\ pc' = [pc EXCEPT ![p] = "install_trans"]
      /\ UNCHANGED <<disk, dlog, cache, lh, outstanding, committing, tail, depth, wrote,
                     held, boot, panicked>>
  BY Zenon DEF WriteHead, At, Goto, CommitPCs
<1>2. TypeOK /\ Reserved /\ Distinct(lh) BY Zenon DEF IInv
<1>3. Reserved' /\ Distinct(lh)' /\ Distinct(dhead)' BY <1>1, <1>2, KeepReserved, Zenon
<1>4. tail = 1 /\ Copied(Len(lh)) BY <1>1, Committing, Zenon DEF Progress
<1>5. \A b \in Blocks : cache'[b] = disk'[b] \/ In(b, lh') BY <1>1, Committing, Zenon
<1>6. TypeOK' BY <1>1, <1>2, Zenon DEF TypeOK, PCs
<1>7. Copied(Len(lh))' BY <1>1, <1>4, Zenon DEF Copied
<1>8. Installed(tail - 1)' BY <1>1, <1>4 DEF Installed
<1>9. tail' <= Len(lh') + 1 BY <1>1, <1>2, <1>4 DEF TypeOK
<1>10. Progress("install_trans")' BY <1>1, <1>7, <1>8, <1>9, Zenon DEF Progress
<1>11. "install_trans" \in CommitPCs BY Zenon DEF CommitPCs
<1> QED BY <1>1, <1>3, <1>5, <1>6, <1>10, <1>11, CommitStep, Zenon

(* install_trans() copies the next block of the on-disk log to its home:   *)
(* no block is in the log twice, so those before it stay as they are.      *)
LEMMA InstallTransStep ==
  ASSUME IInv, NEW p \in Procs, InstallTrans(p)
  PROVE  IInv'
<1>1. /\ Up /\ pc[p] = "install_trans" /\ pc[p] \in CommitPCs
      /\ UNCHANGED <<dlog, dhead, cache, lh, outstanding, committing, depth, wrote, held,
                     boot, panicked>>
  BY Zenon DEF InstallTrans, At, CommitPCs
<1>2. TypeOK /\ Reserved /\ Distinct(lh) /\ Distinct(dhead) BY Zenon DEF IInv
<1>3. Reserved' /\ Distinct(lh)' /\ Distinct(dhead)' BY <1>1, <1>2, KeepReserved, Zenon
<1>4. dhead = lh /\ tail <= Len(lh) + 1 /\ Copied(Len(lh)) /\ Installed(tail - 1)
  BY <1>1, Committing, Zenon DEF Progress
<1>5. \A b \in Blocks : cache[b] = disk[b] \/ In(b, lh) BY <1>1, Committing, Zenon
<1>6. Len(lh) \in Nat /\ Len(lh) <= LOGSIZE /\ LOGSIZE \in Nat /\ tail \in Nat /\ tail >= 1
  BY <1>2, ConstantsAssumption DEF TypeOK
<1>7. Copied(Len(lh))' BY <1>1, <1>4, Zenon DEF Copied
<1>8. CASE tail <= Len(lh)
  <2>1. /\ disk' = [disk EXCEPT ![lh[tail]] = dlog[tail]] /\ tail' = tail + 1 /\ pc' = pc
    BY <1>8, Zenon DEF InstallTrans
  <2>2. lh[tail] \in Blocks /\ tail \in 1 .. Len(lh) /\ dlog[tail] \in Vals
    BY <1>2, <1>6, <1>8 DEF TypeOK
  <2>3. disk' \in [Blocks -> Vals] BY <1>2, <2>1, <2>2, Zenon DEF TypeOK
  <2>4. tail' \in 1 .. LOGSIZE + 1 BY <1>6, <1>8, <2>1
  <2>5. TypeOK' BY <1>1, <1>2, <2>1, <2>3, <2>4, Zenon DEF TypeOK
  <2>6. \A i \in 1 .. tail : disk'[lh[i]] = dlog[i]
    <3> SUFFICES ASSUME NEW i \in 1 .. tail, i # tail PROVE disk'[lh[i]] = dlog[i]
      BY <1>2, <2>1, <2>2, Zenon DEF TypeOK
    <3>1. i \in 1 .. tail - 1 /\ i \in 1 .. Len(lh) BY <1>6, <1>8
    <3>2. lh[i] # lh[tail] BY <1>2, <2>2, <3>1, Zenon DEF Distinct
    <3>3. lh[i] \in Blocks BY <1>2, <3>1 DEF TypeOK
    <3> QED BY <1>2, <1>4, <2>1, <3>1, <3>2, <3>3, Zenon DEF TypeOK, Installed
  <2>7. tail' - 1 = tail /\ tail' <= Len(lh) + 1 BY <1>6, <1>8, <2>1
  <2>8. Installed(tail - 1)' BY <1>1, <2>6, <2>7, Zenon DEF Installed
  <2>9. Progress("install_trans")' BY <1>1, <1>4, <1>7, <2>7, <2>8, Zenon DEF Progress
  <2>10. pc' = [pc EXCEPT ![p] = "install_trans"] BY <1>1, <1>2, <2>1, Zenon DEF TypeOK
  <2>11. \A b \in Blocks : cache'[b] = disk'[b] \/ In(b, lh')
    <3>1. In(lh[tail], lh) BY <2>2, Zenon DEF In
    <3>2. \A b \in Blocks : b # lh[tail] => disk'[b] = disk[b] BY <1>2, <2>1, Zenon DEF TypeOK
    <3> QED BY <1>1, <1>5, <3>1, <3>2, Zenon
  <2> QED BY <1>1, <1>3, <2>5, <2>9, <2>10, <2>11, CommitStep, Zenon
<1>9. CASE ~(tail <= Len(lh))
  <2>1. tail' = 1 /\ pc' = [pc EXCEPT ![p] = "clear_head"] /\ disk' = disk
    BY <1>9, Zenon DEF InstallTrans, Goto
  <2>2. tail - 1 = Len(lh) BY <1>4, <1>6, <1>9
  <2>3. TypeOK' BY <1>1, <1>2, <1>6, <2>1 DEF TypeOK, PCs
  <2>4. Installed(Len(lh))' BY <1>1, <1>4, <2>1, <2>2, Zenon DEF Installed
  <2>5. Progress("clear_head")' BY <1>1, <1>4, <1>7, <2>1, <2>4, Zenon DEF Progress
  <2>6. "clear_head" \in CommitPCs BY Zenon DEF CommitPCs
  <2>7. \A b \in Blocks : cache'[b] = disk'[b] \/ In(b, lh') BY <1>1, <1>5, <2>1, Zenon
  <2> QED BY <1>1, <1>3, <2>1, <2>3, <2>5, <2>6, <2>7, CommitStep, Zenon
<1> QED BY <1>8, <1>9, Zenon

(* The second write_head() erases the transaction, which is installed. *)
LEMMA ClearHeadStep ==
  ASSUME IInv, NEW p \in Procs, ClearHead(p)
  PROVE  IInv'
<1>1. /\ Up /\ pc[p] = "clear_head" /\ pc[p] \in CommitPCs
      /\ lh' = <<>> /\ dhead' = <<>> /\ pc' = [pc EXCEPT ![p] = "committed"]
      /\ UNCHANGED <<disk, dlog, cache, outstanding, committing, tail, depth, wrote, held,
                     boot, panicked>>
  BY Zenon DEF ClearHead, At, Goto, CommitPCs
<1>2. TypeOK /\ Reserved BY Zenon DEF IInv
<1>3. tail = 1 /\ Copied(Len(lh)) /\ Installed(Len(lh)) BY <1>1, Committing, Zenon DEF Progress
<1>4. \A b \in Blocks : cache'[b] = disk'[b] \/ In(b, lh')
  <2> SUFFICES ASSUME NEW b \in Blocks PROVE cache[b] = disk[b]
    BY <1>1, Zenon
  <2>1. CASE In(b, lh)
    BY <1>3, <2>1, Zenon DEF In, Copied, Installed
  <2> QED BY <1>1, <2>1, Committing, Zenon
<1>5. TypeOK'
  <2>1. <<>> \in Seq(Blocks) /\ Len(<<>>) = 0 /\ 0 <= LOGSIZE BY ConstantsAssumption
  <2> QED BY <1>1, <1>2, <2>1, Zenon DEF TypeOK, PCs
<1>6. Distinct(lh)' /\ Distinct(dhead)' BY <1>1 DEF Distinct
<1>7. Reserved'
  <2>1. outstanding = 0 BY <1>1, Committing, Zenon
  <2>2. ~(outstanding' > 0) BY <1>1, <2>1
  <2> QED BY <1>1, <1>2, <2>2, Zenon DEF Reserved
<1>8. Progress("committed")' BY <1>1, <1>3, Zenon DEF Progress
<1>9. "committed" \in CommitPCs BY Zenon DEF CommitPCs
<1> QED BY <1>1, <1>4, <1>5, <1>6, <1>7, <1>8, <1>9, CommitStep, Zenon

(* end_op() lets operations begin again. *)
LEMMA CommittedStep ==
  ASSUME IInv, NEW p \in Procs, Committed(p)
  PROVE  IInv'
<1>1. /\ Up /\ pc[p] = "committed" /\ pc[p] \in CommitPCs /\ committing' = FALSE
      /\ pc' = [q \in Procs |-> IF q = p THEN "run"
                                ELSE IF pc[q] = "sleep" THEN "begin_op" ELSE pc[q]]
      /\ UNCHANGED <<disk, dlog, dhead, cache, lh, outstanding, tail, depth, wrote, held,
                     boot, panicked>>
  BY Zenon DEF Committed, At, WakeupAndGoto, CommitPCs
<1>2. TypeOK /\ Reserved /\ Control /\ Running BY <1>1, Zenon DEF IInv
<1>3. Reserved' BY <1>1, <1>2, KeepReserved, Zenon
<1>4. dhead = <<>> /\ tail = 1 /\ lh = <<>> BY <1>1, Committing, Zenon DEF Progress
<1>5. /\ \A q \in Procs : depth[q] = 0 /\ held[q] = NULL
      /\ \A q \in Procs : q # p => pc[q] \notin CommitPCs
  BY <1>1, Committing, Zenon
<1>6. TypeOK' BY <1>1, <1>2, Zenon DEF TypeOK, PCs
<1>7. \A q \in Procs : pc'[q] \notin CommitPCs
  BY <1>1, <1>5, Zenon DEF CommitPCs
<1>8. Control'
  BY <1>1, <1>2, <1>5, <1>7, Zenon DEF Control, TypeOK
<1>9. \A q \in Procs : Progress(pc'[q]) BY <1>7, Zenon DEF Progress, CommitPCs
<1>10. Running' BY <1>1, <1>2, <1>4, <1>9, KeepRunning, Zenon
<1> QED BY <1>1, <1>3, <1>6, <1>8, <1>10, Zenon DEF IInv, Up

----------------------------------------------------------------------------
(* Recovery. *)

(* While the machine boots no process has made a call. *)
LEMMA BootQuiet ==
  ASSUME IInv, boot # "up"
  PROVE  /\ TypeOK /\ Booting /\ Distinct(lh) /\ Distinct(dhead) /\ ~panicked
         /\ outstanding = 0
         /\ \A p \in Procs : wrote[p] = {} /\ held[p] = NULL /\ depth[p] = 0 /\ pc[p] = "run"
         /\ Len(lh) \in Nat /\ Len(lh) <= LOGSIZE /\ LOGSIZE \in Nat
         /\ tail \in Nat /\ tail >= 1
<1>1. TypeOK /\ Booting /\ Reserved /\ Control /\ Distinct(lh) /\ Distinct(dhead)
  BY Zenon DEF IInv
<1>2. \A p \in Procs : depth[p] = 0 /\ pc[p] = "run" BY <1>1, Zenon DEF Booting
<1>3. outstanding = 0 BY <1>1, <1>2, Zenon DEF Reserved
<1>4. \A p \in Procs : wrote[p] = {} /\ held[p] = NULL
  BY <1>1, <1>2 DEF Reserved, Control
<1>5. ~panicked BY <1>1, Zenon DEF Control
<1>6. /\ Len(lh) \in Nat /\ Len(lh) <= LOGSIZE /\ LOGSIZE \in Nat
      /\ tail \in Nat /\ tail >= 1
  BY <1>1, ConstantsAssumption DEF TypeOK
<1> QED BY <1>1, <1>2, <1>3, <1>4, <1>5, <1>6, Zenon

(* A step of recover_from_log(). *)
LEMMA RecoverStep ==
  ASSUME IInv, boot # "up",
         UNCHANGED <<dlog, outstanding, committing, pc, depth, wrote, held, panicked>>,
         TypeOK', Distinct(lh)', Distinct(dhead)', cache' = disk',
         boot' = "up" => lh' = <<>> /\ dhead' = <<>> /\ tail' = 1,
         boot' # "up" => Booting'
  PROVE  IInv'
<1>1. /\ IInv /\ Booting /\ Reserved /\ Control /\ ~panicked
      /\ outstanding = 0
      /\ \A p \in Procs : wrote[p] = {} /\ held[p] = NULL /\ depth[p] = 0 /\ pc[p] = "run"
  BY BootQuiet, Zenon DEF IInv
<1>2. ~(outstanding' > 0) BY <1>1
<1>3. Reserved' BY <1>1, <1>2, Zenon DEF Reserved
<1>4. Control' BY <1>1, ConstantsAssumption, Zenon DEF Control, CommitPCs
<1>5. boot' = "up" => Running'
  <2>1. \A q \in Procs : Progress(pc[q])' BY <1>1, Zenon DEF Progress
  <2> QED BY <1>1, <2>1, Zenon DEF Running
<1> QED BY <1>3, <1>4, <1>5, Zenon DEF IInv, Up

(* recover_from_log() reads the header. *)
LEMMA RecoverReadHeadStep ==
  ASSUME IInv, RecoverReadHead
  PROVE  IInv'
<1>1. /\ boot = "read_head" /\ boot # "up" /\ lh' = dhead /\ boot' = "install_trans"
      /\ UNCHANGED <<disk, dlog, dhead, cache, outstanding, committing, tail, pc, depth,
                     wrote, held, panicked>>
  BY Zenon DEF RecoverReadHead
<1>2. TypeOK /\ Booting /\ Distinct(dhead) BY <1>1, BootQuiet, Zenon
<1>3. TypeOK' BY <1>1, <1>2, Zenon DEF TypeOK, Boots
<1>4. tail = 1 /\ cache = disk BY <1>1, <1>2, Zenon DEF Booting
<1>5. tail' <= Len(lh') + 1 /\ Installed(tail - 1)'
  BY <1>1, <1>2, <1>4 DEF TypeOK, Installed
<1>6. Booting' BY <1>1, <1>2, <1>5, Zenon DEF Booting
<1> QED BY <1>1, <1>2, <1>3, <1>4, <1>6, RecoverStep, Zenon

(* It installs a block, or has installed all of them. *)
LEMMA RecoverInstallStep ==
  ASSUME IInv, RecoverInstall
  PROVE  IInv'
<1>1. /\ boot = "install_trans" /\ boot # "up"
      /\ UNCHANGED <<dlog, dhead, lh, outstanding, committing, pc, depth, wrote, held,
                     panicked>>
  BY Zenon DEF RecoverInstall
<1>2. /\ TypeOK /\ Booting /\ Distinct(lh) /\ Distinct(dhead)
      /\ Len(lh) \in Nat /\ Len(lh) <= LOGSIZE /\ LOGSIZE \in Nat
      /\ tail \in Nat /\ tail >= 1
  BY <1>1, BootQuiet, Zenon
<1>3. /\ lh = dhead /\ tail <= Len(lh) + 1 /\ Installed(tail - 1) /\ cache = disk
      /\ ~committing /\ \A p \in Procs : pc[p] = "run" /\ depth[p] = 0
  BY <1>1, <1>2, Zenon DEF Booting
<1>4. CASE tail <= Len(lh)
  <2>1. /\ disk' = [disk EXCEPT ![lh[tail]] = dlog[tail]]
        /\ cache' = [cache EXCEPT ![lh[tail]] = dlog[tail]]
        /\ tail' = tail + 1 /\ boot' = boot
    BY <1>4, Zenon DEF RecoverInstall
  <2>2. lh[tail] \in Blocks /\ tail \in 1 .. Len(lh) /\ dlog[tail] \in Vals
    BY <1>2, <1>4 DEF TypeOK
  <2>3. disk' \in [Blocks -> Vals] /\ cache' = disk' BY <1>2, <1>3, <2>1, <2>2, Zenon DEF TypeOK
  <2>4. tail' \in 1 .. LOGSIZE + 1 BY <1>2, <1>4, <2>1
  <2>5. TypeOK' BY <1>1, <1>2, <2>1, <2>3, <2>4, Zenon DEF TypeOK
  <2>6. \A i \in 1 .. tail : disk'[lh[i]] = dlog[i]
    <3> SUFFICES ASSUME NEW i \in 1 .. tail, i # tail PROVE disk'[lh[i]] = dlog[i]
      BY <1>2, <2>1, <2>2, Zenon DEF TypeOK
    <3>1. i \in 1 .. tail - 1 /\ i \in 1 .. Len(lh) BY <1>2, <1>4
    <3>2. lh[i] # lh[tail] BY <1>2, <2>2, <3>1, Zenon DEF Distinct
    <3>3. lh[i] \in Blocks BY <1>2, <3>1 DEF TypeOK
    <3> QED BY <1>2, <1>3, <2>1, <3>1, <3>2, <3>3, Zenon DEF TypeOK, Installed
  <2>7. tail' - 1 = tail /\ tail' <= Len(lh) + 1 BY <1>2, <1>4, <2>1
  <2>8. Installed(tail - 1)' BY <1>1, <2>6, <2>7, Zenon DEF Installed
  <2>9. Booting' BY <1>1, <1>3, <2>1, <2>3, <2>7, <2>8, Zenon DEF Booting
  <2> QED BY <1>1, <1>2, <2>1, <2>3, <2>5, <2>9, RecoverStep, Zenon
<1>5. CASE ~(tail <= Len(lh))
  <2>1. tail' = 1 /\ boot' = "clear_head" /\ disk' = disk /\ cache' = cache
    BY <1>5, Zenon DEF RecoverInstall
  <2>2. tail - 1 = Len(lh) BY <1>2, <1>3, <1>5
  <2>3. TypeOK' BY <1>1, <1>2, <2>1 DEF TypeOK, Boots
  <2>4. Installed(Len(lh))' BY <1>1, <1>3, <2>1, <2>2, Zenon DEF Installed
  <2>5. Booting' BY <1>1, <1>3, <2>1, <2>4, Zenon DEF Booting
  <2> QED BY <1>1, <1>2, <1>3, <2>1, <2>3, <2>5, RecoverStep, Zenon
<1> QED BY <1>4, <1>5, Zenon

(* It erases the transaction, and the system is up. *)
LEMMA RecoverClearStep ==
  ASSUME IInv, RecoverClear
  PROVE  IInv'
<1>1. /\ boot = "clear_head" /\ boot # "up" /\ boot' = "up" /\ lh' = <<>> /\ dhead' = <<>>
      /\ UNCHANGED <<disk, dlog, cache, outstanding, committing, tail, pc, depth, wrote,
                     held, panicked>>
  BY Zenon DEF RecoverClear
<1>2. TypeOK /\ Booting BY <1>1, BootQuiet, Zenon
<1>3. <<>> \in Seq(Blocks) /\ Len(<<>>) = 0 /\ 0 <= LOGSIZE BY ConstantsAssumption
<1>4. TypeOK' BY <1>1, <1>2, <1>3, Zenon DEF TypeOK, Boots
<1>5. tail = 1 /\ cache = disk BY <1>1, <1>2, Zenon DEF Booting
<1>6. Distinct(lh)' /\ Distinct(dhead)' BY <1>1 DEF Distinct
<1> QED BY <1>1, <1>4, <1>5, <1>6, RecoverStep, Zenon

----------------------------------------------------------------------------
(* The steps of Log as steps of AtomicDisk. *)

(* What a reboot would make of a header h, the blocks g behind it and the  *)
(* home locations d.                                                       *)
Rec(h, g, d) ==
  [b \in Blocks |-> IF \E i \in 1 .. Len(h) : h[i] = b
                      THEN g[CHOOSE i \in 1 .. Len(h) : h[i] = b]
                      ELSE d[b]]

(* A block of the header is installed, any other is left as it is. *)
LEMMA RecBlock ==
  ASSUME NEW h \in Seq(Blocks), Distinct(h), NEW g, NEW d
  PROVE  /\ \A i \in 1 .. Len(h) : Rec(h, g, d)[h[i]] = g[i]
         /\ \A b \in Blocks : ~In(b, h) => Rec(h, g, d)[b] = d[b]
<1>1. ASSUME NEW i \in 1 .. Len(h) PROVE Rec(h, g, d)[h[i]] = g[i]
  <2>1. h[i] \in Blocks OBVIOUS
  <2>2. \A j \in 1 .. Len(h) : h[j] = h[i] <=> j = i BY Zenon DEF Distinct
  <2>3. (CHOOSE j \in 1 .. Len(h) : h[j] = h[i]) = i BY <2>2, Zenon
  <2> QED BY <2>1, <2>3, Zenon DEF Rec
<1>2. ASSUME NEW b \in Blocks, ~In(b, h) PROVE Rec(h, g, d)[b] = d[b]
  BY <1>2, Zenon DEF Rec, In
<1> QED BY <1>1, <1>2, Zenon

(* To know the outcome is to know it for the blocks of the header and for  *)
(* the others.                                                             *)
LEMMA RecIs ==
  ASSUME NEW h \in Seq(Blocks), Distinct(h), NEW g, NEW d, NEW e \in [Blocks -> Vals],
         \A i \in 1 .. Len(h) : e[h[i]] = g[i],
         \A b \in Blocks : ~In(b, h) => e[b] = d[b]
  PROVE  Rec(h, g, d) = e
<1>1. ASSUME NEW b \in Blocks PROVE Rec(h, g, d)[b] = e[b]
  <2>1. CASE In(b, h)
    <3>1. PICK i \in 1 .. Len(h) : h[i] = b BY <2>1, Zenon DEF In
    <3>2. Rec(h, g, d)[h[i]] = g[i] BY RecBlock
    <3> QED BY <3>1, <3>2, Zenon
  <2>2. CASE ~In(b, h) BY <2>2, RecBlock
  <2> QED BY <2>1, <2>2, Zenon
<1>2. Rec(h, g, d) = [b \in Blocks |-> Rec(h, g, d)[b]] BY Zenon DEF Rec
<1> QED BY <1>1, <1>2, Zenon

(* An empty header leaves the disk as it is. *)
LEMMA RecEmpty ==
  ASSUME NEW g, NEW d \in [Blocks -> Vals]
  PROVE  Rec(<<>>, g, d) = d
<1>1. ~\E i \in 1 .. Len(<<>>) : TRUE OBVIOUS
<1>2. \A b \in Blocks : Rec(<<>>, g, d)[b] = d[b] BY <1>1, Zenon DEF Rec
<1>3. Rec(<<>>, g, d) = [b \in Blocks |-> Rec(<<>>, g, d)[b]] BY Zenon DEF Rec
<1> QED BY <1>2, <1>3, Zenon

(* So does one whose blocks are installed. *)
LEMMA RecInstalled ==
  ASSUME NEW h \in Seq(Blocks), Distinct(h), NEW g, NEW d \in [Blocks -> Vals],
         \A i \in 1 .. Len(h) : d[h[i]] = g[i]
  PROVE  Rec(h, g, d) = d
  BY RecIs

(* install_trans() may be cut short and repeated: writing a home location  *)
(* of a block in the header changes nothing that recovery would not write. *)
LEMMA RecInstall ==
  ASSUME NEW h, NEW g, NEW d, NEW e, \A b \in Blocks : ~In(b, h) => e[b] = d[b]
  PROVE  Rec(h, g, e) = Rec(h, g, d)
<1>1. \A b \in Blocks : (\E j \in 1 .. Len(h) : h[j] = b) \/ e[b] = d[b] BY Zenon DEF In
<1> QED BY <1>1, Zenon DEF Rec

(* The state of AtomicDisk. *)
Current == IF boot = "up" THEN cache ELSE Recovered
Active == {p \in Procs : depth[p] > 0}

(* What the step lemmas below show, in terms of that state. *)
Stutter == UNCHANGED <<Recovered, Current, Active>>

(* The recovered disk in this state and in the next. *)
LEMMA RecoveredRec ==
  /\ Recovered = Rec(dhead, dlog, disk)
  /\ Recovered' = Rec(dhead', dlog', disk')
  BY Zenon DEF Recovered, Rec

(* A step that leaves the disk, the cache and the operations alone. *)
LEMMA KeepAll ==
  ASSUME UNCHANGED <<disk, dlog, dhead, cache, depth, boot>>
  PROVE  Stutter
<1>1. UNCHANGED Recovered BY Zenon DEF Recovered
<1>2. UNCHANGED Current BY <1>1, Zenon DEF Current
<1>3. UNCHANGED Active BY Zenon DEF Active
<1> QED BY <1>1, <1>2, <1>3, Zenon DEF Stutter

(* begin_op() begins an operation, unless the process is inside one. *)
LEMMA BeginOpMaps ==
  ASSUME IInv, NEW p \in Procs, BeginOp(p)
  PROVE  Stutter \/ Atomic!Begin(p)
<1>1. UNCHANGED <<disk, dlog, dhead, cache, boot>> BY Zenon DEF BeginOp
<1>2. UNCHANGED <<Recovered, Current>> BY <1>1, Zenon DEF Recovered, Current
<1>3. depth \in [Procs -> 0 .. MaxDepth] BY Zenon DEF IInv, TypeOK
<1>4. CASE depth' = depth BY <1>1, <1>4, KeepAll, Zenon
<1>5. CASE depth' = [depth EXCEPT ![p] = @ + 1]
  <2>1. \A q \in Procs : depth[q] \in Nat BY <1>3, ConstantsAssumption
  <2>2. Active' = Active \cup {p} BY <1>3, <1>5, <2>1 DEF Active
  <2>3. CASE p \in Active BY <1>2, <2>2, <2>3, Zenon DEF Stutter
  <2>4. CASE p \notin Active
    BY <1>2, <2>2, <2>4, Zenon DEF Atomic!Begin, Active, Current
  <2> QED BY <2>3, <2>4, Zenon
<1> QED BY <1>4, <1>5, Zenon DEF BeginOp

(* A process writes a block inside an operation. *)
LEMMA LogWriteTestMaps ==
  ASSUME IInv, NEW p \in Procs, NEW b \in Blocks, NEW x \in Vals, LogWriteTest(p, b, x)
  PROVE  Atomic!Write(p, b, x)
<1>1. /\ boot = "up" /\ depth[p] > 0 /\ cache' = [cache EXCEPT ![b] = x]
      /\ UNCHANGED <<disk, dlog, dhead, depth, boot>>
  BY Zenon DEF LogWriteTest, At, Up
<1>2. UNCHANGED Recovered BY <1>1, Zenon DEF Recovered
<1>3. UNCHANGED Active BY <1>1, Zenon DEF Active
<1>4. Current = cache /\ Current' = cache' BY <1>1, Zenon DEF Current
<1>5. p \in Active BY <1>1, Zenon DEF Active
<1>6. Current' = [Current EXCEPT ![b] = x] BY <1>1, <1>4, Zenon
<1> QED BY <1>2, <1>3, <1>5, <1>6, Zenon DEF Atomic!Write, Active, Current

(* end_op() ends an operation, unless the process is inside another. *)
LEMMA EndOpMaps ==
  ASSUME IInv, NEW p \in Procs, EndOp(p)
  PROVE  Stutter \/ Atomic!End(p)
<1>1. /\ depth' = [depth EXCEPT ![p] = @ - 1] /\ depth[p] > 0
      /\ UNCHANGED <<disk, dlog, dhead, cache, boot>>
  BY Zenon DEF EndOp
<1>2. UNCHANGED <<Recovered, Current>> BY <1>1, Zenon DEF Recovered, Current
<1>3. depth \in [Procs -> 0 .. MaxDepth] BY Zenon DEF IInv, TypeOK
<1>4. \A q \in Procs : depth[q] \in Nat BY <1>3, ConstantsAssumption
<1>5. CASE depth[p] = 1
  <2>1. Active' = Active \ {p} BY <1>1, <1>3, <1>4, <1>5 DEF Active
  <2> QED BY <1>2, <2>1, Zenon DEF Atomic!End, Active, Current
<1>6. CASE depth[p] # 1
  <2>1. Active' = Active BY <1>1, <1>3, <1>4, <1>6 DEF Active
  <2> QED BY <1>2, <2>1, Zenon DEF Stutter
<1> QED BY <1>5, <1>6, Zenon

(* write_log() changes blocks of the on-disk log that no header names. *)
LEMMA WriteLogMaps ==
  ASSUME IInv, NEW p \in Procs, WriteLog(p)
  PROVE  Stutter
<1>1. /\ Up /\ pc[p] = "write_log" /\ pc[p] \in CommitPCs
      /\ UNCHANGED <<disk, dhead, cache, depth, boot>>
  BY Zenon DEF WriteLog, At, CommitPCs
<1>2. dhead = <<>> BY <1>1, Committing, Zenon DEF Progress
<1>3. disk \in [Blocks -> Vals] BY Zenon DEF IInv, TypeOK
<1>4. UNCHANGED Recovered BY <1>1, <1>2, <1>3, RecoveredRec, RecEmpty, Zenon
<1> QED BY <1>1, <1>4, Zenon DEF Stutter, Current, Active

(* The first write_head() makes the transaction durable, all at once. *)
LEMMA WriteHeadMaps ==
  ASSUME IInv, NEW p \in Procs, WriteHead(p)
  PROVE  Atomic!Commit
<1>1. /\ Up /\ pc[p] = "write_head" /\ pc[p] \in CommitPCs /\ dhead' = lh
      /\ UNCHANGED <<disk, dlog, cache, depth, boot>>
  BY Zenon DEF WriteHead, At, CommitPCs
<1>2. /\ \A q \in Procs : depth[q] = 0
      /\ \A b \in Blocks : cache[b] = disk[b] \/ In(b, lh)
      /\ Copied(Len(lh))
  BY <1>1, Committing, Zenon DEF Progress
<1>3. cache \in [Blocks -> Vals] /\ lh \in Seq(Blocks) /\ Distinct(lh) BY Zenon DEF IInv, TypeOK
<1>4. Rec(lh, dlog, disk) = cache BY <1>2, <1>3, RecIs DEF Copied
<1>5. Recovered' = cache BY <1>1, <1>4, RecoveredRec, Zenon
<1>6. Current = cache /\ Current' = cache BY <1>1, Zenon DEF Current, Up
<1>7. Active = {} /\ Active' = Active BY <1>1, <1>2 DEF Active
<1> QED BY <1>5, <1>6, <1>7, Zenon DEF Atomic!Commit, Active, Current

(* install_trans() changes blocks that the header names. *)
LEMMA InstallTransMaps ==
  ASSUME IInv, NEW p \in Procs, InstallTrans(p)
  PROVE  Stutter
<1>1. /\ Up /\ pc[p] = "install_trans" /\ pc[p] \in CommitPCs
      /\ UNCHANGED <<dlog, dhead, cache, depth, boot>>
  BY Zenon DEF InstallTrans, At, CommitPCs
<1>2. dhead = lh BY <1>1, Committing, Zenon DEF Progress
<1>3. /\ disk \in [Blocks -> Vals] /\ lh \in Seq(Blocks) /\ Distinct(lh)
      /\ tail \in Nat /\ tail >= 1 /\ Len(lh) \in Nat
  BY ConstantsAssumption DEF IInv, TypeOK
<1>4. CASE tail <= Len(lh)
  <2>1. disk' = [disk EXCEPT ![lh[tail]] = dlog[tail]] BY <1>4, Zenon DEF InstallTrans
  <2>2. tail \in 1 .. Len(lh) BY <1>3, <1>4
  <2>3. \A b \in Blocks : ~In(b, lh) => disk'[b] = disk[b] BY <1>3, <2>1, <2>2, Zenon DEF In
  <2>4. Rec(lh, dlog, disk') = Rec(lh, dlog, disk) BY <2>3, RecInstall
  <2>5. UNCHANGED Recovered BY <1>1, <1>2, <2>4, RecoveredRec, Zenon
  <2> QED BY <1>1, <2>5, Zenon DEF Stutter, Current, Active
<1>5. CASE ~(tail <= Len(lh))
  <2>1. disk' = disk BY <1>5, Zenon DEF InstallTrans
  <2> QED BY <1>1, <2>1, KeepAll, Zenon
<1> QED BY <1>4, <1>5, Zenon

(* The second write_head() erases a transaction that is installed. *)
LEMMA ClearHeadMaps ==
  ASSUME IInv, NEW p \in Procs, ClearHead(p)
  PROVE  Stutter
<1>1. /\ Up /\ pc[p] = "clear_head" /\ pc[p] \in CommitPCs /\ dhead' = <<>>
      /\ UNCHANGED <<disk, dlog, cache, depth, boot>>
  BY Zenon DEF ClearHead, At, CommitPCs
<1>2. dhead = lh /\ Installed(Len(lh)) BY <1>1, Committing, Zenon DEF Progress
<1>3. disk \in [Blocks -> Vals] /\ lh \in Seq(Blocks) /\ Distinct(lh) BY Zenon DEF IInv, TypeOK
<1>4. Recovered = disk BY <1>2, <1>3, RecoveredRec, RecInstalled DEF Installed
<1>5. Recovered' = disk BY <1>1, <1>3, RecoveredRec, RecEmpty, Zenon
<1> QED BY <1>1, <1>4, <1>5, Zenon DEF Stutter, Current, Active

(* A crash leaves exactly what was durable. *)
LEMMA CrashMaps ==
  ASSUME IInv, Crash
  PROVE  Atomic!Crash
<1>1. /\ boot' = "read_head" /\ depth' = [p \in Procs |-> 0]
      /\ UNCHANGED <<disk, dlog, dhead>>
  BY Zenon DEF Crash
<1>2. UNCHANGED Recovered BY <1>1, Zenon DEF Recovered
<1>3. Current' = Recovered BY <1>1, <1>2, Zenon DEF Current
<1>4. Active' = {} BY <1>1 DEF Active
<1> QED BY <1>2, <1>3, <1>4, Zenon DEF Atomic!Crash, Active, Current

(* recover_from_log() gives the system the durable disk, however often it  *)
(* is cut short.                                                           *)
LEMMA RecoverMaps ==
  ASSUME IInv, Recover
  PROVE  Stutter
<1>1. CASE RecoverReadHead
  <2>1. /\ boot # "up" /\ boot' # "up" /\ UNCHANGED <<disk, dlog, dhead, depth>>
    BY <1>1, Zenon DEF RecoverReadHead
  <2>2. UNCHANGED Recovered BY <2>1, Zenon DEF Recovered
  <2> QED BY <2>1, <2>2, Zenon DEF Stutter, Current, Active
<1>2. CASE RecoverInstall
  <2>1. /\ boot = "install_trans" /\ boot # "up" /\ UNCHANGED <<dlog, dhead, depth>>
    BY <1>2, Zenon DEF RecoverInstall
  <2>2. boot' # "up" BY <1>2, Zenon DEF RecoverInstall
  <2>3. lh = dhead BY <2>1, BootQuiet, Zenon DEF Booting
  <2>4. /\ disk \in [Blocks -> Vals] /\ lh \in Seq(Blocks) /\ Distinct(lh)
        /\ tail \in Nat /\ tail >= 1 /\ Len(lh) \in Nat
    BY ConstantsAssumption DEF IInv, TypeOK
  <2>5. UNCHANGED Recovered
    <3>1. CASE tail <= Len(lh)
      <4>1. disk' = [disk EXCEPT ![lh[tail]] = dlog[tail]] BY <1>2, <3>1, Zenon DEF RecoverInstall
      <4>2. tail \in 1 .. Len(lh) BY <2>4, <3>1
      <4>3. \A b \in Blocks : ~In(b, lh) => disk'[b] = disk[b] BY <2>4, <4>1, <4>2, Zenon DEF In
      <4>4. Rec(lh, dlog, disk') = Rec(lh, dlog, disk) BY <4>3, RecInstall
      <4> QED BY <2>1, <2>3, <4>4, RecoveredRec, Zenon
    <3>2. CASE ~(tail <= Len(lh))
      <4>1. disk' = disk BY <1>2, <3>2, Zenon DEF RecoverInstall
      <4> QED BY <2>1, <4>1, Zenon DEF Recovered
    <3> QED BY <3>1, <3>2, Zenon
  <2> QED BY <2>1, <2>2, <2>5, Zenon DEF Stutter, Current, Active
<1>3. CASE RecoverClear
  <2>1. /\ boot = "clear_head" /\ boot # "up" /\ boot' = "up" /\ dhead' = <<>>
        /\ UNCHANGED <<disk, dlog, cache, depth>>
    BY <1>3, Zenon DEF RecoverClear
  <2>2. lh = dhead /\ Installed(Len(lh)) /\ cache = disk BY <2>1, BootQuiet, Zenon DEF Booting
  <2>3. disk \in [Blocks -> Vals] /\ lh \in Seq(Blocks) /\ Distinct(lh) BY Zenon DEF IInv, TypeOK
  <2>4. Recovered = disk BY <2>2, <2>3, RecoveredRec, RecInstalled DEF Installed
  <2>5. Recovered' = disk BY <2>1, <2>3, RecoveredRec, RecEmpty, Zenon
  <2> QED BY <2>1, <2>2, <2>4, <2>5, Zenon DEF Stutter, Current, Active
<1> QED BY <1>1, <1>2, <1>3, Zenon DEF Recover

(* Every step of Log is a step of AtomicDisk, or changes nothing it sees. *)
LEMMA NextMaps == IInv /\ [Next]_vars => [Atomic!Next]_(Atomic!vars)
<1> SUFFICES ASSUME IInv, [Next]_vars PROVE Atomic!Next \/ UNCHANGED Atomic!vars
  BY Zenon
<1>0. Stutter => UNCHANGED Atomic!vars BY Zenon DEF Stutter, Atomic!vars, Current, Active
<1>1. CASE UNCHANGED vars BY <1>0, <1>1, KeepAll, Zenon DEF vars
<1>2. ASSUME NEW p \in Procs, ProcNext(p) PROVE Atomic!Next \/ UNCHANGED Atomic!vars
  <2>1. CASE Call(p) BY <1>0, <2>1, KeepAll, Zenon DEF Call
  <2>2. CASE BeginOp(p) BY <1>0, <2>2, BeginOpMaps, Zenon DEF Atomic!Next
  <2>3. CASE LogWrite(p) BY <1>0, <2>3, KeepAll, Zenon DEF LogWrite
  <2>4. CASE EndOp(p) BY <1>0, <2>4, EndOpMaps, Zenon DEF Atomic!Next
  <2>5. CASE WriteLog(p) BY <1>0, <2>5, WriteLogMaps, Zenon
  <2>6. CASE WriteHead(p) BY <2>6, WriteHeadMaps, Zenon DEF Atomic!Next
  <2>7. CASE InstallTrans(p) BY <1>0, <2>7, InstallTransMaps
  <2>8. CASE ClearHead(p) BY <1>0, <2>8, ClearHeadMaps
  <2>9. CASE Committed(p) BY <1>0, <2>9, KeepAll, Zenon DEF Committed
  <2>10. ASSUME NEW b \in Blocks, NEW x \in Vals, LogWriteTest(p, b, x) PROVE Atomic!Next
    BY <2>10, LogWriteTestMaps, Zenon DEF Atomic!Next
  <2> QED BY <1>2, <2>1, <2>2, <2>3, <2>4, <2>5, <2>6, <2>7, <2>8, <2>9, <2>10, Zenon
          DEF ProcNext, Commit
<1>3. CASE Recover BY <1>0, <1>3, RecoverMaps, Zenon
<1>4. CASE Crash BY <1>4, CrashMaps, Zenon DEF Atomic!Next
<1> QED BY <1>1, <1>2, <1>3, <1>4, Zenon DEF Next

(* The machine starts with the durable disk. *)
LEMMA InitMaps == Init => Atomic!Init
<1> SUFFICES ASSUME Init PROVE Atomic!Init
  BY Zenon
<1>1. dhead = <<>> /\ disk = [b \in Blocks |-> Blank] /\ boot = "read_head" BY Zenon DEF Init
<1>2. disk \in [Blocks -> Vals] BY <1>1, ConstantsAssumption, Zenon
<1>3. Recovered = disk BY <1>1, <1>2, RecoveredRec, RecEmpty, Zenon
<1>4. {p \in Procs : depth[p] > 0} = {} BY DEF Init
<1> QED BY <1>1, <1>3, <1>4, Zenon DEF Atomic!Init

----------------------------------------------------------------------------
(* The operations in progress are finitely many. *)
LEMMA OpsFinite ==
  ASSUME NEW d
  PROVE  IsFiniteSet(Ops(d)) /\ Cardinality(Ops(d)) \in Nat
<1>1. MaxDepth \in Int BY ConstantsAssumption
<1>2. IsFiniteSet(1 .. MaxDepth) BY <1>1, FS_Interval
<1>3. IsFiniteSet(Procs \X (1 .. MaxDepth)) BY <1>2, ConstantsAssumption, FS_Product, Zenon
<1>4. Ops(d) \in SUBSET (Procs \X (1 .. MaxDepth)) BY Zenon DEF Ops
<1>5. IsFiniteSet(Ops(d)) BY <1>3, <1>4, FS_Subset, Zenon
<1> QED BY <1>5, FS_CardinalityType, Zenon

(* begin_op() adds one to them. *)
LEMMA OpsGrow ==
  ASSUME NEW d \in [Procs -> 0 .. MaxDepth], NEW p \in Procs, d[p] < MaxDepth,
         NEW e, e = [d EXCEPT ![p] = @ + 1]
  PROVE  Cardinality(Ops(e)) = Cardinality(Ops(d)) + 1
<1>1. MaxDepth \in Nat BY ConstantsAssumption
<1>2. Ops(e) = Ops(d) \cup {<<p, d[p] + 1>>}
  BY <1>1 DEF Ops
<1>3. <<p, d[p] + 1>> \notin Ops(d)
  BY <1>1 DEF Ops
<1> QED BY <1>2, <1>3, OpsFinite, FS_AddElement, Zenon

(* end_op() takes one away. *)
LEMMA OpsShrink ==
  ASSUME NEW d \in [Procs -> 0 .. MaxDepth], NEW p \in Procs, d[p] > 0,
         NEW e, e = [d EXCEPT ![p] = @ - 1]
  PROVE  Cardinality(Ops(e)) = Cardinality(Ops(d)) - 1
<1>1. MaxDepth \in Nat BY ConstantsAssumption
<1>2. Ops(e) = Ops(d) \ {<<p, d[p]>>}
  BY <1>1 DEF Ops
<1>3. <<p, d[p]>> \in Ops(d)
  BY <1>1 DEF Ops
<1>4. Cardinality(Ops(d) \ {<<p, d[p]>>}) = Cardinality(Ops(d)) - 1
  BY <1>3, OpsFinite, FS_RemoveElement, Zenon
<1> QED BY <1>2, <1>4, Zenon

(* No operation is in progress if and only if there is none to count. *)
LEMMA OpsNone ==
  ASSUME NEW d \in [Procs -> 0 .. MaxDepth]
  PROVE  Cardinality(Ops(d)) = 0 <=> \A p \in Procs : d[p] = 0
<1>1. MaxDepth \in Nat BY ConstantsAssumption
<1>2. Cardinality(Ops(d)) = 0 <=> Ops(d) = {} BY OpsFinite, FS_EmptySet, Zenon
<1>3. ASSUME NEW p \in Procs, d[p] # 0 PROVE <<p, d[p]>> \in Ops(d)
  BY <1>1, <1>3 DEF Ops
<1>4. ASSUME NEW t \in Ops(d) PROVE t[1] \in Procs /\ d[t[1]] # 0
  BY <1>1, <1>4 DEF Ops
<1> QED BY <1>2, <1>3, <1>4, Zenon

(* So are the blocks they are charged for. *)
LEMMA ChargedFinite ==
  ASSUME NEW w, NEW l
  PROVE  IsFiniteSet(Charged(w, l)) /\ Cardinality(Charged(w, l)) \in Nat
<1>1. IsFiniteSet(Procs \X Blocks) BY ConstantsAssumption, FS_Product, Zenon
<1>2. Charged(w, l) \in SUBSET (Procs \X Blocks) BY Zenon DEF Charged
<1>3. IsFiniteSet(Charged(w, l)) BY <1>1, <1>2, FS_Subset, Zenon
<1> QED BY <1>3, FS_CardinalityType, Zenon

(* An operation is charged for no more than its reservation: number the    *)
(* blocks of each process.                                                 *)
LEMMA ChargedBound ==
  ASSUME NEW d \in [Procs -> 0 .. MaxDepth], NEW w \in [Procs -> SUBSET Blocks], NEW l,
         \A p \in Procs : w[p] # {} => d[p] > 0,
         \A p \in Procs : Cardinality(w[p]) <= OpBlocks
  PROVE  Cardinality(Charged(w, l)) <= Cardinality(Ops(d)) * OpBlocks
<1> DEFINE slots == Ops(d) \X (1 .. OpBlocks)
           nums(p) == Injection(w[p], 1 .. OpBlocks)
           num == [p \in Procs |-> CHOOSE g \in nums(p) : TRUE]
           f == [t \in Charged(w, l) |-> <<<<t[1], 1>>, num[t[1]][t[2]]>>]
<1>1. OpBlocks \in Nat /\ MaxDepth \in {1, 2}
  BY ConstantsAssumption
<1>2. ASSUME NEW p \in Procs PROVE num[p] \in Injection(w[p], 1 .. OpBlocks)
  <2>1. IsFiniteSet(w[p]) BY ConstantsAssumption, FS_Subset, Zenon
  <2>2. ExistsBijection(1 .. Cardinality(w[p]), w[p]) /\ Cardinality(w[p]) \in Nat
    BY <2>1, FS_CardinalityType, Zenon
  <2>3. PICK h : h \in Bijection(1 .. Cardinality(w[p]), w[p])
    BY <2>2, Zenon DEF ExistsBijection
  <2> DEFINE g == [x \in w[p] |-> CHOOSE i \in 1 .. Cardinality(w[p]) : h[i] = x]
  <2>4. ASSUME NEW x \in w[p] PROVE g[x] \in 1 .. Cardinality(w[p]) /\ h[g[x]] = x
    <3>1. \E i \in 1 .. Cardinality(w[p]) : h[i] = x BY <2>3, Zenon DEF Bijection, Surjection
    <3> QED BY <3>1, Zenon
  <2>5. Cardinality(w[p]) <= OpBlocks BY Zenon
  <2>6. 1 .. Cardinality(w[p]) \subseteq 1 .. OpBlocks BY <1>1, <2>2, <2>5
  <2> HIDE DEF g
  <2>7. g \in nums(p)
    <3>1. g \in [w[p] -> 1 .. OpBlocks] BY <2>4, <2>6, Zenon DEF g
    <3>2. \A x, y \in w[p] : g[x] = g[y] => x = y BY <2>4, Zenon
    <3> QED BY <3>1, <3>2, Zenon DEF Injection, IsInjective
  <2> QED BY <2>7, Zenon
<1> HIDE DEF num
<1>3. f \in [Charged(w, l) -> slots]
  <2> SUFFICES ASSUME NEW t \in Charged(w, l)
               PROVE  <<<<t[1], 1>>, num[t[1]][t[2]]>> \in slots
    BY Zenon
  <2>1. t[1] \in Procs /\ t[2] \in w[t[1]] BY Zenon DEF Charged
  <2>2. d[t[1]] \in 0 .. MaxDepth /\ d[t[1]] > 0 BY <2>1, Zenon
  <2>3. <<t[1], 1>> \in Ops(d) BY <1>1, <2>1, <2>2 DEF Ops
  <2>4. num[t[1]] \in [w[t[1]] -> 1 .. OpBlocks] BY <1>2, <2>1, Zenon DEF Injection
  <2> QED BY <2>1, <2>3, <2>4, Zenon
<1>4. ASSUME NEW t \in Charged(w, l), NEW u \in Charged(w, l), f[t] = f[u] PROVE t = u
  <2>1. t \in Procs \X Blocks /\ u \in Procs \X Blocks BY Zenon DEF Charged
  <2>2. t[1] = u[1] /\ num[t[1]][t[2]] = num[u[1]][u[2]] BY <1>4, Zenon
  <2>3. t[2] \in w[t[1]] /\ u[2] \in w[t[1]] /\ t[1] \in Procs BY <2>2, Zenon DEF Charged
  <2>4. t[2] = u[2] BY <1>2, <2>2, <2>3 DEF Injection, IsInjective
  <2> QED BY <2>1, <2>2, <2>4
<1>5. f \in Injection(Charged(w, l), slots) BY <1>3, <1>4, Zenon DEF Injection, IsInjective
<1>6. /\ IsFiniteSet(1 .. OpBlocks)
      /\ Cardinality(1 .. OpBlocks) = OpBlocks
  BY <1>1, FS_Interval
<1>7. /\ IsFiniteSet(slots)
      /\ Cardinality(slots) = Cardinality(Ops(d)) * OpBlocks
  BY ZenonT(60), <1>6, OpsFinite, FS_Product
<1> HIDE DEF f, slots
<1>8. Cardinality(Charged(w, l)) <= Cardinality(slots) BY <1>5, <1>7, FS_Injection, Zenon
<1> QED BY <1>7, <1>8, Zenon

(* A block that joins the log is charged to the one that passed it to      *)
(* log_write().                                                            *)
LEMMA ChargedAppend ==
  ASSUME NEW w \in [Procs -> SUBSET Blocks], NEW p \in Procs, NEW b \in w[p],
         NEW l, NEW m, ~In(b, l), \A c : In(c, m) <=> In(c, l) \/ c = b
  PROVE  Cardinality(Charged(w, l)) + 1 <= Cardinality(Charged(w, m))
<1>1. <<p, b>> \notin Charged(w, l) BY Zenon DEF Charged
<1>2. Charged(w, l) \cup {<<p, b>>} \in SUBSET Charged(w, m) BY DEF Charged
<1>3. Cardinality(Charged(w, l) \cup {<<p, b>>}) = Cardinality(Charged(w, l)) + 1
  BY <1>1, ChargedFinite, FS_AddElement, Zenon
<1>4. Cardinality(Charged(w, l) \cup {<<p, b>>}) <= Cardinality(Charged(w, m))
  BY <1>2, ChargedFinite, FS_Subset, Zenon
<1> QED BY <1>3, <1>4, ChargedFinite, Zenon

(* An operation that writes more is charged for no less. *)
LEMMA ChargedMore ==
  ASSUME NEW w, NEW v, NEW l, \A q \in Procs : w[q] \subseteq v[q]
  PROVE  Cardinality(Charged(w, l)) <= Cardinality(Charged(v, l))
<1>1. Charged(w, l) \in SUBSET Charged(v, l) BY Zenon DEF Charged
<1> QED BY <1>1, ChargedFinite, FS_Subset, Zenon

(* When an operation ends, those in progress are charged for at most       *)
(* OpBlocks blocks less.                                                   *)
LEMMA ChargedEnd ==
  ASSUME NEW w \in [Procs -> SUBSET Blocks], NEW v, NEW p \in Procs, NEW l,
         \A q \in Procs : q # p => v[q] = w[q], Cardinality(w[p]) <= OpBlocks
  PROVE  Cardinality(Charged(w, l)) <= Cardinality(Charged(v, l)) + OpBlocks
<1> DEFINE own == {p} \X w[p]
           rest == Charged(v, l)
<1>1. Charged(w, l) \in SUBSET (rest \cup own)
  <2> SUFFICES ASSUME NEW t \in Charged(w, l), t \notin own
               PROVE  t \in rest
    BY Zenon
  <2>1. t \in Procs \X Blocks /\ t[2] \in w[t[1]] /\ In(t[2], l) BY Zenon DEF Charged
  <2>2. t[1] # p BY <2>1, Zenon
  <2> QED BY <2>1, <2>2, Zenon DEF Charged
<1>2. IsFiniteSet(own) /\ Cardinality(own) \in Nat /\ Cardinality(own) <= OpBlocks
  <2>1. IsFiniteSet(w[p]) BY ConstantsAssumption, FS_Subset, Zenon
  <2>2. IsFiniteSet({p}) /\ Cardinality({p}) = 1 BY FS_Singleton, Zenon
  <2>3. IsFiniteSet(own) /\ Cardinality(own) = Cardinality({p}) * Cardinality(w[p])
    BY <2>1, <2>2, FS_Product, Zenon
  <2>4. Cardinality(w[p]) \in Nat BY <2>1, FS_CardinalityType, Zenon
  <2> QED BY <2>2, <2>3, <2>4
<1>3. IsFiniteSet(rest) /\ Cardinality(rest) \in Nat BY ChargedFinite, Zenon
<1> HIDE DEF own, rest
<1>4. /\ IsFiniteSet(rest \cup own) /\ IsFiniteSet(rest \cap own)
      /\ Cardinality(rest \cup own)
           = Cardinality(rest) + Cardinality(own) - Cardinality(rest \cap own)
  BY <1>2, <1>3, FS_Union, FS_Intersection, Zenon
<1>5. Cardinality(rest \cup own) \in Nat /\ Cardinality(rest \cap own) \in Nat
  BY <1>4, FS_CardinalityType, Zenon
<1>6. Cardinality(Charged(w, l)) <= Cardinality(rest \cup own)
  BY <1>1, <1>4, FS_Subset, Zenon
<1>7. OpBlocks \in Nat /\ Cardinality(Charged(w, l)) \in Nat
  BY ConstantsAssumption, ChargedFinite
<1>8. Cardinality(Charged(w, l)) <= Cardinality(rest) + OpBlocks
  BY SMTT(30), <1>2, <1>3, <1>4, <1>5, <1>6, <1>7
<1> QED BY <1>8, Zenon DEF rest

----------------------------------------------------------------------------
(* The operations between begin_op() and end_op(), and the crash. *)

(* The machine is booted for the first time. *)
LEMMA InitIInv == Init => IInv
<1> SUFFICES ASSUME Init PROVE IInv
  BY Zenon
<1>1. TypeOK
  <2>1. disk \in [Blocks -> Vals] /\ cache \in [Blocks -> Vals]
    BY ConstantsAssumption, Zenon DEF Init
  <2>2. dlog \in [1 .. LOGSIZE -> Vals] /\ tail \in 1 .. LOGSIZE + 1
    BY ConstantsAssumption DEF Init
  <2>3. /\ dhead \in Seq(Blocks) /\ Len(dhead) <= LOGSIZE
        /\ lh \in Seq(Blocks) /\ Len(lh) <= LOGSIZE
    BY ConstantsAssumption DEF Init
  <2>4. depth \in [Procs -> 0 .. MaxDepth] /\ pc \in [Procs -> PCs]
    BY ConstantsAssumption DEF Init, PCs
  <2>5. wrote \in [Procs -> SUBSET Blocks] /\ held \in [Procs -> Blocks \cup {NULL}]
    BY Zenon DEF Init
  <2> QED BY <2>1, <2>2, <2>3, <2>4, <2>5, Zenon DEF Init, TypeOK, Boots
<1>2. Distinct(lh) /\ Distinct(dhead)
  BY DEF Init, Distinct
<1>3. Reserved
  <2>1. outstanding = Cardinality(Ops(depth))
    BY OpsNone, ConstantsAssumption DEF Init
  <2>2. Cardinality({}) = 0 /\ Len(lh) = 0 BY FS_EmptySet, Zenon DEF Init
  <2>3. outstanding = 0 /\ \A p \in Procs : wrote[p] = {} /\ depth[p] = 0 BY Zenon DEF Init
  <2>4. ~(outstanding > 0) BY DEF Init
  <2>5. \A p \in Procs : Cardinality(wrote[p]) <= OpBlocks
    <3>1. OpBlocks \in Nat BY ConstantsAssumption
    <3>2. \A p \in Procs : Cardinality(wrote[p]) = 0 BY <2>2, <2>3, Zenon
    <3> QED BY <3>1, <3>2
  <2> QED BY <2>1, <2>3, <2>4, <2>5, Zenon DEF Reserved
<1>4. Control
  BY ConstantsAssumption, Zenon DEF Init, Control, CommitPCs
<1>5. boot # "up" /\ Booting
  BY Zenon DEF Init, Booting
<1> QED BY <1>1, <1>2, <1>3, <1>4, <1>5, Zenon DEF IInv, Up

(* begin_op() sleeps, or reserves the space of one operation. *)
LEMMA BeginOpStep ==
  ASSUME IInv, NEW p \in Procs, BeginOp(p)
  PROVE  IInv'
<1>1. /\ Up /\ pc[p] = "begin_op"
      /\ UNCHANGED <<disk, dlog, dhead, cache, lh, committing, tail, wrote, held, boot, panicked>>
  BY Zenon DEF BeginOp, At
<1>2. TypeOK /\ Reserved /\ Control /\ Running /\ depth[p] < MaxDepth
  BY <1>1, Zenon DEF IInv, Control
<1>3. CASE pc' = [pc EXCEPT ![p] = "sleep"] /\ UNCHANGED <<outstanding, depth>>
  <2> USE <1>1, <1>2, <1>3
  <2>1. TypeOK' BY Zenon DEF TypeOK, PCs
  <2>2. Reserved' BY KeepReserved, Zenon
  <2>3. Control' BY Zenon DEF Control, CommitPCs, TypeOK
  <2>4. Running'
    <3>1. \A q \in Procs : pc'[q] \in CommitPCs <=> pc[q] \in CommitPCs
      BY Zenon DEF CommitPCs, TypeOK
    <3>2. \A q \in Procs : Progress(pc'[q])
      BY Zenon DEF Running, TypeOK, Progress
    <3> QED BY <3>1, <3>2, KeepRunning, Zenon DEF Running
  <2> QED BY <2>1, <2>2, <2>3, <2>4, ZenonT(60) DEF IInv, Up
<1>4. CASE /\ pc' = [pc EXCEPT ![p] = "run"]
           /\ ~committing /\ Len(lh) + (outstanding + 1) * MAXOPBLOCKS <= LOGSIZE
           /\ outstanding' = outstanding + 1
           /\ depth' = [depth EXCEPT ![p] = @ + 1]
  <2> USE <1>1, <1>2, <1>4
  <2>1. TypeOK'
    <3>1. depth' \in [Procs -> 0 .. MaxDepth] BY ConstantsAssumption DEF TypeOK
    <3> QED BY <3>1 DEF TypeOK, PCs
  <2>2. Reserved'
    <3>1. Cardinality(Ops(depth')) = Cardinality(Ops(depth)) + 1
      BY OpsGrow, Zenon DEF TypeOK
    <3>2. outstanding' = Cardinality(Ops(depth')) BY <3>1, Zenon DEF Reserved
    <3>3. \A q \in Procs : wrote'[q] # {} => depth'[q] > 0
      <4>1. \A q \in Procs : depth[q] \in Nat BY ConstantsAssumption DEF TypeOK
      <4>2. \A q \in Procs : depth'[q] >= depth[q] BY <4>1 DEF TypeOK
      <4>3. \A q \in Procs : depth'[q] \in Nat BY <4>1 DEF TypeOK
      <4> QED BY SMTT(30), <4>1, <4>2, <4>3 DEF Reserved
    <3>4. Cardinality(Charged(wrote', lh')) \in Nat BY ChargedFinite, Zenon
    <3>5. Len(lh') + outstanding' * MAXOPBLOCKS <= LOGSIZE + Cardinality(Charged(wrote', lh'))
      BY <3>4, ConstantsAssumption DEF TypeOK
    <3>6. outstanding' = 0 <=> \A q \in Procs : depth'[q] = 0
      BY <2>1, <3>2, OpsNone, ZenonT(60) DEF TypeOK
    <3> QED BY <3>2, <3>3, <3>5, <3>6, Zenon DEF Reserved
  <2>3. Control'
    BY ConstantsAssumption DEF Control, CommitPCs, TypeOK
  <2>4. Running'
    <3>1. \A q \in Procs : pc'[q] \in CommitPCs <=> pc[q] \in CommitPCs
      BY Zenon DEF CommitPCs, TypeOK
    <3>2. \A q \in Procs : Progress(pc'[q])
      BY Zenon DEF Running, TypeOK, Progress
    <3>3. outstanding' # 0 BY DEF TypeOK
    <3> QED BY <3>1, <3>2, <3>3, KeepRunning, Zenon DEF Running
  <2> QED BY <2>1, <2>2, <2>3, <2>4, ZenonT(60) DEF IInv, Up
<1>5. TypeOK /\ MAXOPBLOCKS \in Nat /\ LOGSIZE \in Nat BY <1>2, ConstantsAssumption, Zenon
<1> QED BY <1>3, <1>4, <1>5 DEF BeginOp, Goto, TypeOK

(* The caller of log_write() changes a block; the test may panic. *)
LEMMA LogWriteTestStep ==
  ASSUME IInv, NEW p \in Procs, NEW b \in Blocks, NEW x \in Vals, LogWriteTest(p, b, x)
  PROVE  IInv'
<1>1. /\ Up /\ pc[p] = "run" /\ depth[p] > 0
      /\ Cardinality(wrote[p] \cup {b}) <= OpBlocks
      /\ cache' = [cache EXCEPT ![b] = x]
      /\ wrote' = [wrote EXCEPT ![p] = @ \cup {b}]
      /\ UNCHANGED <<disk, dlog, dhead, lh, outstanding, committing, tail, depth, boot>>
  BY Zenon DEF LogWriteTest, At
<1>2. \/ panicked' = TRUE /\ UNCHANGED <<pc, held>>
      \/ /\ pc' = [pc EXCEPT ![p] = "log_write"]
         /\ held' = [held EXCEPT ![p] = b]
         /\ UNCHANGED panicked
  BY Zenon DEF LogWriteTest, Goto
<1>3. TypeOK /\ Reserved /\ Control /\ Running /\ boot = "up"
  BY <1>1, Zenon DEF IInv, Up
<1>4. /\ outstanding \in Nat /\ outstanding > 0 /\ ~committing
      /\ \A q \in Procs : pc[q] \notin CommitPCs
  BY <1>1, NobodyCommits, Zenon
<1>5. TypeOK'
  <2>1. /\ cache' \in [Blocks -> Vals] /\ wrote' \in [Procs -> SUBSET Blocks]
        /\ pc' \in [Procs -> PCs] /\ held' \in [Procs -> Blocks \cup {NULL}]
        /\ panicked' \in BOOLEAN
    BY ZenonT(60), <1>1, <1>2, <1>3 DEF TypeOK, PCs
  <2> QED BY <1>1, <1>3, <2>1, Zenon DEF TypeOK
<1>6. Reserved'
  <2>1. \A q \in Procs : wrote[q] \subseteq wrote'[q] BY <1>1, <1>3, Zenon DEF TypeOK
  <2>2. Cardinality(Charged(wrote, lh)) <= Cardinality(Charged(wrote', lh))
    BY <2>1, ChargedMore, Zenon
  <2>3. /\ Cardinality(Charged(wrote, lh)) \in Nat
        /\ Cardinality(Charged(wrote', lh)) \in Nat
    BY ChargedFinite, Zenon
  <2>4. Len(lh) \in Nat /\ LOGSIZE \in Nat /\ outstanding * MAXOPBLOCKS \in Nat
    BY <1>3, <1>4, ConstantsAssumption DEF TypeOK
  <2>5. Len(lh) + outstanding * MAXOPBLOCKS <= LOGSIZE + Cardinality(Charged(wrote', lh))
    BY <1>3, <1>4, <2>2, <2>3, <2>4 DEF Reserved
  <2>6. \A q \in Procs : /\ Cardinality(wrote'[q]) <= OpBlocks
                         /\ wrote'[q] # {} => depth[q] > 0
    BY <1>1, <1>3, Zenon DEF Reserved, TypeOK
  <2> QED BY <1>1, <1>3, <2>5, <2>6, Zenon DEF Reserved
<1>7. Control'
  <2>1. \A q \in Procs : pc'[q] \notin CommitPCs
    BY <1>2, <1>3, <1>4, Zenon DEF CommitPCs, TypeOK
  <2>2. \A q \in Procs : pc'[q] = "log_write" => depth[q] > 0 /\ held'[q] \in wrote'[q]
    BY <1>1, <1>2, <1>3 DEF Control, TypeOK
  <2>3. \A q \in Procs : pc'[q] # "log_write" => held'[q] = NULL
    BY <1>1, <1>2, <1>3, Zenon DEF Control, TypeOK
  <2>4. \A q \in Procs : pc'[q] \in {"begin_op", "sleep"} => depth[q] < MaxDepth
    BY <1>1, <1>2, <1>3, Zenon DEF Control, TypeOK
  <2> QED BY <1>1, <1>3, <1>4, <2>1, <2>2, <2>3, <2>4, Zenon DEF Control
<1>8. CASE panicked'
  BY <1>1, <1>3, <1>5, <1>6, <1>7, <1>8, Zenon DEF IInv, Up
<1>9. CASE ~panicked'
  <2>1. pc' = [pc EXCEPT ![p] = "log_write"] /\ held' = [held EXCEPT ![p] = b]
    BY <1>2, <1>9, Zenon
  <2>2. held[p] = NULL BY <1>1, <1>3, Zenon DEF Control
  <2>3. \A c \in Blocks : cache'[c] = disk[c] \/ In(c, lh) \/ \E q \in Procs : held'[q] = c
    <3> SUFFICES ASSUME NEW c \in Blocks, c # b
                 PROVE  cache'[c] = disk[c] \/ In(c, lh) \/ \E q \in Procs : held'[q] = c
      BY <2>1, <1>3, Zenon DEF TypeOK
    <3>1. cache[c] = disk[c] \/ In(c, lh) \/ \E q \in Procs : held[q] = c
      BY <1>3, Zenon DEF Running
    <3>2. cache'[c] = cache[c] BY <1>1, <1>3, Zenon DEF TypeOK
    <3>3. ASSUME NEW q \in Procs, held[q] = c PROVE held'[q] = c
      BY <2>1, <2>2, <1>3, <3>3, ConstantsAssumption, ZenonT(60) DEF TypeOK
    <3> QED BY <3>1, <3>2, <3>3, Zenon
  <2>4. \A q \in Procs : pc'[q] \notin CommitPCs
    BY <1>3, <1>4, <2>1, Zenon DEF CommitPCs, TypeOK
  <2>5. \A q \in Procs : Progress(pc[q])'
    BY <2>4, Zenon DEF Progress, CommitPCs
  <2>6. tail' = 1 /\ dhead' = <<>> BY <1>1, <1>3, <1>4, ZenonT(60) DEF Running
  <2>7. Running' BY SMTT(30), <1>1, <1>4, <2>3, <2>5, <2>6 DEF Running
  <2> QED BY <1>1, <1>3, <1>5, <1>6, <1>7, <2>7, Zenon DEF IInv
<1> QED BY <1>8, <1>9, Zenon

(* What Append() does to the blocks of a sequence. *)
LEMMA AppendIn ==
  ASSUME NEW l \in Seq(Blocks), NEW b \in Blocks
  PROVE  /\ Append(l, b) \in Seq(Blocks)
         /\ Len(Append(l, b)) = Len(l) + 1
         /\ \A c : In(c, Append(l, b)) <=> In(c, l) \/ c = b
         /\ Distinct(l) /\ ~In(b, l) => Distinct(Append(l, b))
<1> DEFINE m == Append(l, b)
<1>1. /\ m \in Seq(Blocks) /\ Len(m) = Len(l) + 1 /\ Len(l) \in Nat
      /\ m[Len(l) + 1] = b
      /\ \A i \in 1 .. Len(l) : m[i] = l[i]
  OBVIOUS
<1> HIDE DEF m
<1>2. ASSUME NEW c PROVE In(c, m) <=> In(c, l) \/ c = b
  BY <1>1 DEF In
<1>3. Distinct(l) /\ ~In(b, l) => Distinct(m)
  BY <1>1 DEF In, Distinct
<1> QED BY <1>1, <1>2, <1>3, Zenon DEF m

(* log_write() adds the block to the transaction: it fits. *)
LEMMA LogWriteStep ==
  ASSUME IInv, NEW p \in Procs, LogWrite(p)
  PROVE  IInv'
<1> DEFINE b == held[p]
<1>1. /\ Up /\ pc[p] = "log_write"
      /\ lh' = IF In(b, lh) THEN lh ELSE Append(lh, b)
      /\ held' = [held EXCEPT ![p] = NULL]
      /\ pc' = [pc EXCEPT ![p] = "run"]
      /\ UNCHANGED <<disk, dlog, dhead, cache, outstanding, committing, tail, depth, wrote,
                     boot, panicked>>
  BY Zenon DEF LogWrite, At, Goto, In
<1>2. TypeOK /\ Reserved /\ Control /\ Running /\ boot = "up" /\ Distinct(lh) /\ Distinct(dhead)
  BY <1>1, Zenon DEF IInv, Up
<1>3. b \in Blocks /\ b \in wrote[p] /\ depth[p] > 0
  BY <1>1, <1>2, Zenon DEF Control, TypeOK
<1>4. /\ outstanding \in Nat /\ outstanding > 0 /\ ~committing
      /\ \A q \in Procs : pc[q] \notin CommitPCs
  BY <1>3, NobodyCommits, Zenon
<1>5. /\ lh' \in Seq(Blocks) /\ Distinct(lh')
      /\ \A c : In(c, lh') <=> In(c, lh) \/ c = b
      /\ Len(lh) \in Nat /\ Len(lh') = IF In(b, lh) THEN Len(lh) ELSE Len(lh) + 1
  BY <1>1, <1>2, <1>3, AppendIn DEF TypeOK
<1>6. Reserved'
  <2>1. /\ Cardinality(Charged(wrote, lh)) \in Nat
        /\ Cardinality(Charged(wrote, lh')) \in Nat
    BY ChargedFinite, Zenon
  <2>2. Len(lh') - Cardinality(Charged(wrote, lh')) <= Len(lh) - Cardinality(Charged(wrote, lh))
    <3>1. CASE In(b, lh)
      BY SMTT(30), <1>1, <1>5, <2>1, <3>1
    <3>2. CASE ~In(b, lh)
      <4>1. Cardinality(Charged(wrote, lh)) + 1 <= Cardinality(Charged(wrote, lh'))
        BY <1>2, <1>3, <1>5, <3>2, ChargedAppend, Zenon DEF TypeOK
      <4> QED BY SMTT(30), <1>5, <2>1, <3>2, <4>1
    <3> QED BY <3>1, <3>2, Zenon
  <2>3. LOGSIZE \in Nat /\ outstanding * MAXOPBLOCKS \in Nat
    BY SMTT(30), <1>4, ConstantsAssumption
  <2>4. Len(lh') + outstanding * MAXOPBLOCKS <= LOGSIZE + Cardinality(Charged(wrote, lh'))
    BY SMTT(30), <1>2, <1>4, <1>5, <2>1, <2>2, <2>3 DEF Reserved
  <2> QED BY <1>1, <1>2, <2>4, Zenon DEF Reserved
<1>7. Len(lh') <= LOGSIZE
  <2>1. Cardinality(Charged(wrote, lh')) <= outstanding * MAXOPBLOCKS
    <3>1. Cardinality(Charged(wrote, lh')) <= outstanding * OpBlocks
      BY <1>2, ChargedBound, Zenon DEF Reserved, TypeOK
    <3>2. outstanding * OpBlocks <= outstanding * MAXOPBLOCKS
      BY <1>4, ConstantsAssumption
    <3>3. /\ Cardinality(Charged(wrote, lh')) \in Nat
          /\ outstanding * OpBlocks \in Nat /\ outstanding * MAXOPBLOCKS \in Nat
      BY <1>4, ChargedFinite, ConstantsAssumption
    <3> QED BY <3>1, <3>2, <3>3
  <2>2. Len(lh') + outstanding * MAXOPBLOCKS <= LOGSIZE + Cardinality(Charged(wrote, lh'))
    BY <1>1, <1>4, <1>6, Zenon DEF Reserved
  <2>3. /\ LOGSIZE \in Nat /\ outstanding * MAXOPBLOCKS \in Nat /\ Len(lh') \in Nat
        /\ Cardinality(Charged(wrote, lh')) \in Nat
    BY <1>4, <1>5, ConstantsAssumption, ChargedFinite
  <2> QED BY <2>1, <2>2, <2>3
<1>8. TypeOK'
  BY <1>1, <1>2, <1>5, <1>7, ZenonT(60) DEF TypeOK, PCs
<1>9. Control'
  BY SMTT(30), <1>1, <1>2, <1>4, ConstantsAssumption DEF Control, CommitPCs, TypeOK
<1>10. Running'
  <2>1. \A c \in Blocks : cache[c] = disk[c] \/ In(c, lh') \/ \E q \in Procs : held'[q] = c
    <3> SUFFICES ASSUME NEW c \in Blocks, c # b
                 PROVE  cache[c] = disk[c] \/ In(c, lh') \/ \E q \in Procs : held'[q] = c
      BY <1>5, Zenon
    <3>1. cache[c] = disk[c] \/ In(c, lh) \/ \E q \in Procs : held[q] = c
      BY <1>2, Zenon DEF Running
    <3>2. ASSUME NEW q \in Procs, held[q] = c PROVE held'[q] = c
      BY <1>1, <1>2, <3>2, Zenon DEF TypeOK
    <3> QED BY <1>5, <3>1, <3>2, Zenon
  <2>2. \A q \in Procs : pc'[q] \notin CommitPCs
    BY <1>1, <1>2, <1>4, Zenon DEF CommitPCs, TypeOK
  <2>3. \A q \in Procs : Progress(pc[q])'
    BY <2>2, Zenon DEF Progress, CommitPCs
  <2>4. tail' = 1 /\ dhead' = <<>> BY <1>1, <1>2, <1>4, Zenon DEF Running
  <2> QED BY SMTT(30), <1>1, <1>4, <2>1, <2>3, <2>4 DEF Running
<1> QED BY <1>1, <1>2, <1>5, <1>6, <1>8, <1>9, <1>10, Zenon DEF IInv

(* end_op(): the blocks of an operation that ends stay in the log, and its *)
(* reservation covered them; the last operation starts commit().           *)
LEMMA EndOpStep ==
  ASSUME IInv, NEW p \in Procs, EndOp(p)
  PROVE  IInv'
<1>1. /\ Up /\ pc[p] = "run" /\ depth[p] > 0
      /\ outstanding' = outstanding - 1
      /\ depth' = [depth EXCEPT ![p] = @ - 1]
      /\ wrote' = [wrote EXCEPT ![p] = IF depth[p] = 1 THEN {} ELSE @]
      /\ UNCHANGED <<disk, dlog, dhead, cache, lh, tail, held, boot>>
  BY Zenon DEF EndOp, At
<1>2. TypeOK /\ Reserved /\ Control /\ Running /\ boot = "up" /\ ~panicked
  BY <1>1, Zenon DEF IInv, Up
<1>3. /\ outstanding \in Nat /\ outstanding > 0 /\ ~committing
      /\ \A q \in Procs : pc[q] \notin CommitPCs
  BY <1>1, NobodyCommits, Zenon
<1>4. /\ UNCHANGED panicked
      /\ \/ /\ outstanding = 1 /\ committing' = TRUE
            /\ pc' = [pc EXCEPT ![p] = IF lh = <<>> THEN "committed" ELSE "write_log"]
         \/ /\ outstanding # 1 /\ UNCHANGED committing
            /\ pc' = [q \in Procs |-> IF q = p THEN "run"
                                      ELSE IF pc[q] = "sleep" THEN "begin_op" ELSE pc[q]]
  BY <1>3, Zenon DEF EndOp, Goto, WakeupAndGoto
<1>5. tail = 1 /\ dhead = <<>> BY <1>2, <1>3, Zenon DEF Running
<1>6. TypeOK'
  <2>1. depth' \in [Procs -> 0 .. MaxDepth]
    <3>1. MaxDepth \in Nat BY ConstantsAssumption
    <3>2. depth[p] - 1 \in 0 .. MaxDepth BY <1>1, <1>2, <3>1 DEF TypeOK
    <3> QED BY <1>1, <1>2, <3>2, Zenon DEF TypeOK
  <2>2. wrote' \in [Procs -> SUBSET Blocks] BY <1>1, <1>2, Zenon DEF TypeOK
  <2>3. pc' \in [Procs -> PCs] BY <1>2, <1>4, Zenon DEF TypeOK, PCs
  <2>4. outstanding' \in Nat BY <1>1, <1>3
  <2>5. committing' \in BOOLEAN /\ panicked' \in BOOLEAN
    BY <1>2, <1>4, ZenonT(60) DEF TypeOK
  <2> QED BY <1>1, <1>2, <2>1, <2>2, <2>3, <2>4, <2>5, Zenon DEF TypeOK
<1>7. Reserved'
  <2>1. outstanding' = Cardinality(Ops(depth'))
    <3>1. Cardinality(Ops(depth')) = Cardinality(Ops(depth)) - 1
      BY <1>1, <1>2, OpsShrink, Zenon DEF TypeOK
    <3> QED BY <1>1, <1>2, <3>1, Zenon DEF Reserved
  <2>2. \A q \in Procs : wrote'[q] # {} => depth'[q] > 0
    <3> SUFFICES ASSUME NEW q \in Procs, wrote'[q] # {} PROVE depth'[q] > 0
      BY Zenon
    <3>1. CASE q # p BY <1>1, <1>2, <3>1, Zenon DEF TypeOK, Reserved
    <3>2. CASE q = p
      <4>1. depth[p] \in Nat /\ depth[p] # 1
        BY <1>1, <1>2, <3>2, ConstantsAssumption DEF TypeOK
      <4>2. depth'[p] = depth[p] - 1 BY <1>1, <1>2, Zenon DEF TypeOK
      <4> QED BY SMTT(30), <1>1, <3>2, <4>1, <4>2
    <3> QED BY <3>1, <3>2, Zenon
  <2>3. \A q \in Procs : Cardinality(wrote'[q]) <= OpBlocks
    <3>1. \A q \in Procs : wrote'[q] = wrote[q] \/ wrote'[q] = {}
      BY <1>1, <1>2, Zenon DEF TypeOK
    <3>2. Cardinality({}) = 0 BY FS_EmptySet, Zenon
    <3>3. 0 <= OpBlocks BY ConstantsAssumption
    <3> QED BY <1>2, <3>1, <3>2, <3>3, Zenon DEF Reserved
  <2> DEFINE rest == Charged(wrote', lh)
  <2>6. Cardinality(rest) \in Nat BY ChargedFinite, Zenon
  <2>7. Cardinality(Charged(wrote, lh)) <= Cardinality(rest) + MAXOPBLOCKS
    <3>1. \A q \in Procs : q # p => wrote'[q] = wrote[q] BY <1>1, <1>2, Zenon DEF TypeOK
    <3>2. Cardinality(Charged(wrote, lh)) <= Cardinality(rest) + OpBlocks
      BY <1>2, <3>1, ChargedEnd, Zenon DEF TypeOK, Reserved
    <3>3. MAXOPBLOCKS \in Nat /\ OpBlocks \in 0 .. MAXOPBLOCKS
          /\ Cardinality(Charged(wrote, lh)) \in Nat
      BY ConstantsAssumption, ChargedFinite, Zenon
    <3> QED BY <2>6, <3>2, <3>3
  <2> HIDE DEF rest
  <2>8. Len(lh) + outstanding' * MAXOPBLOCKS <= LOGSIZE + Cardinality(rest)
    <3>1. /\ Len(lh) \in Nat /\ LOGSIZE \in Nat /\ MAXOPBLOCKS \in Nat
          /\ Cardinality(Charged(wrote, lh)) \in Nat
      BY <1>2, ConstantsAssumption, ChargedFinite DEF TypeOK
    <3>2. outstanding' * MAXOPBLOCKS = outstanding * MAXOPBLOCKS - MAXOPBLOCKS
      BY <1>1, <1>3, <3>1
    <3>3. outstanding * MAXOPBLOCKS \in Nat BY <1>3, <3>1
    <3>4. Len(lh) + outstanding * MAXOPBLOCKS <= LOGSIZE + Cardinality(Charged(wrote, lh))
      BY <1>2, <1>3, Zenon DEF Reserved
    <3> QED BY SMTT(30), <2>6, <2>7, <3>1, <3>2, <3>3, <3>4
  <2>9. outstanding' = 0 <=> \A q \in Procs : depth'[q] = 0
    BY <1>6, <2>1, OpsNone, ZenonT(60) DEF TypeOK
  <2> QED BY <1>1, <2>1, <2>2, <2>3, <2>8, <2>9, ZenonT(60) DEF Reserved, rest
<1>8. Control'
  <2>1. committing' => outstanding' = 0
    <3>1. committing' => outstanding = 1 BY <1>3, <1>4, ZenonT(60)
    <3>2. outstanding = 1 => outstanding' = 0 BY <1>1, <1>3
    <3> QED BY <3>1, <3>2, Zenon
  <2>2. \A q \in Procs : q # p => pc'[q] \notin CommitPCs
    BY <1>2, <1>3, <1>4, Zenon DEF CommitPCs, TypeOK
  <2>3. pc'[p] \in CommitPCs => committing'
    BY <1>2, <1>4, Zenon DEF CommitPCs, TypeOK
  <2>4. pc'[p] \notin {"begin_op", "sleep", "log_write"}
    BY <1>2, <1>4, Zenon DEF TypeOK
  <2>5. \A q \in Procs : q # p => depth'[q] = depth[q] /\ wrote'[q] = wrote[q]
    BY <1>1, <1>2, Zenon DEF TypeOK
  <2>6. \A q \in Procs : q # p => /\ pc'[q] = "log_write" <=> pc[q] = "log_write"
                                  /\ pc'[q] \in {"begin_op", "sleep"} => pc[q] \in {"begin_op", "sleep"}
    BY <1>2, <1>4, Zenon DEF TypeOK
  <2>7. held[p] = NULL BY <1>1, <1>2, Zenon DEF Control
  <2> QED BY SMTT(30), <1>1, <1>2, <1>4, <2>1, <2>2, <2>3, <2>4, <2>5, <2>6, <2>7 DEF Control
<1>9. Running'
  <2>1. outstanding' = 0 /\ ~committing' => lh = <<>> BY SMTT(30), <1>1, <1>3, <1>4
  <2>2. \A q \in Procs : q # p => pc'[q] \notin CommitPCs
    BY <1>2, <1>3, <1>4 DEF CommitPCs, TypeOK
  <2>3. pc'[p] \in {"run", "committed", "write_log"} /\ (pc'[p] = "committed" => lh = <<>>)
    BY <1>2, <1>4, Zenon DEF TypeOK
  <2>4. tail <= Len(lh) + 1 /\ Copied(tail - 1)
    BY <1>2, <1>5 DEF TypeOK, Copied
  <2>5. Progress(pc'[p])
    BY <1>5, <2>3, <2>4, Zenon DEF Progress
  <2>6. \A q \in Procs : Progress(pc'[q])
    BY <2>2, <2>5, Zenon DEF Progress, CommitPCs
  <2> QED BY <1>1, <1>2, <1>5, <2>1, <2>6, KeepRunning, ZenonT(60)
<1> QED BY <1>1, <1>2, <1>4, <1>6, <1>7, <1>8, <1>9, Zenon DEF IInv, Up

(* The machine stops and boots again. *)
LEMMA CrashStep ==
  ASSUME IInv, Crash
  PROVE  IInv'
<1>1. TypeOK /\ Distinct(dhead) BY Zenon DEF IInv
<1>2. /\ lh' = <<>> /\ outstanding' = 0 /\ committing' = FALSE /\ tail' = 1
      /\ boot' = "read_head" /\ panicked' = FALSE /\ cache' = disk
      /\ UNCHANGED <<disk, dlog, dhead>>
  BY Zenon DEF Crash
<1>3. /\ pc' \in [Procs -> PCs] /\ \A p \in Procs : pc'[p] = "run"
      /\ depth' \in [Procs -> 0 .. MaxDepth] /\ \A p \in Procs : depth'[p] = 0
      /\ wrote' \in [Procs -> SUBSET Blocks] /\ \A p \in Procs : wrote'[p] = {}
      /\ held' \in [Procs -> Blocks \cup {NULL}] /\ \A p \in Procs : held'[p] = NULL
  BY ConstantsAssumption DEF Crash, PCs
<1>4. lh' \in Seq(Blocks) /\ Len(lh') = 0 /\ Len(lh') <= LOGSIZE /\ tail' \in 1 .. LOGSIZE + 1
  BY <1>2, ConstantsAssumption
<1>5. TypeOK' BY <1>1, <1>2, <1>3, <1>4, Zenon DEF TypeOK, Boots
<1>6. Reserved'
  <2>1. Cardinality(Ops(depth')) = 0 BY <1>3, OpsNone, Zenon
  <2>2. Cardinality({}) = 0 /\ 0 <= OpBlocks BY FS_EmptySet, ConstantsAssumption
  <2>3. ~(outstanding' > 0) BY <1>2
  <2> QED BY <1>2, <1>3, <2>1, <2>2, <2>3, Zenon DEF Reserved
<1>7. Control' BY <1>2, <1>3, ConstantsAssumption, Zenon DEF Control, CommitPCs
<1>8. Distinct(lh)' /\ Distinct(dhead)' BY <1>1, <1>2 DEF Distinct
<1>9. Booting' BY <1>2, <1>3, Zenon DEF Booting
<1> QED BY <1>2, <1>5, <1>6, <1>7, <1>8, <1>9, Zenon DEF IInv, Up

----------------------------------------------------------------------------
(* Every step of Log keeps the invariant. *)
LEMMA NextIInv == IInv /\ [Next]_vars => IInv'
<1> SUFFICES ASSUME IInv, [Next]_vars PROVE IInv'
  BY Zenon
<1>1. CASE UNCHANGED vars
  <2>1. /\ UNCHANGED <<disk, dlog, dhead, cache, lh, outstanding, committing, tail>>
        /\ UNCHANGED <<pc, depth, wrote, held, boot, panicked>>
    BY <1>1, Zenon DEF vars
  <2>2. TypeOK' BY <2>1, Zenon DEF IInv, TypeOK
  <2>3. Distinct(lh)' /\ Distinct(dhead)' /\ Reserved' BY <2>1, KeepReserved, Zenon DEF IInv
  <2>4. Control' BY <2>1, Zenon DEF IInv, Control
  <2>5. Up' => Running'
    BY <2>1, KeepRunning, Zenon DEF IInv, Up, Running
  <2>6. boot' # "up" => Booting' BY <2>1, Zenon DEF IInv, Booting, Installed
  <2> QED BY <2>2, <2>3, <2>4, <2>5, <2>6, Zenon DEF IInv
<1>2. ASSUME NEW p \in Procs, ProcNext(p) PROVE IInv'
  BY <1>2, CallStep, BeginOpStep, LogWriteTestStep, LogWriteStep, EndOpStep, WriteLogStep,
     WriteHeadStep, InstallTransStep, ClearHeadStep, CommittedStep, ZenonT(60) DEF ProcNext, Commit
<1>3. CASE Recover
  BY <1>3, RecoverReadHeadStep, RecoverInstallStep, RecoverClearStep, Zenon DEF Recover
<1>4. CASE Crash BY <1>4, CrashStep, Zenon
<1> QED BY <1>1, <1>2, <1>3, <1>4, Zenon DEF Next

(* The invariant holds throughout. *)
LEMMA Invariance == Spec => []IInv
  BY InitIInv, NextIInv, PTL DEF Spec

----------------------------------------------------------------------------
(* The log of mkfs.c has as many blocks as LOGSIZE, one of them the header. *)
(* It is enough when an operation never uses its whole reservation: an      *)
(* operation alone started with an empty log or beside another one.         *)
Roomy == OpBlocks < MAXOPBLOCKS /\ LOGSIZE <= NLOG /\ 2 * MAXOPBLOCKS <= LOGSIZE

Alone ==
  outstanding = 1 =>
    Len(lh) + 2 * MAXOPBLOCKS <= LOGSIZE + OpBlocks + Cardinality(Charged(wrote, lh))

Slack == Alone /\ Len(lh) + 2 <= LOGSIZE /\ Len(dhead) + 2 <= LOGSIZE /\ ~panicked

(* While an operation is in progress two blocks of the log are free. *)
LEMMA RoomLeft ==
  ASSUME Roomy, NEW d \in [Procs -> 0 .. MaxDepth], NEW w \in [Procs -> SUBSET Blocks],
         NEW l \in Seq(Blocks), NEW n \in Nat \ {0}, n = Cardinality(Ops(d)),
         \A p \in Procs : (w[p] # {} => d[p] > 0) /\ Cardinality(w[p]) <= OpBlocks,
         Len(l) + n * MAXOPBLOCKS <= LOGSIZE + Cardinality(Charged(w, l)),
         n = 1 => Len(l) + 2 * MAXOPBLOCKS <= LOGSIZE + OpBlocks + Cardinality(Charged(w, l))
  PROVE  Len(l) + 2 <= LOGSIZE
<1> DEFINE charged == Cardinality(Charged(w, l))
<1>1. charged <= n * OpBlocks BY ChargedBound, Zenon
<1>2. /\ charged \in Nat /\ Len(l) \in Nat /\ LOGSIZE \in Nat
      /\ MAXOPBLOCKS \in Nat /\ OpBlocks \in Nat /\ OpBlocks + 1 <= MAXOPBLOCKS
  BY ConstantsAssumption, ChargedFinite DEF Roomy
<1>3. Len(l) + n * MAXOPBLOCKS <= LOGSIZE + charged BY Zenon
<1>4. n = 1 => Len(l) + 2 * MAXOPBLOCKS <= LOGSIZE + OpBlocks + charged BY Zenon
<1> HIDE DEF charged
<1>5. CASE n = 1
  <2>1. n * OpBlocks = OpBlocks BY <1>2, <1>5
  <2> QED BY SMTT(30), <1>1, <1>2, <1>4, <1>5, <2>1
<1>6. CASE n >= 2
  <2>1. n * (OpBlocks + 1) <= n * MAXOPBLOCKS BY SMTT(30), <1>2
  <2>2. n * (OpBlocks + 1) = n * OpBlocks + n BY <1>2
  <2>3. n * OpBlocks \in Nat /\ n * MAXOPBLOCKS \in Nat BY SMTT(30), <1>2
  <2> DEFINE used == n * OpBlocks
             most == n * MAXOPBLOCKS
  <2>4. charged <= used /\ Len(l) + most <= LOGSIZE + charged /\ used + n <= most
    BY <1>1, <1>3, <2>1, <2>2, Zenon
  <2>5. used \in Nat /\ most \in Nat BY <2>3, Zenon
  <2> HIDE DEF used, most
  <2> QED BY SMTT(30), <1>2, <1>6, <2>4, <2>5
<1> QED BY <1>5, <1>6

(* The header on the disk is empty or a copy of lh, and every step of the  *)
(* calls keeps Alone.                                                      *)
LEMMA SlackStep ==
  ASSUME Roomy, IInv, IInv', Slack, [Next]_vars
  PROVE  Slack'
<1>1. /\ LOGSIZE \in Nat /\ MAXOPBLOCKS \in Nat /\ OpBlocks \in Nat
      /\ OpBlocks + 1 <= MAXOPBLOCKS /\ 2 <= LOGSIZE /\ 2 * MAXOPBLOCKS <= LOGSIZE
      /\ LOGSIZE <= NLOG /\ NLOG \in Nat
  BY ConstantsAssumption DEF Roomy
<1>2. TypeOK /\ Reserved /\ Control BY Zenon DEF IInv
<1>3. outstanding \in Nat /\ Len(lh) \in Nat BY <1>2 DEF TypeOK
<1>4. ASSUME Alone', ~panicked', UNCHANGED dhead, outstanding' > 0 \/ UNCHANGED lh
      PROVE  Slack'
  <2>1. outstanding' > 0 => Len(lh') + 2 <= LOGSIZE
    <3>1. TypeOK' /\ Reserved' BY Zenon DEF IInv
    <3>2. /\ depth' \in [Procs -> 0 .. MaxDepth] /\ wrote' \in [Procs -> SUBSET Blocks]
          /\ lh' \in Seq(Blocks) /\ outstanding' \in Nat
      BY <3>1, Zenon DEF TypeOK
    <3>3. /\ outstanding' = Cardinality(Ops(depth'))
          /\ \A q \in Procs : (wrote'[q] # {} => depth'[q] > 0) /\ Cardinality(wrote'[q]) <= OpBlocks
          /\ outstanding' > 0 =>
               Len(lh') + outstanding' * MAXOPBLOCKS <= LOGSIZE + Cardinality(Charged(wrote', lh'))
      BY <3>1, Zenon DEF Reserved
    <3>4. outstanding' = 1 =>
            Len(lh') + 2 * MAXOPBLOCKS <= LOGSIZE + OpBlocks + Cardinality(Charged(wrote', lh'))
      BY <1>4, Zenon DEF Alone
    <3> QED BY SMTT(30), <3>2, <3>3, <3>4, RoomLeft
  <2> QED BY <1>4, <2>1, Zenon DEF Slack
<1>5. CASE UNCHANGED <<lh, outstanding, wrote, dhead, panicked>>
  BY <1>5, Zenon DEF Slack, Alone
<1>6. ASSUME outstanding' = 0, ~panicked', lh' \in {<<>>, lh, dhead}, dhead' \in {<<>>, dhead, lh}
      PROVE  Slack'
  BY <1>1, <1>6 DEF Slack, Alone
<1>7. ASSUME NEW p \in Procs, BeginOp(p) PROVE Slack'
  <2>1. CASE UNCHANGED outstanding BY <1>5, <1>7, <2>1, Zenon DEF BeginOp
  <2>2. CASE ~committing /\ outstanding' = outstanding + 1
    <3>1. outstanding = 0 => lh = <<>>
      BY <1>7, <2>2, Zenon DEF IInv, BeginOp, At, Running
    <3>2. Cardinality(Charged(wrote', lh')) \in Nat BY ChargedFinite, Zenon
    <3>3. UNCHANGED <<lh, wrote, dhead, panicked>> BY <1>7, Zenon DEF BeginOp
    <3>4. Alone'
      <4>1. outstanding' = 1 => Len(lh') = 0 BY SMTT(30), <1>3, <2>2, <3>1, <3>3
      <4> QED BY SMTT(30), <1>1, <3>2, <4>1 DEF Alone
    <3> QED BY <1>4, <3>3, <3>4, Zenon DEF Slack
  <2> QED BY <1>7, <2>1, <2>2, Zenon DEF BeginOp
<1>8. ASSUME NEW p \in Procs, NEW b \in Blocks, NEW x \in Vals, LogWriteTest(p, b, x)
      PROVE  Slack'
  <2>1. /\ UNCHANGED <<lh, outstanding, dhead>> /\ depth[p] > 0
        /\ wrote' = [wrote EXCEPT ![p] = @ \cup {b}]
    BY <1>8, Zenon DEF LogWriteTest
  <2>2. outstanding > 0 BY <2>1, NobodyCommits, Zenon
  <2>3. ~(Len(lh) >= LOGSIZE \/ Len(lh) >= NLOG - 1 \/ outstanding < 1)
    BY <1>1, <1>3, <2>2 DEF Slack
  <2>4. ~panicked' BY <1>8, <2>3, Zenon DEF LogWriteTest, Slack
  <2>5. \A q \in Procs : wrote[q] \subseteq wrote'[q] BY <1>2, <2>1, Zenon DEF TypeOK
  <2>6. Cardinality(Charged(wrote, lh)) <= Cardinality(Charged(wrote', lh))
    BY <2>5, ChargedMore, Zenon
  <2>7. Alone' BY SMTT(30), <1>1, <1>3, <2>1, <2>6, ChargedFinite DEF Slack, Alone
  <2> QED BY <1>4, <2>1, <2>4, <2>7, Zenon
<1>9. ASSUME NEW p \in Procs, LogWrite(p) PROVE Slack'
  <2> DEFINE b == held[p]
  <2>1. /\ UNCHANGED <<outstanding, dhead, wrote, panicked>> /\ pc[p] = "log_write"
        /\ lh' = IF In(b, lh) THEN lh ELSE Append(lh, b)
    BY <1>9, Zenon DEF LogWrite, At, In
  <2>2. b \in wrote[p] /\ b \in Blocks /\ depth[p] > 0 BY <1>2, <2>1, Zenon DEF Control, TypeOK
  <2>3. outstanding > 0 BY <2>2, NobodyCommits, Zenon
  <2>4. CASE In(b, lh) BY <1>5, <2>1, <2>4, Zenon
  <2>5. CASE ~In(b, lh)
    <3>1. Len(lh') = Len(lh) + 1 /\ \A c : In(c, lh') <=> In(c, lh) \/ c = b
      BY <1>2, <2>1, <2>2, <2>5, AppendIn, Zenon DEF TypeOK
    <3>2. Cardinality(Charged(wrote, lh)) + 1 <= Cardinality(Charged(wrote, lh'))
      BY <1>2, <2>2, <2>5, <3>1, ChargedAppend, Zenon DEF TypeOK
    <3> DEFINE old == Cardinality(Charged(wrote, lh))
               new == Cardinality(Charged(wrote', lh'))
    <3>3. old \in Nat /\ new \in Nat /\ old + 1 <= new BY <2>1, <3>2, ChargedFinite, Zenon
    <3>4. outstanding = 1 => Len(lh) + 2 * MAXOPBLOCKS <= LOGSIZE + OpBlocks + old
      BY Zenon DEF Slack, Alone
    <3> HIDE DEF old, new
    <3>5. outstanding' = 1 => Len(lh') + 2 * MAXOPBLOCKS <= LOGSIZE + OpBlocks + new
      <4>1. /\ Len(lh') = Len(lh) + 1 /\ outstanding' = outstanding /\ Len(lh) \in Nat
            /\ LOGSIZE \in Nat /\ MAXOPBLOCKS \in Nat /\ OpBlocks \in Nat
        BY SMTT(30), <1>1, <1>3, <2>1, <3>1
      <4> QED BY SMTT(30), <3>3, <3>4, <4>1
    <3>6. Alone' BY <3>5, Zenon DEF Alone, new
    <3> QED BY <1>4, <2>1, <2>3, <3>6, Zenon DEF Slack
  <2> QED BY <2>4, <2>5, Zenon
<1>10. ASSUME NEW p \in Procs, EndOp(p) PROVE Slack'
  <2>1. /\ UNCHANGED <<lh, dhead>> /\ outstanding' = outstanding - 1 /\ depth[p] > 0
        /\ wrote' = [wrote EXCEPT ![p] = IF depth[p] = 1 THEN {} ELSE @]
    BY <1>10, Zenon DEF EndOp
  <2>2. ~committing BY <2>1, NobodyCommits, Zenon
  <2>3. ~panicked' BY <1>10, <2>2, Zenon DEF EndOp, Slack
  <2>4. \A q \in Procs : q # p => wrote'[q] = wrote[q] BY <1>2, <2>1, Zenon DEF TypeOK
  <2>5. Cardinality(Charged(wrote, lh)) <= Cardinality(Charged(wrote', lh)) + OpBlocks
    BY <1>2, <2>4, ChargedEnd, Zenon DEF TypeOK, Reserved
  <2>6. outstanding' = 1 => Len(lh) + 2 * MAXOPBLOCKS <= LOGSIZE + Cardinality(Charged(wrote, lh))
    BY SMTT(30), <1>1, <1>2, <1>3, <2>1 DEF Reserved
  <2>7. Alone' BY SMTT(30), <1>1, <1>3, <2>1, <2>5, <2>6, ChargedFinite DEF Alone
  <2> QED BY <1>4, <2>1, <2>3, <2>7, Zenon
<1>11. ASSUME NEW p \in Procs, Commit(p) PROVE Slack'
  <2>1. Up /\ pc[p] \in CommitPCs /\ UNCHANGED <<outstanding, panicked>>
    BY <1>11, Zenon DEF Commit, WriteLog, WriteHead, InstallTrans, ClearHead, Committed, At, CommitPCs
  <2>2. lh' \in {<<>>, lh} /\ dhead' \in {<<>>, dhead, lh}
    BY <1>11, Zenon DEF Commit, WriteLog, WriteHead, InstallTrans, ClearHead, Committed
  <2>3. outstanding = 0 BY <2>1, Committing, Zenon
  <2> QED BY <1>6, <2>1, <2>2, <2>3, Zenon DEF Slack
<1>12. CASE Recover
  <2>1. /\ boot # "up" /\ UNCHANGED <<outstanding, panicked>>
        /\ lh' \in {<<>>, lh, dhead} /\ dhead' \in {<<>>, dhead}
    BY <1>12, Zenon DEF Recover, RecoverReadHead, RecoverInstall, RecoverClear
  <2>2. outstanding = 0 BY <1>2, <2>1, Zenon DEF IInv, Booting, Reserved
  <2> QED BY <1>6, <2>1, <2>2, Zenon DEF Slack
<1>13. CASE Crash BY <1>6, <1>13, Zenon DEF Crash
<1>14. ASSUME NEW p \in Procs, Call(p) PROVE Slack' BY <1>5, <1>14, Zenon DEF Call
<1>15. CASE UNCHANGED vars BY <1>5, <1>15, Zenon DEF vars
<1> QED BY <1>7, <1>8, <1>9, <1>10, <1>11, <1>12, <1>13, <1>14, <1>15, ZenonT(60) DEF Next, ProcNext

----------------------------------------------------------------------------
(* begin_op() reserves enough: whatever the processes do, log.lh.n never   *)
(* exceeds LOGSIZE, and no index of log.lh.block, of the header on the     *)
(* disk or of the blocks behind it is out of range.                        *)
THEOREM LogBounded == Spec => []TypeOK
  BY Invariance, PTL DEF IInv

(* While nobody is inside an operation and nothing is being committed, the *)
(* disk holds exactly what the cache shows: end_op() returns only when the *)
(* transaction it committed is installed and erased.                       *)
THEOREM CommittedInstalled == Spec => []QuiescentInstalled
<1>1. IInv => QuiescentInstalled
  <2> SUFFICES ASSUME IInv, boot = "up", outstanding = 0, ~committing
               PROVE  disk = cache /\ dhead = <<>>
    BY Zenon DEF QuiescentInstalled
  <2>1. TypeOK /\ Control /\ Reserved BY ZenonT(60) DEF IInv
  <2>2. Up /\ Running BY <2>1 DEF Control, IInv, Up
  <2>3. \A p \in Procs : depth[p] = 0 BY <2>1, Zenon DEF Reserved
  <2>4. \A p \in Procs : held[p] = NULL BY <2>1, <2>3 DEF Control
  <2>5. lh = <<>> BY <2>2, Zenon DEF Running
  <2>6. \A b \in Blocks : cache[b] = disk[b]
    BY SMTT(30), <2>2, <2>4, <2>5, ConstantsAssumption DEF Running, In
  <2>7. disk = cache BY <2>1, <2>6 DEF TypeOK
  <2>8. dhead = <<>> BY <2>1, <2>2, Zenon DEF Control, Running
  <2> QED BY <2>7, <2>8, Zenon
<1> QED BY <1>1, Invariance, PTL

(* param.h, mkfs.c: when no operation fills its whole reservation, the log *)
(* of the file system image has room for whatever begin_op() lets in:      *)
(* log_write() never panics, though it looks at the size of the log        *)
(* without log.lock, and a block that is in the log already is not spared. *)
THEOREM NeverFull ==
  ASSUME Roomy
  PROVE  Spec => []LogFits
<1>1. Init => Slack
  <2>1. Init => lh = <<>> /\ dhead = <<>> /\ outstanding = 0 /\ panicked = FALSE BY Zenon DEF Init
  <2>2. 2 <= LOGSIZE BY ConstantsAssumption DEF Roomy
  <2> QED BY <2>1, <2>2 DEF Slack, Alone
<1>2. IInv /\ IInv' /\ Slack /\ [Next]_vars => Slack' BY SlackStep, Zenon
<1>3. IInv /\ Slack => LogFits
  <2>1. IInv => Len(lh) \in Nat BY DEF IInv, TypeOK
  <2>2. LOGSIZE <= NLOG /\ LOGSIZE \in Nat /\ NLOG \in Nat BY ConstantsAssumption, Zenon DEF Roomy
  <2> QED BY SMTT(30), <2>1, <2>2 DEF Slack, LogFits
<1> QED BY <1>1, <1>2, <1>3, Invariance, PTL DEF Spec

(* log.c:11-15: operations become durable in groups, none of them half     *)
(* done, whenever the machine crashes and however often recovery is cut    *)
(* short: commit() and recover_from_log() implement AtomicDisk.            *)
THEOREM Atomicity == Spec => AtomicSpec
  BY InitMaps, NextMaps, Invariance, PTL DEF Spec, AtomicSpec, Atomic!Spec
============================================================================
