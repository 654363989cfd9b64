------------------------------- MODULE Bcache -------------------------------
(***************************************************************************)
(* The buffer cache of bio.c on top of the disk driver.  The callers are   *)
(* the file system, which changes a buffer and pins it with log_write(),   *)
(* and the log, which writes buffers to the disk with bwrite().            *)
(*                                                                         *)
(* There is one device, so a buffer is named by its block number.          *)
(***************************************************************************)
EXTENDS Ide

CONSTANTS
  MRU,        \* the list from bcache.head after binit()
  Nest,       \* pairs of blocks a caller locks the second of while it has the first
  MaxPinned,  \* blocks the log lets operations pin: its size
  Changed     \* blocks the callers change; the others they only read

ASSUME BcacheAssumption ==
  /\ IsFiniteSet(Procs)
  /\ Blank \in Vals /\ Errors \subseteq BOOLEAN
  /\ NULL \notin Procs \cup Bufs \cup Blocks \cup Vals
  /\ NULL \notin Command /\ NULL \notin [by : Procs, sees : Vals]
  /\ MRU \in Seq(Bufs) /\ {MRU[i] : i \in DOMAIN MRU} = Bufs
  /\ Len(MRU) = Cardinality(Bufs)
  /\ Nest \subseteq Blocks \X Blocks
  /\ MaxPinned \in Nat
  /\ Changed \subseteq Blocks

VARIABLES
  mru,        \* the list from bcache.head along next
  refcnt,     \* b->refcnt
  locked      \* who has b->lock

bioVars == <<mru, refcnt, locked>>
vars == <<ideVars, bioVars>>

PCs == {"run", "acquiresleep", "lock_sleep", "iderw", "iderw_sleep", "iderw_wake", "brelse"}

TypeOK ==
  /\ IdeTypeOK
  /\ pc \in [Procs -> PCs]
  /\ mru \in Seq(Bufs)
  /\ refcnt \in [Bufs -> Nat]
  /\ locked \in [Bufs -> Procs \cup {NULL}]

(* binit() *)
Init ==
  /\ IdeInit
  /\ mru = MRU
  /\ refcnt = [b \in Bufs |-> 0]
  /\ locked = [b \in Bufs |-> NULL]

Has(p) == {b \in Bufs : locked[b] = p}
Pinned == {b \in Bufs : "DIRTY" \in flags[b]}

----------------------------------------------------------------------------
(* Variant: a buffer the log has pinned is recycled. *)
UnusedOrPinned == {b \in Bufs : refcnt[b] = 0}

(* The buffers bget() may recycle. *)
Unused == {b \in Bufs : refcnt[b] = 0 /\ b \notin Pinned}

(* The loops of bget(): b is the first buffer of the list in S, the last. *)
FirstIn(S, b) ==
  \E i \in DOMAIN mru : mru[i] = b /\ b \in S /\ \A j \in 1 .. i - 1 : mru[j] \notin S
LastIn(S, b) ==
  \E i \in DOMAIN mru : mru[i] = b /\ b \in S /\ \A j \in i + 1 .. Len(mru) : mru[j] \notin S

(* bget(): the block's buffer, or the least recently used one that nobody  *)
(* uses.                                                                   *)
Bget(p, n) ==
  /\ At(p, "run")
  /\ \A b \in Has(p) : <<blockno[b], n>> \in Nest
  /\ LET hits == {b \in Bufs : blockno[b] = n}
         Use(b) == cur' = [cur EXCEPT ![p] = b] /\ Goto(p, "acquiresleep")
     IN \/ \E b \in Bufs :
             /\ FirstIn(hits, b)
             /\ Use(b)
             /\ refcnt' = [refcnt EXCEPT ![b] = @ + 1]
             /\ UNCHANGED <<blockno, flags, panicked>>
        \/ \E b \in Bufs :
             /\ hits = {} /\ LastIn(Unused, b)
             /\ Use(b)
             /\ blockno' = [blockno EXCEPT ![b] = n]
             /\ flags' = [flags EXCEPT ![b] = {}]
             /\ refcnt' = [refcnt EXCEPT ![b] = 1]
             /\ UNCHANGED panicked
        \/ /\ hits = {} /\ Unused = {}
           /\ panicked' = TRUE
           /\ UNCHANGED <<blockno, flags, refcnt, cur, pc>>
  /\ UNCHANGED <<data, idequeue, device, disk, mru, locked>>

(* acquiresleep(&b->lock), then bread() reads the block if it has to. *)
Bread(p) ==
  /\ At(p, "acquiresleep")
  /\ LET b == cur[p] IN
     IF locked[b] # NULL
       THEN Goto(p, "lock_sleep") /\ UNCHANGED <<locked, cur>>
       ELSE /\ locked' = [locked EXCEPT ![b] = p]
            /\ IF "VALID" \in flags[b] THEN Return(p)
                                       ELSE Goto(p, "iderw") /\ UNCHANGED cur
  /\ UNCHANGED <<flags, data, blockno, idequeue, device, disk, panicked, mru, refcnt>>

(* The caller changes the block; log_write() pins it (external: log.c). *)
LogWrite(p, b, x) ==
  /\ At(p, "run") /\ b \in Has(p) /\ blockno[b] \in Changed
  /\ Cardinality(Pinned \cup {b}) <= MaxPinned
  /\ data' = [data EXCEPT ![b] = x]
  /\ flags' = [flags EXCEPT ![b] = @ \cup {"DIRTY"}]
  /\ UNCHANGED <<blockno, idequeue, device, disk, pc, cur, panicked, bioVars>>

(* The log fills a buffer and writes it: bwrite(). *)
Bwrite(p, b, x) ==
  /\ At(p, "run") /\ b \in Has(p) /\ blockno[b] \in Changed
  /\ data' = [data EXCEPT ![b] = x]
  /\ flags' = [flags EXCEPT ![b] = @ \cup {"DIRTY"}]
  /\ cur' = [cur EXCEPT ![p] = b]
  /\ Goto(p, "iderw")
  /\ UNCHANGED <<blockno, idequeue, device, disk, panicked, bioVars>>

(* brelse(): releasesleep() comes first. *)
BrelseUnlock(p, b) ==
  /\ At(p, "run") /\ b \in Has(p)
  /\ locked' = [locked EXCEPT ![b] = NULL]
  /\ cur' = [cur EXCEPT ![p] = b]
  /\ pc' = [q \in Procs |-> CASE q = p -> "brelse"
                              [] pc[q] = "lock_sleep" /\ cur[q] = b -> "acquiresleep"
                              [] OTHER -> pc[q]]
  /\ UNCHANGED <<flags, data, blockno, idequeue, device, disk, panicked, mru, refcnt>>

(* The list with its k-th buffer moved to the front. *)
ToFront(k) ==
  [i \in DOMAIN mru |-> IF i = 1 THEN mru[k] ELSE IF i <= k THEN mru[i - 1] ELSE mru[i]]

(* Variant: only the process that found the buffer in use drops it. *)
BrelseLeaky(p) ==
  /\ At(p, "brelse")
  /\ refcnt' = [refcnt EXCEPT ![cur[p]] = IF @ = 1 THEN 0 ELSE @]
  /\ \E k \in DOMAIN mru :
       mru[k] = cur[p] /\ mru' = IF refcnt[cur[p]] = 1 THEN ToFront(k) ELSE mru
  /\ Return(p)
  /\ UNCHANGED <<flags, data, blockno, idequeue, device, disk, panicked, locked>>

(* brelse() with bcache.lock: the last user moves it to the front. *)
Brelse(p) ==
  /\ At(p, "brelse")
  /\ refcnt' = [refcnt EXCEPT ![cur[p]] = @ - 1]
  /\ \E k \in DOMAIN mru :
       mru[k] = cur[p] /\ mru' = IF refcnt[cur[p]] = 1 THEN ToFront(k) ELSE mru
  /\ Return(p)
  /\ UNCHANGED <<flags, data, blockno, idequeue, device, disk, panicked, locked>>

(* kill() makes a sleeping process runnable, whatever it sleeps on. *)
Kill(p) ==
  /\ ~panicked /\ pc[p] \in {"lock_sleep", "iderw_sleep"}
  /\ Goto(p, IF pc[p] = "lock_sleep" THEN "acquiresleep" ELSE "iderw_wake")
  /\ UNCHANGED <<flags, data, blockno, idequeue, device, disk, cur, panicked, bioVars>>

----------------------------------------------------------------------------
Driver(p) == (Iderw(p) \/ IderwWake(p)) /\ UNCHANGED bioVars
Disk == (DeviceDone \/ Ideintr) /\ UNCHANGED bioVars

Next ==
  \/ \E p \in Procs : Bread(p) \/ Driver(p) \/ Brelse(p) \/ Kill(p)
  \/ \E p \in Procs, n \in Blocks : Bget(p, n)
  \/ \E p \in Procs, b \in Bufs :
       BrelseUnlock(p, b) \/ \E x \in Vals : LogWrite(p, b, x) \/ Bwrite(p, b, x)
  \/ Disk

(* The disk finishes what it is given, and a process inside the cache or   *)
(* the driver keeps running.                                               *)
Spec ==
  /\ Init /\ [][Next]_vars
  /\ WF_vars(Disk)
  /\ \A p \in Procs : WF_vars(Bread(p) \/ Driver(p) \/ Brelse(p))

----------------------------------------------------------------------------
(* The contents of a block: what its buffer holds, once it has been read   *)
(* or changed, and else what the disk holds.                               *)
Content(n) ==
  LET at == {b \in Bufs : blockno[b] = n /\ flags[b] # {}}
  IN IF at = {} THEN disk[n] ELSE data[CHOOSE b \in at : TRUE]

(* The process bread() has returned the buffer to. *)
Lent(n) ==
  LET at == {b \in Bufs : /\ blockno[b] = n /\ locked[b] # NULL
                          /\ "VALID" \in flags[b] \/ pc[locked[b]] = "run"}
  IN IF at = {} THEN NULL
     ELSE LET b == CHOOSE b \in at : TRUE IN [by |-> locked[b], sees |-> data[b]]

Store == INSTANCE BlockStore WITH
  content <- [n \in Blocks |-> Content(n)],
  lent <- [n \in Blocks |-> Lent(n)]

(* bio.c:3-13: a block has one copy, which one process at a time uses; it  *)
(* is never stale and no change is lost, whatever is recycled, read and    *)
(* written meanwhile.                                                      *)
StoreSpec == Store!Spec

(* bget() panics only when the log has pinned or a process is using every  *)
(* buffer, and iderw() always has something to do: no path through         *)
(* bread(), bwrite() and brelse() keeps a buffer.                          *)
PanicOnlyWhenFull ==
  panicked => \A b \in Bufs : b \in Pinned \/ \E p \in Procs : locked[b] = p \/ cur[p] = b

(* iderw() returns: the interrupt wakes the process it was for and starts  *)
(* the next transfer.                                                      *)
TransfersFinish ==
  \A p \in Procs : pc[p] \in {"iderw", "iderw_sleep"} ~> pc[p] = "run" \/ panicked
============================================================================
