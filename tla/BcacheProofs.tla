---------------------------- MODULE BcacheProofs ----------------------------
(***************************************************************************)
(* Proofs about Bcache and Ide, for every set of processes, buffers and    *)
(* blocks: no path through the cache keeps a buffer, and if the disk       *)
(* reports no error the cache implements the block store of BlockStore.    *)
(***************************************************************************)
EXTENDS Bcache, FiniteSetTheorems, TLAPS

USE SMTT(30), ZenonT(60), SMTT(120)

(* The elements of a list. *)
Elems(s) == {s[i] : i \in DOMAIN s}

(* Where a process uses a buffer without its lock, and where it is inside  *)
(* or about to enter iderw().                                              *)
Outside == {"acquiresleep", "lock_sleep", "brelse"}
Waiting == {"iderw_sleep", "iderw_wake"}

Users(b) == {p \in Procs : cur[p] = b /\ pc[p] \in Outside}

(* b->refcnt counts the processes between bget() and the lock, the one     *)
(* with the lock, and those in brelse().                                   *)
Counted(b) == refcnt[b] = Cardinality(Users(b)) + IF locked[b] = NULL THEN 0 ELSE 1

(* A buffer is in use only for a block.  Whoever has its lock has its      *)
(* contents, or is reading them; only such a buffer is changed.            *)
InUse(b) ==
  /\ flags[b] # {} \/ refcnt[b] # 0 => blockno[b] # NULL
  /\ "DIRTY" \in flags[b] => "VALID" \in flags[b] /\ data[b] \in Vals
  /\ locked[b] # NULL =>
       \/ "VALID" \in flags[b]
       \/ pc[locked[b]] \in Waiting \cup {"iderw"} /\ cur[locked[b]] = b

(* In iderw() a process has the lock of its buffer, which is in the queue  *)
(* until the transfer is over.                                             *)
InCall(p) ==
  /\ pc[p] = "run" <=> cur[p] = NULL
  /\ pc[p] \in Waiting \cup {"iderw"} => locked[cur[p]] = p
  /\ pc[p] \in {"iderw", "iderw_sleep"} => flags[cur[p]] # {"VALID"}
  /\ pc[p] = "iderw" => cur[p] \notin Elems(idequeue)
  /\ pc[p] \in Waiting => (flags[cur[p]] # {"VALID"} <=> cur[p] \in Elems(idequeue))

(* The buffers in the queue are distinct, and their processes wait. *)
Queued ==
  /\ \A i, j \in 1 .. Len(idequeue) : idequeue[i] = idequeue[j] => i = j
  /\ \A b \in Elems(idequeue) :
       locked[b] # NULL /\ cur[locked[b]] = b /\ pc[locked[b]] \in Waiting

(* The disk is busy with the first buffer of the queue. *)
Started ==
  /\ device = NULL <=> idequeue = <<>>
  /\ device # NULL =>
       LET b == idequeue[1] IN
       /\ device.block = blockno[b] /\ device.data = data[b]
       /\ device.write <=> "DIRTY" \in flags[b]
       /\ device.write /\ device.done => disk[device.block] = device.data

OneCopy == \A b, c \in Bufs : blockno[b] = blockno[c] /\ blockno[b] # NULL => b = c

(* A buffer that is valid and not changed is what the disk holds. *)
Clean ==
  /\ device # NULL => ~device.err
  /\ \A b \in Bufs :
       /\ flags[b] # {} => data[b] \in Vals
       /\ flags[b] = {"VALID"} => data[b] = disk[blockno[b]]

IInv ==
  /\ TypeOK
  /\ Elems(mru) = Bufs
  /\ \A b \in Bufs : Counted(b) /\ InUse(b)
  /\ \A p \in Procs : InCall(p)
  /\ Queued
  /\ Started
  /\ OneCopy
  /\ panicked => Unused = {}
  /\ Errors = {FALSE} => Clean

----------------------------------------------------------------------------
(* Users are counted one by one. *)
LEMMA UsersFinite ==
  \A b : IsFiniteSet(Users(b)) /\ Cardinality(Users(b)) \in Nat
<1> SUFFICES ASSUME NEW b PROVE IsFiniteSet(Users(b)) /\ Cardinality(Users(b)) \in Nat
  BY Zenon
<1>1. Users(b) \in SUBSET Procs BY Zenon DEF Users
<1>2. IsFiniteSet(Procs) BY BcacheAssumption, Zenon
<1>3. IsFiniteSet(Users(b)) BY <1>1, <1>2, FS_Subset, Zenon
<1> QED BY <1>3, FS_CardinalityType, Zenon

(* When only p moves, a process that comes to use c without its lock is    *)
(* one more, one that leaves or takes the lock one less.                   *)
LEMMA UsersMove ==
  ASSUME NEW p \in Procs, NEW c,
         \A q \in Procs \ {p} : cur'[q] = cur[q] /\ (pc'[q] \in Outside <=> pc[q] \in Outside)
  PROVE  /\ (p \in Users(c) <=> p \in Users(c)') => Users(c)' = Users(c)
         /\ p \notin Users(c) /\ p \in Users(c)' =>
              Cardinality(Users(c)') = Cardinality(Users(c)) + 1
         /\ p \in Users(c) /\ p \notin Users(c)' =>
              Cardinality(Users(c)') = Cardinality(Users(c)) - 1
<1>1. \A q \in Procs \ {p} : q \in Users(c)' <=> q \in Users(c) BY Zenon DEF Users
<1>2. Users(c)' \subseteq Procs /\ Users(c) \subseteq Procs BY Zenon DEF Users
<1>3. IsFiniteSet(Users(c)) BY UsersFinite, Zenon
<1>4. p \notin Users(c) /\ p \in Users(c)' => Users(c)' = Users(c) \cup {p} BY <1>1, <1>2, Zenon
<1>5. p \in Users(c) /\ p \notin Users(c)' => Users(c)' = Users(c) \ {p} BY <1>1, <1>2, Zenon
<1>6. ASSUME p \in Users(c) <=> p \in Users(c)' PROVE Users(c)' = Users(c)
  <2>1. \A q \in Procs : q \in Users(c)' <=> q \in Users(c) BY <1>1, <1>6, Zenon
  <2> QED BY <1>2, <2>1, Zenon
<1>7. /\ p \notin Users(c) => Cardinality(Users(c) \cup {p}) = Cardinality(Users(c)) + 1
      /\ p \in Users(c) => Cardinality(Users(c) \ {p}) = Cardinality(Users(c)) - 1
  BY <1>3, FS_AddElement, FS_RemoveElement, Zenon
<1> QED BY <1>4, <1>5, <1>6, <1>7, Zenon

(* The first of a queue. *)
LEMMA First ==
  ASSUME NEW S, NEW s \in Seq(S), s # <<>>
  PROVE  1 \in 1 .. Len(s) /\ s[1] \in S /\ s[1] \in Elems(s)
<1>1. Len(s) \in Nat \ {0} OBVIOUS
<1>2. 1 \in 1 .. Len(s) /\ DOMAIN s = 1 .. Len(s) BY <1>1
<1>3. s[1] \in S BY <1>2
<1> QED BY <1>2, <1>3, Zenon DEF Elems

(* An unused buffer is nobody's. *)
LEMMA Free ==
  ASSUME IInv, NEW b \in Bufs, refcnt[b] = 0
  PROVE  /\ locked[b] = NULL /\ b \notin Elems(idequeue)
         /\ \A q \in Procs : cur[q] # b
<1>1. Counted(b) BY Zenon DEF IInv
<1>2. locked[b] = NULL /\ Cardinality(Users(b)) = 0 BY <1>1, UsersFinite DEF Counted
<1>3. Users(b) = {} BY <1>2, UsersFinite, FS_EmptySet, Zenon
<1>4. b \notin Elems(idequeue) BY <1>2, Zenon DEF IInv, Queued
<1>5. ASSUME NEW q \in Procs, cur[q] = b PROVE FALSE
  <2>1. pc[q] \notin Outside BY <1>3, <1>5, Zenon DEF Users
  <2>2. pc[q] # "run" BY <1>5, BcacheAssumption, Zenon DEF IInv, InCall
  <2>3. pc[q] \in Waiting \cup {"iderw"}
    BY <2>1, <2>2 DEF IInv, TypeOK, PCs, Outside, Waiting
  <2>4. locked[b] = q BY <1>5, <2>3, Zenon DEF IInv, InCall
  <2> QED BY <1>2, <2>4, BcacheAssumption, Zenon
<1> QED BY <1>2, <1>4, <1>5, Zenon

(* A buffer in use is for a block, and one with a user or a lock is in use. *)
LEMMA Used ==
  ASSUME IInv, NEW b \in Bufs, locked[b] # NULL \/ \E q \in Procs : cur[q] = b
  PROVE  refcnt[b] # 0 /\ blockno[b] \in Blocks
<1>1. refcnt[b] # 0 BY Free, Zenon
<1> QED BY <1>1 DEF IInv, InUse, TypeOK, IdeTypeOK

----------------------------------------------------------------------------
(* The initial state: binit(). *)
LEMMA InitInv == Init => IInv
<1> SUFFICES ASSUME Init PROVE IInv OBVIOUS
<1> USE DEF Init, IdeInit
<1>1. TypeOK
  <2>1. idequeue \in Seq(Bufs) OBVIOUS
  <2>2. /\ flags \in [Bufs -> SUBSET {"VALID", "DIRTY"}] /\ data \in [Bufs -> Vals \cup {NULL}]
        /\ blockno \in [Bufs -> Blocks \cup {NULL}] /\ disk \in [Blocks -> Vals]
        /\ cur \in [Procs -> Bufs \cup {NULL}] /\ pc \in [Procs -> PCs]
        /\ refcnt \in [Bufs -> Nat] /\ locked \in [Bufs -> Procs \cup {NULL}]
    BY BcacheAssumption DEF PCs
  <2>3. mru \in Seq(Bufs) BY BcacheAssumption, Zenon
  <2>4. device \in Command \cup {NULL} /\ panicked \in BOOLEAN BY Zenon
  <2> QED BY <2>1, <2>2, <2>3, <2>4, Zenon DEF TypeOK, IdeTypeOK
<1>2. Elems(mru) = Bufs BY BcacheAssumption, Zenon DEF Elems
<1>3. ASSUME NEW b \in Bufs PROVE Counted(b) /\ InUse(b)
  <2>1. Users(b) = {} BY BcacheAssumption DEF Users, Outside
  <2>2. Cardinality(Users(b)) = 0 BY <2>1, FS_EmptySet, Zenon
  <2> QED BY <2>2 DEF Counted, InUse
<1>4. Elems(idequeue) = {} /\ Len(idequeue) = 0 BY DEF Elems
<1>5. ASSUME NEW p \in Procs PROVE InCall(p)
  BY DEF InCall, Waiting
<1>6. Queued /\ Started BY <1>4 DEF Queued, Started
<1>7. OneCopy BY Zenon DEF OneCopy
<1>8. Clean BY DEF Clean
<1> QED BY <1>1, <1>2, <1>3, <1>5, <1>6, <1>7, <1>8 DEF IInv

----------------------------------------------------------------------------
(* Where p moves with its buffer b, what is said of the other processes    *)
(* and the other buffers stays true.  Unless the flags and locks are the   *)
(* same, b must not be locked by another.                                  *)
LEMMA Others ==
  ASSUME IInv, NEW p \in Procs, NEW b \in Bufs,
         cur[p] \in {b, NULL}, cur'[p] \in {b, NULL},
         \A q \in Procs \ {p} :
           /\ cur'[q] = cur[q]
           /\ \/ pc'[q] = pc[q]
              \/ pc[q] = "lock_sleep" /\ pc'[q] = "acquiresleep",
         \A c \in Bufs \ {b} :
           /\ flags'[c] = flags[c] /\ data'[c] = data[c] /\ blockno'[c] = blockno[c]
           /\ refcnt'[c] = refcnt[c] /\ locked'[c] = locked[c]
           /\ c \in Elems(idequeue') <=> c \in Elems(idequeue),
         locked[b] \in {NULL, p} \/ (flags' = flags /\ locked' = locked /\ idequeue' = idequeue)
  PROVE  /\ \A c \in Bufs \ {b} :
              /\ Counted(c)' /\ InUse(c)'
              /\ c \in Elems(idequeue') =>
                   locked'[c] # NULL /\ cur'[locked'[c]] = c /\ pc'[locked'[c]] \in Waiting
         /\ \A q \in Procs \ {p} :
              InCall(q)' /\ (pc'[q] \in Outside <=> pc[q] \in Outside)
<1>0. /\ locked \in [Bufs -> Procs \cup {NULL}]
      /\ cur \in [Procs -> Bufs \cup {NULL}]
      /\ NULL \notin Bufs /\ NULL \notin Procs
  BY BcacheAssumption, Zenon DEF IInv, TypeOK, IdeTypeOK
<1>1. pc[p] \in Waiting \cup {"iderw"} => cur[p] = b
  <2>1. pc[p] \in Waiting \cup {"iderw"} => pc[p] # "run" BY DEF Waiting
  <2> QED BY <2>1, Zenon DEF IInv, InCall
<1>2. \A q \in Procs \ {p} :
        /\ pc'[q] \in Outside <=> pc[q] \in Outside
        /\ pc'[q] \in Waiting <=> pc[q] \in Waiting
        /\ pc'[q] = "run" <=> pc[q] = "run"
        /\ pc'[q] = "iderw" <=> pc[q] = "iderw"
        /\ pc'[q] = "iderw_sleep" <=> pc[q] = "iderw_sleep"
  BY DEF Outside, Waiting
<1>3. ASSUME NEW c \in Bufs, c # b PROVE Counted(c)'
  <2>0. cur[p] # c /\ cur'[p] # c BY <1>0, <1>3, SMT
  <2>1. p \notin Users(c) /\ p \notin Users(c)' BY <2>0, Zenon DEF Users
  <2>2. Users(c)' = Users(c) BY <1>2, <2>1, UsersMove, Zenon
  <2>3. refcnt'[c] = refcnt[c] /\ locked'[c] = locked[c] BY <1>3, Zenon
  <2> QED BY <2>2, <2>3, ZenonT(60) DEF IInv, Counted
<1>4. ASSUME NEW c \in Bufs, c # b, locked[c] # NULL,
             pc[locked[c]] \in Waiting \cup {"iderw"}, cur[locked[c]] = c
      PROVE  locked[c] \in Procs \ {p}
  <2>1. locked[c] \in Procs BY <1>0, <1>4
  <2> QED BY <1>1, <1>4, <2>1, Zenon
<1>5. ASSUME NEW c \in Bufs, c # b PROVE InUse(c)'
  <2>1. InUse(c) BY Zenon DEF IInv
  <2>2. /\ flags'[c] = flags[c] /\ data'[c] = data[c] /\ blockno'[c] = blockno[c]
        /\ refcnt'[c] = refcnt[c] /\ locked'[c] = locked[c]
    BY <1>5, Zenon
  <2>3. locked[c] # NULL /\ "VALID" \notin flags[c] =>
          pc'[locked[c]] \in Waiting \cup {"iderw"} /\ cur'[locked[c]] = c
    BY <1>2, <1>4, <1>5, <2>1, Zenon DEF InUse
  <2> QED BY <2>1, <2>2, <2>3, Zenon DEF InUse
<1>6. ASSUME NEW c \in Bufs, c # b, c \in Elems(idequeue')
      PROVE  locked'[c] # NULL /\ cur'[locked'[c]] = c /\ pc'[locked'[c]] \in Waiting
  <2>1. locked'[c] = locked[c] /\ c \in Elems(idequeue) BY <1>6, Zenon
  <2>2. locked[c] # NULL /\ cur[locked[c]] = c /\ pc[locked[c]] \in Waiting
    BY <2>1, Zenon DEF IInv, Queued
  <2>3. locked[c] \in Procs \ {p} BY <1>4, <1>6, <2>2, Zenon
  <2> QED BY <1>2, <2>1, <2>2, <2>3, ZenonT(60)
<1>7. ASSUME NEW q \in Procs, q # p PROVE InCall(q)'
  <2>1. InCall(q) BY Zenon DEF IInv
  <2>2. cur'[q] = cur[q] BY <1>7, Zenon
  <2>3. pc'[q] = "run" <=> cur'[q] = NULL BY <1>2, <1>7, <2>1, <2>2, Zenon DEF InCall
  <2>4. CASE pc[q] \in Waiting \cup {"iderw"}
    <3>1. pc[q] # "run" BY <2>4 DEF Waiting
    <3>2. cur[q] \in Bufs /\ locked[cur[q]] = q BY <1>0, <2>1, <2>4, <3>1 DEF InCall
    <3>3. /\ flags'[cur[q]] = flags[cur[q]] /\ locked'[cur[q]] = locked[cur[q]]
          /\ cur[q] \in Elems(idequeue') <=> cur[q] \in Elems(idequeue)
      <4>1. CASE cur[q] # b BY <3>2, <4>1, Zenon
      <4>2. CASE cur[q] = b
        <5>1. locked[b] \notin {NULL, p} BY <1>0, <1>7, <3>2, <4>2, SMT
        <5> QED BY <5>1, Zenon
      <4> QED BY <4>1, <4>2, Zenon
    <3> QED BY <1>2, <1>7, <2>1, <2>2, <2>3, <3>3, Zenon DEF InCall
  <2>5. CASE pc[q] \notin Waiting \cup {"iderw"}
    <3>1. pc'[q] \notin Waiting \cup {"iderw"} BY <1>2, <1>7, <2>5, Zenon
    <3>2. pc'[q] # "iderw_sleep" /\ pc'[q] # "iderw" /\ pc'[q] \notin Waiting
      BY <3>1 DEF Waiting
    <3> QED BY <2>3, <3>1, <3>2, Zenon DEF InCall
  <2> QED BY <2>4, <2>5, Zenon
<1> QED BY <1>2, <1>3, <1>5, <1>6, <1>7, Zenon

(* What is left to show then, where the queue stays as it is. *)
LEMMA Rest ==
  ASSUME IInv, NEW p \in Procs, NEW b \in Bufs, TypeOK', OneCopy',
         idequeue' = idequeue, device' = device, disk' = disk, panicked' = panicked, ~panicked,
         \A c \in Bufs \ {b} :
              /\ Counted(c)' /\ InUse(c)'
              /\ c \in Elems(idequeue') =>
                   locked'[c] # NULL /\ cur'[locked'[c]] = c /\ pc'[locked'[c]] \in Waiting,
         \A q \in Procs \ {p} : InCall(q)',
         \A c \in Bufs \ {b} :
           flags'[c] = flags[c] /\ data'[c] = data[c] /\ blockno'[c] = blockno[c],
         b \in Elems(idequeue) =>
           /\ flags'[b] = flags[b] /\ data'[b] = data[b] /\ blockno'[b] = blockno[b]
           /\ locked'[b] # NULL /\ cur'[locked'[b]] = b /\ pc'[locked'[b]] \in Waiting,
         Elems(mru') = Bufs, Counted(b)', InUse(b)', InCall(p)',
         Errors = {FALSE} =>
           /\ flags'[b] # {} => data'[b] \in Vals
           /\ flags'[b] = {"VALID"} => data'[b] = disk[blockno'[b]]
  PROVE  IInv'
<1>1. Queued'
  <2>1. \A c \in Elems(idequeue) : c \in Bufs BY DEF IInv, TypeOK, IdeTypeOK, Elems
  <2>2. \A c \in Elems(idequeue') :
          locked'[c] # NULL /\ cur'[locked'[c]] = c /\ pc'[locked'[c]] \in Waiting
    BY <2>1, Zenon
  <2> QED BY <2>2, ZenonT(60) DEF IInv, Queued
<1>2. Started'
  <2>1. idequeue # <<>> => idequeue[1] \in Elems(idequeue) /\ idequeue[1] \in Bufs
    BY First, Zenon DEF IInv, TypeOK, IdeTypeOK
  <2>2. idequeue # <<>> => /\ flags'[idequeue[1]] = flags[idequeue[1]]
                           /\ data'[idequeue[1]] = data[idequeue[1]]
                           /\ blockno'[idequeue[1]] = blockno[idequeue[1]]
    BY <2>1, Zenon
  <2> QED BY <2>2, Zenon DEF IInv, Started
<1>3. Errors = {FALSE} => Clean' BY Zenon DEF IInv, Clean
<1>4. \A c \in Bufs : Counted(c)' /\ InUse(c)' BY Zenon
<1>5. \A q \in Procs : InCall(q)' BY Zenon
<1> QED BY <1>1, <1>2, <1>3, <1>4, <1>5, Zenon DEF IInv

(* What the invariant says of the types. *)
LEMMA Types ==
  ASSUME IInv
  PROVE  /\ pc \in [Procs -> PCs] /\ cur \in [Procs -> Bufs \cup {NULL}]
         /\ locked \in [Bufs -> Procs \cup {NULL}] /\ refcnt \in [Bufs -> Nat]
         /\ flags \in [Bufs -> SUBSET {"VALID", "DIRTY"}]
         /\ data \in [Bufs -> Vals \cup {NULL}]
         /\ blockno \in [Bufs -> Blocks \cup {NULL}]
         /\ NULL \notin Bufs /\ NULL \notin Procs /\ NULL \notin Blocks /\ NULL \notin Vals
BY BcacheAssumption, Zenon DEF IInv, TypeOK, IdeTypeOK

----------------------------------------------------------------------------
(* One process moves on without changing what it uses: it goes to sleep,   *)
(* or it wakes up, by a wakeup() or by kill().                             *)
LEMMA MoveInv ==
  ASSUME IInv, NEW p \in Procs, NEW l,
         pc' = [pc EXCEPT ![p] = l],
         UNCHANGED <<flags, data, blockno, idequeue, device, disk, cur, panicked, bioVars>>,
         \/ pc[p] \in {"acquiresleep", "lock_sleep"} /\ l \in {"acquiresleep", "lock_sleep"}
         \/ pc[p] = "iderw_sleep" /\ l = "iderw_wake"
         \/ pc[p] = "iderw_wake" /\ l = "iderw_sleep" /\ flags[cur[p]] # {"VALID"}
  PROVE  IInv'
<1> USE DEF bioVars
<1>0. pc \in [Procs -> PCs] BY Zenon DEF IInv, TypeOK
<1>1. TypeOK' BY <1>0 DEF IInv, TypeOK, IdeTypeOK, PCs
<1>2. \A q \in Procs : q # p => pc'[q] = pc[q] BY <1>0
<1>3. pc'[p] = l BY <1>0
<1>4. /\ \A q \in Procs : pc'[q] \in Outside <=> pc[q] \in Outside
      /\ \A q \in Procs : pc'[q] \in Waiting <=> pc[q] \in Waiting
      /\ \A q \in Procs : pc'[q] = "iderw" <=> pc[q] = "iderw"
      /\ \A q \in Procs : pc'[q] = "run" <=> pc[q] = "run"
  BY <1>2, <1>3 DEF Outside, Waiting
<1>5. \A b \in Bufs : Users(b)' = Users(b) BY <1>4, Zenon DEF Users
<1>6. \A b \in Bufs : Counted(b)' BY <1>5, Zenon DEF IInv, Counted
<1>7. ASSUME NEW b \in Bufs PROVE InUse(b)'
  <2>1. InUse(b) BY Zenon DEF IInv
  <2>2. locked[b] # NULL => locked[b] \in Procs BY DEF IInv, TypeOK
  <2>3. locked[b] # NULL /\ pc[locked[b]] \in Waiting \cup {"iderw"} =>
          pc'[locked[b]] \in Waiting \cup {"iderw"}
    BY <1>4, <2>2, Zenon
  <2> QED BY <2>1, <2>2, <2>3, Zenon DEF InUse
<1>8. ASSUME NEW q \in Procs PROVE InCall(q)'
  <2>1. InCall(q) BY Zenon DEF IInv
  <2>2. pc'[q] \in {"iderw", "iderw_sleep"} => flags[cur[q]] # {"VALID"}
    BY <1>2, <1>3, <2>1 DEF InCall
  <2> QED BY <1>4, <2>1, <2>2, Zenon DEF InCall
<1>9. Queued'
  <2>1. \A b \in Elems(idequeue) : locked[b] # NULL => locked[b] \in Procs
    BY DEF IInv, TypeOK, IdeTypeOK, Elems
  <2> QED BY <1>4, <2>1, ZenonT(60) DEF IInv, Queued
<1>10. Started' /\ OneCopy' /\ (panicked' => Unused' = {}) /\ (Errors = {FALSE} => Clean')
  BY Zenon DEF IInv, Started, OneCopy, Unused, Pinned, Clean
<1> QED BY <1>1, <1>6, <1>7, <1>8, <1>9, <1>10, Zenon DEF IInv

(* acquiresleep(), and what bread() does next. *)
LEMMA BreadInv == ASSUME IInv, NEW p \in Procs, Bread(p) PROVE IInv'
<1>0. pc[p] = "acquiresleep" /\ ~panicked BY Zenon DEF Bread, At
<1>b. PICK b : b = cur[p] OBVIOUS
<1>1. CASE locked[b] # NULL
  BY <1>b, <1>0, <1>1, MoveInv, Zenon DEF Bread, Goto, bioVars
<1>2. CASE locked[b] = NULL
  <2>1. b \in Bufs BY <1>b, <1>0, Types, ZenonT(60) DEF IInv, InCall
  <2>2. /\ locked' = [locked EXCEPT ![b] = p]
        /\ \/ "VALID" \in flags[b] /\ pc' = [pc EXCEPT ![p] = "run"]
              /\ cur' = [cur EXCEPT ![p] = NULL]
           \/ "VALID" \notin flags[b] /\ pc' = [pc EXCEPT ![p] = "iderw"] /\ cur' = cur
        /\ UNCHANGED <<flags, data, blockno, idequeue, device, disk, panicked, mru, refcnt>>
    BY <1>b, <1>2, Zenon DEF Bread, Goto, Return
  <2>3. TypeOK'
    <3>1. /\ locked' \in [Bufs -> Procs \cup {NULL}]
          /\ pc' \in [Procs -> PCs] /\ cur' \in [Procs -> Bufs \cup {NULL}]
      BY <2>1, <2>2, Types DEF PCs
    <3> QED BY <2>2, <3>1, Zenon DEF IInv, TypeOK, IdeTypeOK
  <2>4. b \notin Elems(idequeue) BY <1>2, Zenon DEF IInv, Queued
  <2>5. refcnt[b] # 0 /\ blockno[b] # NULL BY <1>b, <2>1, Used, Types, Zenon
  <2>6. /\ \A q \in Procs \ {p} : pc'[q] = pc[q] /\ cur'[q] = cur[q]
        /\ \A c \in Bufs \ {b} : locked'[c] = locked[c]
        /\ locked'[b] = p
        /\ "VALID" \in flags[b] => pc'[p] = "run" /\ cur'[p] = NULL
        /\ "VALID" \notin flags[b] => pc'[p] = "iderw" /\ cur'[p] = b
    BY <1>b, <2>1, <2>2, Types
  <2>7. /\ \A c \in Bufs \ {b} :
             /\ Counted(c)' /\ InUse(c)'
             /\ c \in Elems(idequeue') =>
                  locked'[c] # NULL /\ cur'[locked'[c]] = c /\ pc'[locked'[c]] \in Waiting
        /\ \A q \in Procs \ {p} : InCall(q)' /\ (pc'[q] \in Outside <=> pc[q] \in Outside)
    BY <1>b, <1>2, <2>1, <2>2, <2>6, Others, ZenonT(60)
  <2>8. Counted(b)'
    <3>1. p \in Users(b) /\ p \notin Users(b)' BY <1>b, <1>0, <2>6 DEF Users, Outside
    <3>2. Cardinality(Users(b)') = Cardinality(Users(b)) - 1 BY <2>6, <2>7, <3>1, UsersMove, Zenon
    <3>3. refcnt[b] = Cardinality(Users(b)) + 0 BY <1>2, <2>1, Zenon DEF IInv, Counted
    <3>4. locked'[b] # NULL BY <2>6, Types, Zenon
    <3>5. refcnt'[b] = Cardinality(Users(b)') + 1 BY <2>2, <3>2, <3>3, UsersFinite
    <3> QED BY <3>4, <3>5, Zenon DEF Counted
  <2>9. InUse(b)'
    <3>1. InUse(b) BY <2>1, Zenon DEF IInv
    <3> QED BY <2>2, <2>5, <2>6, <3>1, Zenon DEF InUse
  <2>10. InCall(p)'
    <3>1. "VALID" \notin flags[b] => flags[b] # {"VALID"} BY Zenon
    <3> QED BY <2>1, <2>2, <2>4, <2>6, <3>1, Types DEF InCall, Waiting
  <2>11. Errors = {FALSE} => /\ flags'[b] # {} => data'[b] \in Vals
                             /\ flags'[b] = {"VALID"} => data'[b] = disk[blockno'[b]]
    BY <2>1, <2>2, Zenon DEF IInv, Clean
  <2>12. Elems(mru') = Bufs /\ OneCopy' BY <2>2, Zenon DEF IInv, OneCopy
  <2> QED BY <1>0, <2>1, <2>2, <2>3, <2>4, <2>7, <2>8, <2>9, <2>10, <2>11, <2>12, Rest, Zenon
<1> QED BY <1>1, <1>2, Zenon

(* log_write() and bwrite() by the process that has the lock. *)
LEMMA ChangeInv ==
  ASSUME IInv, NEW p \in Procs, NEW b \in Bufs, NEW x \in Vals,
         LogWrite(p, b, x) \/ Bwrite(p, b, x)
  PROVE  IInv'
<1>0. /\ ~panicked /\ pc[p] = "run" /\ locked[b] = p
      /\ data' = [data EXCEPT ![b] = x]
      /\ flags' = [flags EXCEPT ![b] = @ \cup {"DIRTY"}]
      /\ \/ pc' = pc /\ cur' = cur
         \/ pc' = [pc EXCEPT ![p] = "iderw"] /\ cur' = [cur EXCEPT ![p] = b]
      /\ UNCHANGED <<blockno, idequeue, device, disk, panicked, mru, refcnt, locked>>
  BY Zenon DEF LogWrite, Bwrite, At, Has, Goto, bioVars
<1>1. /\ flags'[b] = flags[b] \cup {"DIRTY"} /\ data'[b] = x
      /\ \A c \in Bufs \ {b} : flags'[c] = flags[c] /\ data'[c] = data[c]
      /\ \A q \in Procs \ {p} : pc'[q] = pc[q] /\ cur'[q] = cur[q]
      /\ \/ pc'[p] = "run" /\ cur'[p] = cur[p]
         \/ pc'[p] = "iderw" /\ cur'[p] = b
  BY <1>0, Types
<1>2. TypeOK'
  <2>1. flags' \in [Bufs -> SUBSET {"VALID", "DIRTY"}] /\ data' \in [Bufs -> Vals \cup {NULL}]
    BY <1>0, Types
  <2>2. pc' \in [Procs -> PCs] /\ cur' \in [Procs -> Bufs \cup {NULL}] BY <1>0, Types DEF PCs
  <2> QED BY <1>0, <2>1, <2>2, Zenon DEF IInv, TypeOK, IdeTypeOK
<1>3. cur[p] = NULL BY <1>0, Zenon DEF IInv, InCall
<1>4. "VALID" \in flags[b]
  <2>1. pc[p] \notin Waiting \cup {"iderw"} BY <1>0 DEF Waiting
  <2>2. locked[b] # NULL BY <1>0, Types, Zenon
  <2> QED BY <1>0, <2>1, <2>2, Zenon DEF IInv, InUse
<1>5. b \notin Elems(idequeue)
  <2>1. pc[p] \notin Waiting BY <1>0 DEF Waiting
  <2> QED BY <1>0, <2>1, Zenon DEF IInv, Queued
<1>6. /\ \A c \in Bufs \ {b} :
           /\ Counted(c)' /\ InUse(c)'
           /\ c \in Elems(idequeue') =>
                locked'[c] # NULL /\ cur'[locked'[c]] = c /\ pc'[locked'[c]] \in Waiting
      /\ \A q \in Procs \ {p} : InCall(q)' /\ (pc'[q] \in Outside <=> pc[q] \in Outside)
  <2>1. cur[p] \in {b, NULL} /\ cur'[p] \in {b, NULL} BY <1>1, <1>3, Zenon
  <2>2. locked[b] \in {NULL, p} BY <1>0, Zenon
  <2>3. \A c \in Bufs \ {b} :
           /\ flags'[c] = flags[c] /\ data'[c] = data[c] /\ blockno'[c] = blockno[c]
           /\ refcnt'[c] = refcnt[c] /\ locked'[c] = locked[c]
           /\ c \in Elems(idequeue') <=> c \in Elems(idequeue)
    BY <1>0, <1>1, Zenon
  <2>4. \A q \in Procs \ {p} : /\ cur'[q] = cur[q]
                               /\ \/ pc'[q] = pc[q]
                                  \/ pc[q] = "lock_sleep" /\ pc'[q] = "acquiresleep"
    BY <1>1, Zenon
  <2> QED BY <2>1, <2>2, <2>3, <2>4, Others, Zenon
<1>7. Counted(b)'
  <2>1. p \notin Users(b) /\ p \notin Users(b)' BY <1>0, <1>1 DEF Users, Outside
  <2>2. \A q \in Procs \ {p} : cur'[q] = cur[q] /\ (pc'[q] \in Outside <=> pc[q] \in Outside)
    BY <1>1, <1>6, Zenon
  <2>3. Users(b)' = Users(b) BY <2>1, <2>2, UsersMove, Zenon
  <2> QED BY <1>0, <2>3, Zenon DEF IInv, Counted
<1>8. InUse(b)'
  <2>0. locked[b] # NULL BY <1>0, Types, Zenon
  <2>1. refcnt[b] # 0 /\ blockno[b] # NULL BY <2>0, Used, Types, Zenon
  <2> QED BY <1>0, <1>1, <1>4, <2>1, Zenon DEF InUse
<1>9. InCall(p)'
  <2>1. flags'[b] # {"VALID"} BY <1>1
  <2>2. CASE pc'[p] = "run" /\ cur'[p] = cur[p]
    <3>1. pc'[p] \notin Waiting \cup {"iderw"} /\ pc'[p] \notin {"iderw", "iderw_sleep"}
      BY <2>2 DEF Waiting
    <3> QED BY <1>3, <2>2, <3>1, Zenon DEF InCall
  <2>3. CASE pc'[p] = "iderw" /\ cur'[p] = b
    <3>1. pc'[p] # "run" /\ pc'[p] \notin Waiting BY <2>3 DEF Waiting
    <3>2. b # NULL /\ locked'[b] = p /\ idequeue' = idequeue BY <1>0, Types, Zenon
    <3> QED BY <1>5, <2>1, <2>3, <3>1, <3>2, Zenon DEF InCall
  <2> QED BY <1>1, <2>2, <2>3, Zenon
<1>10. (flags'[b] # {} => data'[b] \in Vals) /\ flags'[b] # {"VALID"} BY <1>1
<1>11. Elems(mru') = Bufs /\ OneCopy' BY <1>0, Zenon DEF IInv, OneCopy
<1>12. /\ idequeue' = idequeue /\ device' = device /\ disk' = disk /\ panicked' = panicked
      /\ blockno' = blockno
  BY <1>0, Zenon
<1> QED BY <1>0, <1>1, <1>2, <1>5, <1>6, <1>7, <1>8, <1>9, <1>10, <1>11, <1>12, Rest, Zenon

(* releasesleep() wakes those who wait for the lock. *)
LEMMA BrelseUnlockInv ==
  ASSUME IInv, NEW p \in Procs, NEW b \in Bufs, BrelseUnlock(p, b) PROVE IInv'
<1>0. /\ ~panicked /\ pc[p] = "run" /\ locked[b] = p
      /\ locked' = [locked EXCEPT ![b] = NULL]
      /\ cur' = [cur EXCEPT ![p] = b]
      /\ pc' = [q \in Procs |-> CASE q = p -> "brelse"
                              [] pc[q] = "lock_sleep" /\ cur[q] = b -> "acquiresleep"
                              [] OTHER -> pc[q]]
      /\ UNCHANGED <<flags, data, blockno, idequeue, device, disk, panicked, mru, refcnt>>
  BY Zenon DEF BrelseUnlock, At, Has
<1>1. /\ locked'[b] = NULL /\ pc'[p] = "brelse" /\ cur'[p] = b
      /\ \A c \in Bufs \ {b} : locked'[c] = locked[c]
      /\ \A q \in Procs \ {p} : cur'[q] = cur[q]
      /\ \A q \in Procs \ {p} : \/ pc'[q] = pc[q]
                                \/ pc[q] = "lock_sleep" /\ pc'[q] = "acquiresleep"
  BY <1>0, Types
<1>2. TypeOK'
  <2>1. pc' \in [Procs -> PCs] BY <1>0, <1>1, Types DEF PCs
  <2> QED BY <1>0, <2>1, Types DEF IInv, TypeOK, IdeTypeOK
<1>3. cur[p] = NULL BY <1>0, Zenon DEF IInv, InCall
<1>4. b \notin Elems(idequeue)
  <2>1. pc[p] \notin Waiting BY <1>0 DEF Waiting
  <2> QED BY <1>0, <2>1, Zenon DEF IInv, Queued
<1>5. /\ \A c \in Bufs \ {b} :
           /\ Counted(c)' /\ InUse(c)'
           /\ c \in Elems(idequeue') =>
                locked'[c] # NULL /\ cur'[locked'[c]] = c /\ pc'[locked'[c]] \in Waiting
      /\ \A q \in Procs \ {p} : InCall(q)' /\ (pc'[q] \in Outside <=> pc[q] \in Outside)
  <2>1. cur[p] \in {b, NULL} /\ cur'[p] \in {b, NULL} BY <1>1, <1>3, Zenon
  <2>2. locked[b] \in {NULL, p} BY <1>0, Zenon
  <2>3. \A c \in Bufs \ {b} :
           /\ flags'[c] = flags[c] /\ data'[c] = data[c] /\ blockno'[c] = blockno[c]
           /\ refcnt'[c] = refcnt[c] /\ locked'[c] = locked[c]
           /\ c \in Elems(idequeue') <=> c \in Elems(idequeue)
    BY <1>0, <1>1, Zenon
  <2>4. \A q \in Procs \ {p} : /\ cur'[q] = cur[q]
                               /\ \/ pc'[q] = pc[q]
                                  \/ pc[q] = "lock_sleep" /\ pc'[q] = "acquiresleep"
    BY <1>1, Zenon
  <2> QED BY <2>1, <2>2, <2>3, <2>4, Others, Zenon
<1>6. Counted(b)'
  <2>1. p \notin Users(b) /\ p \in Users(b)' BY <1>0, <1>1 DEF Users, Outside
  <2>2. Cardinality(Users(b)') = Cardinality(Users(b)) + 1 BY <1>1, <1>5, <2>1, UsersMove, Zenon
  <2>3. locked[b] # NULL BY <1>0, Types, Zenon
  <2>4. refcnt[b] = Cardinality(Users(b)) + 1 BY <2>3, Zenon DEF IInv, Counted
  <2>5. refcnt'[b] = Cardinality(Users(b)') + 0 BY <1>0, <2>2, <2>4, UsersFinite
  <2> QED BY <1>1, <2>5, Zenon DEF Counted
<1>7. InUse(b)' BY <1>0, <1>1, Zenon DEF IInv, InUse
<1>8. InCall(p)' BY <1>1, Types DEF InCall, Waiting
<1>9. Errors = {FALSE} => /\ flags'[b] # {} => data'[b] \in Vals
                          /\ flags'[b] = {"VALID"} => data'[b] = disk[blockno'[b]]
  BY <1>0, Zenon DEF IInv, Clean
<1>10. Elems(mru') = Bufs /\ OneCopy' BY <1>0, Zenon DEF IInv, OneCopy
<1>11. /\ idequeue' = idequeue /\ device' = device /\ disk' = disk /\ panicked' = panicked
       /\ flags' = flags /\ data' = data /\ blockno' = blockno
  BY <1>0, Zenon
<1> QED BY <1>0, <1>1, <1>2, <1>4, <1>5, <1>6, <1>7, <1>8, <1>9, <1>10, <1>11, Rest, Zenon

----------------------------------------------------------------------------
(* brelse() moves a buffer to the front of the list, and loses none. *)
LEMMA Fronted ==
  ASSUME mru \in Seq(Bufs), NEW k \in DOMAIN mru
  PROVE  ToFront(k) \in Seq(Bufs) /\ Elems(ToFront(k)) = Elems(mru)
<1> DEFINE n == Len(mru)
           s == ToFront(k)
<1>1. n \in Nat /\ DOMAIN mru = 1 .. n /\ k \in 1 .. n OBVIOUS
<1>2. /\ \A i \in 1 .. n : mru[i] \in Bufs
      /\ 1 \in 1 .. n
      /\ \A i \in 1 .. n : i # 1 => i - 1 \in 1 .. n
      /\ \A i \in 1 .. n : i < k => /\ i + 1 \in 1 .. n /\ i + 1 # 1 /\ i + 1 <= k
                                    /\ (i + 1) - 1 = i
      /\ \A i \in 1 .. n : i < k \/ i = k \/ (i # 1 /\ ~(i <= k))
  BY <1>1
<1> HIDE DEF n
<1>3. /\ s = [i \in 1 .. n |-> s[i]]
      /\ s[1] = mru[k]
      /\ \A i \in 1 .. n : i # 1 => s[i] = IF i <= k THEN mru[i - 1] ELSE mru[i]
  BY <1>1, <1>2, Zenon DEF ToFront
<1> HIDE DEF s
<1>4. \A i \in 1 .. n : s[i] \in Bufs /\ \E j \in 1 .. n : s[i] = mru[j]
  BY <1>1, <1>2, <1>3, Zenon
<1>5. \A i \in 1 .. n : \E j \in 1 .. n : mru[i] = s[j]
  <2> SUFFICES ASSUME NEW i \in 1 .. n PROVE \E j \in 1 .. n : mru[i] = s[j] BY Zenon
  <2>1. CASE i < k
    <3>1. s[i + 1] = mru[(i + 1) - 1] BY <1>2, <1>3, <2>1, Zenon
    <3> QED BY <1>2, <2>1, <3>1
  <2>2. CASE i = k BY <1>2, <1>3, <2>2, Zenon
  <2>3. CASE i # 1 /\ ~(i <= k) BY <1>3, <2>3, Zenon
  <2> QED BY <1>2, <2>1, <2>2, <2>3, Zenon
<1>6. DOMAIN s = 1 .. n BY <1>3, Zenon
<1>7. s \in Seq(Bufs)
  <2>1. s \in [1 .. n -> Bufs] BY <1>3, <1>4, Zenon
  <2> QED BY <1>1, <2>1
<1>8. Elems(s) = Elems(mru)
  <2>1. Elems(s) = {s[i] : i \in 1 .. n} /\ Elems(mru) = {mru[i] : i \in 1 .. n}
    BY <1>1, <1>6, Zenon DEF Elems
  <2> QED BY <1>4, <1>5, <2>1, ZenonT(60)
<1> QED BY <1>7, <1>8, Zenon DEF s

(* brelse() drops the reference. *)
LEMMA BrelseInv == ASSUME IInv, NEW p \in Procs, Brelse(p) PROVE IInv'
<1>b. PICK b : b = cur[p] OBVIOUS
<1>0. /\ ~panicked /\ pc[p] = "brelse"
      /\ refcnt' = [refcnt EXCEPT ![b] = @ - 1]
      /\ pc' = [pc EXCEPT ![p] = "run"] /\ cur' = [cur EXCEPT ![p] = NULL]
      /\ UNCHANGED <<flags, data, blockno, idequeue, device, disk, panicked, locked>>
  BY <1>b, Zenon DEF Brelse, At, Return, Goto
<1>1. b \in Bufs BY <1>b, <1>0, Types, ZenonT(60) DEF IInv, InCall
<1>2. refcnt[b] # 0 /\ blockno[b] # NULL BY <1>b, <1>1, Used, Types, Zenon
<1>3. /\ \A q \in Procs \ {p} : pc'[q] = pc[q] /\ cur'[q] = cur[q]
      /\ \A c \in Bufs \ {b} : refcnt'[c] = refcnt[c]
      /\ refcnt'[b] = refcnt[b] - 1 /\ pc'[p] = "run" /\ cur'[p] = NULL
  BY <1>0, <1>1, Types
<1>4. mru' \in Seq(Bufs) /\ Elems(mru') = Bufs
  <2>1. mru \in Seq(Bufs) /\ Elems(mru) = Bufs BY Zenon DEF IInv, TypeOK
  <2>2. PICK k \in DOMAIN mru : mru' = IF refcnt[cur[p]] = 1 THEN ToFront(k) ELSE mru
    BY Zenon DEF Brelse
  <2>3. ToFront(k) \in Seq(Bufs) /\ Elems(ToFront(k)) = Bufs BY <2>1, Fronted, Zenon
  <2>4. mru' \in {ToFront(k), mru} BY <2>2, Zenon
  <2> QED BY <2>1, <2>3, <2>4, Zenon
<1>5. TypeOK'
  <2>1. refcnt' \in [Bufs -> Nat] BY <1>0, <1>1, <1>2, Types
  <2>2. pc' \in [Procs -> PCs] /\ cur' \in [Procs -> Bufs \cup {NULL}]
    BY <1>0, Types DEF PCs
  <2> QED BY <1>0, <1>4, <2>1, <2>2, Zenon DEF IInv, TypeOK, IdeTypeOK
<1>6. /\ \A c \in Bufs \ {b} :
           /\ Counted(c)' /\ InUse(c)'
           /\ c \in Elems(idequeue') =>
                locked'[c] # NULL /\ cur'[locked'[c]] = c /\ pc'[locked'[c]] \in Waiting
      /\ \A q \in Procs \ {p} : InCall(q)' /\ (pc'[q] \in Outside <=> pc[q] \in Outside)
  <2>1. cur[p] \in {b, NULL} /\ cur'[p] \in {b, NULL} BY <1>b, <1>3, Zenon
  <2>2. flags' = flags /\ locked' = locked /\ idequeue' = idequeue BY <1>0, Zenon
  <2>3. \A c \in Bufs \ {b} :
           /\ flags'[c] = flags[c] /\ data'[c] = data[c] /\ blockno'[c] = blockno[c]
           /\ refcnt'[c] = refcnt[c] /\ locked'[c] = locked[c]
           /\ c \in Elems(idequeue') <=> c \in Elems(idequeue)
    BY <1>0, <1>3, Zenon
  <2>4. \A q \in Procs \ {p} : /\ cur'[q] = cur[q]
                               /\ \/ pc'[q] = pc[q]
                                  \/ pc[q] = "lock_sleep" /\ pc'[q] = "acquiresleep"
    BY <1>3, Zenon
  <2> QED BY <1>1, <2>1, <2>2, <2>3, <2>4, Others, ZenonT(60)
<1>7. Counted(b)'
  <2>1. p \in Users(b) /\ p \notin Users(b)' BY <1>b, <1>0, <1>3 DEF Users, Outside
  <2>2. \A q \in Procs \ {p} : cur'[q] = cur[q] /\ (pc'[q] \in Outside <=> pc[q] \in Outside)
    BY <1>3, <1>6, Zenon
  <2>3. Cardinality(Users(b)') = Cardinality(Users(b)) - 1 BY <2>1, <2>2, UsersMove, Zenon
  <2>4. refcnt[b] = Cardinality(Users(b)) + IF locked[b] = NULL THEN 0 ELSE 1
    BY <1>1, Zenon DEF IInv, Counted
  <2>5. refcnt'[b] = Cardinality(Users(b)') + IF locked[b] = NULL THEN 0 ELSE 1
    BY <1>3, <2>3, <2>4, UsersFinite
  <2> QED BY <1>0, <2>5, Zenon DEF Counted
<1>8. \A r : locked[b] = r /\ pc[r] \in Waiting \cup {"iderw"} => r # p
  BY <1>0 DEF Waiting
<1>9. InUse(b)'
  <2>1. InUse(b) BY <1>1, Zenon DEF IInv
  <2>2. locked[b] # NULL => locked[b] \in Procs BY <1>1, Types
  <2>3. locked[b] # NULL /\ "VALID" \notin flags[b] =>
          pc'[locked[b]] \in Waiting \cup {"iderw"} /\ cur'[locked[b]] = b
    BY <1>3, <1>8, <2>1, <2>2, Zenon DEF InUse
  <2> QED BY <1>0, <1>2, <2>1, <2>3, Zenon DEF InUse
<1>10. InCall(p)'
  <2>1. pc'[p] \notin Waiting \cup {"iderw"} /\ pc'[p] \notin {"iderw", "iderw_sleep"}
    BY <1>3 DEF Waiting
  <2> QED BY <1>3, <2>1, Zenon DEF InCall
<1>11. b \in Elems(idequeue) =>
         /\ flags'[b] = flags[b] /\ data'[b] = data[b] /\ blockno'[b] = blockno[b]
         /\ locked'[b] # NULL /\ cur'[locked'[b]] = b /\ pc'[locked'[b]] \in Waiting
  <2> SUFFICES ASSUME b \in Elems(idequeue)
               PROVE  locked[b] # NULL /\ cur'[locked[b]] = b /\ pc'[locked[b]] \in Waiting
    BY <1>0, Zenon
  <2>1. locked[b] # NULL /\ cur[locked[b]] = b /\ pc[locked[b]] \in Waiting
    BY Zenon DEF IInv, Queued
  <2>2. locked[b] \in Procs BY <1>1, <2>1, Types
  <2> QED BY <1>3, <1>8, <2>1, <2>2, Zenon
<1>12. OneCopy' BY <1>0, Zenon DEF IInv, OneCopy
<1>13. Errors = {FALSE} => /\ flags'[b] # {} => data'[b] \in Vals
                           /\ flags'[b] = {"VALID"} => data'[b] = disk[blockno'[b]]
  BY <1>0, <1>1, Zenon DEF IInv, Clean
<1>14. /\ idequeue' = idequeue /\ device' = device /\ disk' = disk /\ panicked' = panicked
       /\ flags' = flags /\ data' = data /\ blockno' = blockno
  BY <1>0, Zenon
<1> QED BY <1>0, <1>1, <1>4, <1>5, <1>6, <1>7, <1>9, <1>10, <1>11, <1>12, <1>13, <1>14, Rest, Zenon

(* The loop of iderw(), after a wakeup. *)
LEMMA IderwWakeInv ==
  ASSUME IInv, NEW p \in Procs, IderwWake(p), UNCHANGED bioVars PROVE IInv'
<1>b. PICK b : b = cur[p] OBVIOUS
<1>0. /\ ~panicked /\ pc[p] = "iderw_wake"
      /\ UNCHANGED <<flags, data, blockno, idequeue, device, disk, panicked>>
      /\ UNCHANGED <<mru, refcnt, locked>>
  BY Zenon DEF IderwWake, At, bioVars
<1>1. CASE flags[b] # {"VALID"}
  BY <1>b, <1>0, <1>1, MoveInv, Zenon DEF IderwWake, Goto, bioVars
<1>2. CASE flags[b] = {"VALID"}
  <2>0. pc' = [pc EXCEPT ![p] = "run"] /\ cur' = [cur EXCEPT ![p] = NULL]
    BY <1>b, <1>2, Zenon DEF IderwWake, Return, Goto
  <2>1. /\ b \in Bufs
        /\ locked[b] = p
        /\ flags[b] # {"VALID"} <=> b \in Elems(idequeue)
    <3>1. pc[p] \in Waiting /\ pc[p] # "run" BY <1>0 DEF Waiting
    <3>2. InCall(p) BY Zenon DEF IInv
    <3> QED BY <1>b, <3>1, <3>2, Types, Zenon DEF InCall
  <2>2. /\ \A q \in Procs \ {p} : pc'[q] = pc[q] /\ cur'[q] = cur[q]
        /\ pc'[p] = "run" /\ cur'[p] = NULL
    BY <2>0, Types
  <2>3. TypeOK'
    <3>1. pc' \in [Procs -> PCs] /\ cur' \in [Procs -> Bufs \cup {NULL}]
      BY <2>0, Types DEF PCs
    <3> QED BY <1>0, <3>1, Zenon DEF IInv, TypeOK, IdeTypeOK
  <2>4. /\ \A c \in Bufs \ {b} :
             /\ Counted(c)' /\ InUse(c)'
             /\ c \in Elems(idequeue') =>
                  locked'[c] # NULL /\ cur'[locked'[c]] = c /\ pc'[locked'[c]] \in Waiting
        /\ \A q \in Procs \ {p} : InCall(q)' /\ (pc'[q] \in Outside <=> pc[q] \in Outside)
    <3>1. cur[p] \in {b, NULL} /\ cur'[p] \in {b, NULL} BY <1>b, <2>2, Zenon
    <3>2. locked[b] \in {NULL, p} BY <2>1, Zenon
    <3>3. \A c \in Bufs \ {b} :
             /\ flags'[c] = flags[c] /\ data'[c] = data[c] /\ blockno'[c] = blockno[c]
             /\ refcnt'[c] = refcnt[c] /\ locked'[c] = locked[c]
             /\ c \in Elems(idequeue') <=> c \in Elems(idequeue)
      BY <1>0, Zenon
    <3>4. \A q \in Procs \ {p} : /\ cur'[q] = cur[q]
                                 /\ \/ pc'[q] = pc[q]
                                    \/ pc[q] = "lock_sleep" /\ pc'[q] = "acquiresleep"
      BY <2>2, Zenon
    <3> QED BY <2>1, <3>1, <3>2, <3>3, <3>4, Others, ZenonT(60)
  <2>5. Counted(b)'
    <3>1. p \notin Users(b) /\ p \notin Users(b)' BY <1>0, <2>2 DEF Users, Outside
    <3>2. \A q \in Procs \ {p} : cur'[q] = cur[q] /\ (pc'[q] \in Outside <=> pc[q] \in Outside)
      BY <2>2, <2>4, Zenon
    <3>3. Users(b)' = Users(b) BY <3>1, <3>2, UsersMove, Zenon
    <3> QED BY <1>0, <2>1, <3>3, Zenon DEF IInv, Counted
  <2>6. InUse(b)'
    <3>1. "VALID" \in flags[b] BY <1>2, Zenon
    <3> QED BY <1>0, <2>1, <3>1, Zenon DEF IInv, InUse
  <2>7. InCall(p)'
    <3>1. pc'[p] \notin Waiting \cup {"iderw"} /\ pc'[p] \notin {"iderw", "iderw_sleep"}
      BY <2>2 DEF Waiting
    <3> QED BY <2>2, <3>1, Zenon DEF InCall
  <2>8. OneCopy' /\ Elems(mru') = Bufs BY <1>0, Zenon DEF IInv, OneCopy
  <2>9. Errors = {FALSE} => /\ flags'[b] # {} => data'[b] \in Vals
                            /\ flags'[b] = {"VALID"} => data'[b] = disk[blockno'[b]]
    BY <1>0, <2>1, Zenon DEF IInv, Clean
  <2>10. /\ idequeue' = idequeue /\ device' = device /\ disk' = disk /\ panicked' = panicked
         /\ flags' = flags /\ data' = data /\ blockno' = blockno
    BY <1>0, Zenon
  <2> QED BY <1>0, <1>2, <2>1, <2>3, <2>4, <2>5, <2>6, <2>7, <2>8, <2>9, <2>10, Rest, ZenonT(60)
<1> QED BY <1>1, <1>2, Zenon

(* bget() *)
LEMMA BgetInv == ASSUME IInv, NEW p \in Procs, NEW n \in Blocks, Bget(p, n) PROVE IInv'
<1>0. /\ ~panicked /\ pc[p] = "run" /\ cur[p] = NULL
      /\ UNCHANGED <<data, idequeue, device, disk, mru, locked>>
  BY Zenon DEF Bget, At, IInv, InCall
<1> DEFINE Uses(b) ==
             /\ cur' = [cur EXCEPT ![p] = b] /\ pc' = [pc EXCEPT ![p] = "acquiresleep"]
             /\ UNCHANGED panicked
             /\ \/ /\ blockno[b] = n
                   /\ refcnt' = [refcnt EXCEPT ![b] = @ + 1]
                   /\ UNCHANGED <<blockno, flags>>
                \/ /\ b \in Unused /\ \A c \in Bufs : blockno[c] # n
                   /\ blockno' = [blockno EXCEPT ![b] = n]
                   /\ flags' = [flags EXCEPT ![b] = {}]
                   /\ refcnt' = [refcnt EXCEPT ![b] = 1]
<1>1. \/ \E b \in Bufs : Uses(b)
      \/ Unused = {} /\ panicked' = TRUE /\ UNCHANGED <<blockno, flags, refcnt, cur, pc>>
  <2> DEFINE hits == {b \in Bufs : blockno[b] = n}
  <2>1. hits = {} => \A c \in Bufs : blockno[c] # n BY Zenon
  <2>2. ASSUME NEW b \in Bufs, FirstIn(hits, b) PROVE blockno[b] = n
    BY <2>2, Zenon DEF FirstIn
  <2>3. ASSUME NEW b \in Bufs, LastIn(Unused, b) PROVE b \in Unused
    BY <2>3, Zenon DEF LastIn
  <2> QED BY <2>1, <2>2, <2>3, Zenon DEF Bget, Goto
<1>2. CASE Unused = {} /\ panicked' = TRUE /\ UNCHANGED <<blockno, flags, refcnt, cur, pc>>
  <2>1. UNCHANGED <<flags, data, blockno, idequeue, device, disk, cur, pc, mru, refcnt, locked>>
    BY <1>0, <1>2, Zenon
  <2>2. TypeOK' BY <1>2, <2>1, Zenon DEF IInv, TypeOK, IdeTypeOK
  <2>3. Unused' = {} BY <1>2, <2>1, Zenon DEF Unused, Pinned
  <2>4. /\ \A b \in Bufs : Counted(b)' /\ InUse(b)'
        /\ \A q \in Procs : InCall(q)'
    BY <2>1, Zenon DEF IInv, Counted, Users, InUse, InCall
  <2>5. Queued' /\ Started' /\ OneCopy' /\ (Errors = {FALSE} => Clean') /\ Elems(mru') = Bufs
    BY <2>1, Zenon DEF IInv, Queued, Started, OneCopy, Clean
  <2> QED BY <2>2, <2>3, <2>4, <2>5, Zenon DEF IInv
<1>3. ASSUME NEW b \in Bufs, Uses(b) PROVE IInv'
  <2>0. UNCHANGED <<data, idequeue, device, disk, mru, locked, panicked>>
    BY <1>0, <1>3, Zenon
  <2>1. /\ \A q \in Procs \ {p} : pc'[q] = pc[q] /\ cur'[q] = cur[q]
        /\ pc'[p] = "acquiresleep" /\ cur'[p] = b
        /\ pc' \in [Procs -> PCs] /\ cur' \in [Procs -> Bufs \cup {NULL}]
    BY <1>3, Types DEF PCs
  <2>2. /\ refcnt'[b] = refcnt[b] + 1 /\ blockno'[b] = n
        /\ \A c \in Bufs \ {b} :
             refcnt'[c] = refcnt[c] /\ blockno'[c] = blockno[c] /\ flags'[c] = flags[c]
        /\ blockno' \in [Bufs -> Blocks \cup {NULL}]
        /\ flags' \in [Bufs -> SUBSET {"VALID", "DIRTY"}]
        /\ refcnt' \in [Bufs -> Nat]
    BY <1>3, Types DEF Unused
  <2>3. \/ blockno[b] = n /\ blockno' = blockno /\ flags' = flags
        \/ /\ refcnt[b] = 0 /\ flags'[b] = {} /\ \A c \in Bufs : blockno[c] # n
    BY <1>3, Types DEF Unused
  <2>4. refcnt[b] = 0 =>
          locked[b] = NULL /\ b \notin Elems(idequeue) /\ \A q \in Procs : cur[q] # b
    BY Free, Zenon
  <2>5. b \in Elems(idequeue) => flags'[b] = flags[b] /\ blockno'[b] = blockno[b]
    BY <2>3, <2>4, Zenon
  <2>6. TypeOK' BY <2>0, <2>1, <2>2, Zenon DEF IInv, TypeOK, IdeTypeOK
  <2>7. OneCopy'
    <3>1. OneCopy /\ n # NULL BY Types, Zenon DEF IInv
    <3>2. \A c \in Bufs \ {b} : blockno[c] # n BY <2>3, <3>1, Zenon DEF OneCopy
    <3> SUFFICES ASSUME NEW c \in Bufs, NEW d \in Bufs,
                        blockno'[c] = blockno'[d], blockno'[c] # NULL
                 PROVE  c = d
      BY Zenon DEF OneCopy
    <3>3. c # b /\ d # b => c = d BY <2>2, <3>1, Zenon DEF OneCopy
    <3>4. c = b <=> d = b BY <2>2, <3>2, Zenon
    <3> QED BY <3>3, <3>4, Zenon
  <2>8. /\ \A c \in Bufs \ {b} :
             /\ Counted(c)' /\ InUse(c)'
             /\ c \in Elems(idequeue') =>
                  locked'[c] # NULL /\ cur'[locked'[c]] = c /\ pc'[locked'[c]] \in Waiting
        /\ \A q \in Procs \ {p} : InCall(q)' /\ (pc'[q] \in Outside <=> pc[q] \in Outside)
    <3>1. cur[p] \in {b, NULL} /\ cur'[p] \in {b, NULL} BY <1>0, <2>1, Zenon
    <3>2. locked[b] \in {NULL, p} \/ (flags' = flags /\ locked' = locked /\ idequeue' = idequeue)
      BY <2>0, <2>3, <2>4, Zenon
    <3>3. \A c \in Bufs \ {b} :
             /\ flags'[c] = flags[c] /\ data'[c] = data[c] /\ blockno'[c] = blockno[c]
             /\ refcnt'[c] = refcnt[c] /\ locked'[c] = locked[c]
             /\ c \in Elems(idequeue') <=> c \in Elems(idequeue)
      BY <2>0, <2>2, Zenon
    <3>4. \A q \in Procs \ {p} : /\ cur'[q] = cur[q]
                                 /\ \/ pc'[q] = pc[q]
                                    \/ pc[q] = "lock_sleep" /\ pc'[q] = "acquiresleep"
      BY <2>1, Zenon
    <3> QED BY <3>1, <3>2, <3>3, <3>4, Others, ZenonT(60)
  <2>9. Counted(b)'
    <3>1. p \notin Users(b) /\ p \in Users(b)' BY <1>0, <2>1 DEF Users, Outside
    <3>2. \A q \in Procs \ {p} : cur'[q] = cur[q] /\ (pc'[q] \in Outside <=> pc[q] \in Outside)
      BY <2>1, <2>8, Zenon
    <3>3. Cardinality(Users(b)') = Cardinality(Users(b)) + 1 BY <3>1, <3>2, UsersMove, Zenon
    <3>4. refcnt[b] = Cardinality(Users(b)) + IF locked[b] = NULL THEN 0 ELSE 1
      BY Zenon DEF IInv, Counted
    <3>5. refcnt'[b] = Cardinality(Users(b)') + IF locked[b] = NULL THEN 0 ELSE 1
      BY <2>2, <3>3, <3>4, UsersFinite
    <3> QED BY <2>0, <3>5, Zenon DEF Counted
  <2>10. \A r : locked[b] = r /\ pc[r] \in Waiting \cup {"iderw"} => r # p
    BY <1>0 DEF Waiting
  <2>11. InUse(b)'
    <3>1. InUse(b) BY Zenon DEF IInv
    <3>2. blockno'[b] # NULL BY <2>2, Types, Zenon
    <3>3. CASE refcnt[b] = 0 /\ flags'[b] = {} BY <2>0, <2>4, <3>2, <3>3, Zenon DEF InUse
    <3>4. CASE flags' = flags
      <4>1. locked[b] # NULL => locked[b] \in Procs BY Types
      <4>2. locked[b] # NULL /\ "VALID" \notin flags[b] =>
              pc'[locked[b]] \in Waiting \cup {"iderw"} /\ cur'[locked[b]] = b
        BY <2>1, <2>10, <3>1, <4>1, Zenon DEF InUse
      <4> QED BY <2>0, <3>1, <3>2, <3>4, <4>2, Zenon DEF InUse
    <3> QED BY <2>3, <3>3, <3>4, Zenon
  <2>12. InCall(p)' BY <2>1, Types DEF InCall, Waiting
  <2>13. b \in Elems(idequeue) =>
           /\ flags'[b] = flags[b] /\ data'[b] = data[b] /\ blockno'[b] = blockno[b]
           /\ locked'[b] # NULL /\ cur'[locked'[b]] = b /\ pc'[locked'[b]] \in Waiting
    <3> SUFFICES ASSUME b \in Elems(idequeue)
                 PROVE  locked[b] # NULL /\ cur'[locked[b]] = b /\ pc'[locked[b]] \in Waiting
      BY <2>0, <2>5, Zenon
    <3>1. locked[b] # NULL /\ cur[locked[b]] = b /\ pc[locked[b]] \in Waiting
      BY Zenon DEF IInv, Queued
    <3>2. locked[b] \in Procs BY <3>1, Types
    <3> QED BY <2>1, <2>10, <3>1, <3>2, Zenon
  <2>14. Errors = {FALSE} => /\ flags'[b] # {} => data'[b] \in Vals
                             /\ flags'[b] = {"VALID"} => data'[b] = disk[blockno'[b]]
    BY <2>0, <2>2, <2>3, Zenon DEF IInv, Clean
  <2>15. Elems(mru') = Bufs BY <2>0, Zenon DEF IInv
  <2>16. /\ idequeue' = idequeue /\ device' = device /\ disk' = disk /\ panicked' = panicked
         /\ \A c \in Bufs \ {b} :
              flags'[c] = flags[c] /\ data'[c] = data[c] /\ blockno'[c] = blockno[c]
    BY <2>0, <2>2, Zenon
  <2> QED BY <1>0, <2>6, <2>7, <2>8, <2>9, <2>11, <2>12, <2>13, <2>14, <2>15, <2>16, Rest, ZenonT(60)
<1> QED BY <1>1, <1>2, <1>3, Zenon

----------------------------------------------------------------------------
(* The queue of the driver. *)

(* kill() wakes a process. *)
LEMMA KillInv == ASSUME IInv, NEW p \in Procs, Kill(p) PROVE IInv'
<1>1. CASE pc[p] = "lock_sleep"
  BY <1>1, MoveInv, Zenon DEF Kill, Goto
<1>2. CASE pc[p] = "iderw_sleep"
  <2>1. pc[p] # "lock_sleep" BY <1>2
  <2> QED BY <1>2, <2>1, MoveInv, Zenon DEF Kill, Goto
<1> QED BY <1>1, <1>2, Zenon DEF Kill

(* What iderw() does to the queue, and ideintr(). *)
LEMMA Queue ==
  ASSUME NEW S, NEW s \in Seq(S), NEW b \in S
  PROVE  /\ Append(s, b) \in Seq(S) /\ Elems(Append(s, b)) = Elems(s) \cup {b}
         /\ Append(s, b) # <<>>
         /\ Append(s, b)[1] = IF s = <<>> THEN b ELSE s[1]
         /\ (\A i, j \in 1 .. Len(s) : s[i] = s[j] => i = j) /\ b \notin Elems(s) =>
              \A i, j \in 1 .. Len(Append(s, b)) :
                Append(s, b)[i] = Append(s, b)[j] => i = j
<1> DEFINE t == Append(s, b)
<1>1. /\ t \in Seq(S) /\ Len(t) = Len(s) + 1 /\ t[Len(s) + 1] = b
      /\ \A i \in 1 .. Len(s) : t[i] = s[i]
  OBVIOUS
<1>2. /\ Len(s) \in Nat /\ DOMAIN s = 1 .. Len(s) /\ DOMAIN t = 1 .. Len(s) + 1
      /\ Len(s) + 1 \in 1 .. Len(s) + 1
      /\ \A i : i \in 1 .. Len(s) + 1 <=> (i \in 1 .. Len(s) \/ i = Len(s) + 1)
  BY <1>1
<1> HIDE DEF t
<1>3. Elems(t) = Elems(s) \cup {b} BY <1>1, <1>2, Zenon DEF Elems
<1>4. t # <<>> BY <1>1, <1>2
<1>5. t[1] = IF s = <<>> THEN b ELSE s[1]
  <2>1. CASE s = <<>> BY <1>1, <2>1
  <2>2. CASE s # <<>>
    <3>1. 1 \in 1 .. Len(s) BY <2>2, First, Zenon
    <3> QED BY <1>1, <2>2, <3>1, Zenon
  <2> QED BY <2>1, <2>2, Zenon
<1>6. ASSUME \A i, j \in 1 .. Len(s) : s[i] = s[j] => i = j, b \notin Elems(s)
      PROVE  \A i, j \in 1 .. Len(t) : t[i] = t[j] => i = j
  <2>1. \A i \in 1 .. Len(s) : s[i] # b BY <1>2, <1>6, Zenon DEF Elems
  <2> QED BY <1>1, <1>2, <1>6, <2>1, Zenon
<1> QED BY <1>1, <1>3, <1>4, <1>5, <1>6, Zenon DEF t

(* What ideintr() does to the queue: the first buffer leaves it. *)
LEMMA Dequeue ==
  ASSUME NEW S, NEW s \in Seq(S), s # <<>>,
         \A i, j \in 1 .. Len(s) : s[i] = s[j] => i = j
  PROVE  /\ Head(s) = s[1] /\ Tail(s) \in Seq(S)
         /\ \A c : c \in Elems(Tail(s)) <=> (c \in Elems(s) /\ c # s[1])
         /\ \A i, j \in 1 .. Len(Tail(s)) : Tail(s)[i] = Tail(s)[j] => i = j
         /\ Tail(s) # <<>> => Tail(s)[1] = s[2]
<1> DEFINE t == Tail(s)
<1>0. 1 \in 1 .. Len(s) /\ Len(s) \in Nat /\ DOMAIN s = 1 .. Len(s) BY First
<1>1. /\ Head(s) = s[1] /\ t \in Seq(S) /\ Len(t) = Len(s) - 1
      /\ \A i \in 1 .. Len(s) - 1 : t[i] = s[i + 1]
  BY <1>0
<1>2. DOMAIN t = 1 .. Len(s) - 1 BY <1>1
<1>3. /\ \A i \in 1 .. Len(s) - 1 : i + 1 \in 1 .. Len(s) /\ i + 1 # 1
      /\ \A i \in 1 .. Len(s) : i # 1 => i - 1 \in 1 .. Len(s) - 1 /\ (i - 1) + 1 = i
      /\ \A i, j \in 1 .. Len(s) - 1 : i + 1 = j + 1 => i = j
  BY <1>0
<1> HIDE DEF t
<1>4. ASSUME NEW c PROVE c \in Elems(t) <=> (c \in Elems(s) /\ c # s[1])
  <2>1. ASSUME NEW i \in 1 .. Len(s) - 1, c = t[i] PROVE c \in Elems(s) /\ c # s[1]
    <3>1. c = s[i + 1] BY <1>1, <2>1, Zenon
    <3> QED BY <1>0, <1>3, <3>1, Zenon DEF Elems
  <2>2. ASSUME NEW i \in 1 .. Len(s), c = s[i], c # s[1] PROVE c \in Elems(t)
    <3>1. i - 1 \in 1 .. Len(s) - 1 /\ (i - 1) + 1 = i BY <1>3, <2>2, Zenon
    <3>2. t[i - 1] = s[(i - 1) + 1] BY <1>1, <3>1, Zenon
    <3>3. t[i - 1] = c BY <2>2, <3>1, <3>2
    <3> QED BY <1>2, <3>1, <3>3, Zenon DEF Elems
  <2> QED BY <1>0, <1>2, <2>1, <2>2, Zenon DEF Elems
<1>5. ASSUME NEW i \in 1 .. Len(t), NEW j \in 1 .. Len(t), t[i] = t[j] PROVE i = j
  <2>1. i \in 1 .. Len(s) - 1 /\ j \in 1 .. Len(s) - 1 BY <1>1, <1>5, Zenon
  <2>2. s[i + 1] = s[j + 1] BY <1>1, <1>5, <2>1, Zenon
  <2>3. i + 1 = j + 1 BY <1>3, <2>1, <2>2, Zenon
  <2> QED BY <1>3, <2>1, <2>3, Zenon
<1>6. t # <<>> => t[1] = s[2]
  <2> SUFFICES ASSUME t # <<>> PROVE t[1] = s[2] BY Zenon
  <2>1. 1 \in 1 .. Len(t) BY <1>1, First, Zenon
  <2>2. t[1] = s[1 + 1] BY <1>1, <2>1, Zenon
  <2> QED BY <2>2
<1> QED BY <1>1, <1>4, <1>5, <1>6, Zenon DEF t

(* The command idestart() gives the disk for a buffer in use. *)
LEMMA Starts ==
  ASSUME IInv, NEW b \in Bufs, locked[b] # NULL
  PROVE  LET d == Idestart(b) IN
         /\ d \in Command /\ d # NULL /\ ~d.done /\ ~d.err
         /\ d.block = blockno[b] /\ d.data = data[b]
         /\ d.write <=> "DIRTY" \in flags[b]
<1>1. blockno[b] \in Blocks BY Used, Zenon
<1>2. ("DIRTY" \in flags[b]) \in BOOLEAN /\ data[b] \in Vals \cup {NULL} BY Types
<1>3. Idestart(b) \in Command BY <1>1, <1>2 DEF Idestart, Command
<1>4. Idestart(b) # NULL BY <1>3, BcacheAssumption, Zenon
<1> QED BY <1>3, <1>4, Zenon DEF Idestart

(* iderw(): the buffer is not finished, so it joins the queue. *)
LEMMA IderwInv ==
  ASSUME IInv, NEW p \in Procs, Iderw(p), UNCHANGED bioVars PROVE IInv'
<1>b. PICK b : b = cur[p] OBVIOUS
<1>0. /\ ~panicked /\ pc[p] = "iderw"
      /\ UNCHANGED <<flags, data, blockno, disk, cur, mru, refcnt, locked>>
  BY Zenon DEF Iderw, At, bioVars
<1>1. /\ b \in Bufs /\ locked[b] = p /\ flags[b] # {"VALID"} /\ b \notin Elems(idequeue)
  <2>1. pc[p] # "run" BY <1>0
  <2> QED BY <1>b, <1>0, <2>1, Types, ZenonT(60) DEF IInv, InCall
<1>2. /\ idequeue' = Append(idequeue, b)
      /\ device' = IF idequeue = <<>> THEN Idestart(b) ELSE device
      /\ pc' = [pc EXCEPT ![p] = "iderw_sleep"]
      /\ panicked' = panicked
  BY <1>b, <1>1, Zenon DEF Iderw, Goto
<1>3. /\ \A q \in Procs \ {p} : pc'[q] = pc[q]
      /\ pc'[p] = "iderw_sleep" /\ pc' \in [Procs -> PCs] /\ pc'[p] \in Waiting
  BY <1>2, Types DEF PCs, Waiting
<1>4. /\ idequeue' \in Seq(Bufs) /\ Elems(idequeue') = Elems(idequeue) \cup {b}
      /\ idequeue' # <<>> /\ idequeue'[1] = IF idequeue = <<>> THEN b ELSE idequeue[1]
      /\ \A i, j \in 1 .. Len(idequeue') : idequeue'[i] = idequeue'[j] => i = j
  <2>1. /\ idequeue \in Seq(Bufs)
        /\ \A i, j \in 1 .. Len(idequeue) : idequeue[i] = idequeue[j] => i = j
    BY Zenon DEF IInv, TypeOK, IdeTypeOK, Queued
  <2> DEFINE t == Append(idequeue, b)
  <2>2. /\ t \in Seq(Bufs) /\ Elems(t) = Elems(idequeue) \cup {b}
        /\ t # <<>> /\ t[1] = IF idequeue = <<>> THEN b ELSE idequeue[1]
        /\ (\A i, j \in 1 .. Len(idequeue) : idequeue[i] = idequeue[j] => i = j)
             /\ b \notin Elems(idequeue) =>
               \A i, j \in 1 .. Len(t) : t[i] = t[j] => i = j
    BY <1>1, <2>1, Queue
  <2>3. idequeue' = t BY <1>2, Zenon
  <2> HIDE DEF t
  <2> QED BY <1>1, <2>1, <2>2, <2>3, Zenon
<1>5. LET d == Idestart(b) IN
      /\ d \in Command /\ d # NULL /\ ~d.done /\ ~d.err
      /\ d.block = blockno[b] /\ d.data = data[b]
      /\ d.write <=> "DIRTY" \in flags[b]
  <2>1. locked[b] # NULL BY <1>1, Types, Zenon
  <2> QED BY <1>1, <2>1, Starts, Zenon
<1>6. TypeOK'
  <2>1. device' \in Command \cup {NULL} BY <1>2, <1>5, Zenon DEF IInv, TypeOK, IdeTypeOK
  <2> QED BY <1>0, <1>2, <1>3, <1>4, <2>1, Zenon DEF IInv, TypeOK, IdeTypeOK
<1>7. /\ \A c \in Bufs \ {b} :
           /\ Counted(c)' /\ InUse(c)'
           /\ c \in Elems(idequeue') =>
                locked'[c] # NULL /\ cur'[locked'[c]] = c /\ pc'[locked'[c]] \in Waiting
      /\ \A q \in Procs \ {p} : InCall(q)' /\ (pc'[q] \in Outside <=> pc[q] \in Outside)
  <2>1. cur[p] \in {b, NULL} /\ cur'[p] \in {b, NULL} BY <1>b, <1>0, Zenon
  <2>2. locked[b] \in {NULL, p} BY <1>1, Zenon
  <2>3. \A c \in Bufs \ {b} :
           /\ flags'[c] = flags[c] /\ data'[c] = data[c] /\ blockno'[c] = blockno[c]
           /\ refcnt'[c] = refcnt[c] /\ locked'[c] = locked[c]
           /\ c \in Elems(idequeue') <=> c \in Elems(idequeue)
    BY <1>0, <1>4, Zenon
  <2>4. \A q \in Procs \ {p} : /\ cur'[q] = cur[q]
                               /\ \/ pc'[q] = pc[q]
                                  \/ pc[q] = "lock_sleep" /\ pc'[q] = "acquiresleep"
    BY <1>0, <1>3, Zenon
  <2> QED BY <1>1, <2>1, <2>2, <2>3, <2>4, Others, ZenonT(60)
<1>8. Counted(b)'
  <2>1. p \notin Users(b) /\ p \notin Users(b)' BY <1>0, <1>3 DEF Users, Outside
  <2>2. \A q \in Procs \ {p} : cur'[q] = cur[q] /\ (pc'[q] \in Outside <=> pc[q] \in Outside)
    BY <1>0, <1>7, Zenon
  <2>3. Users(b)' = Users(b) BY <2>1, <2>2, UsersMove, Zenon
  <2> QED BY <1>0, <1>1, <2>3, Zenon DEF IInv, Counted
<1>9. InUse(b)'
  <2>1. InUse(b) BY <1>1, Zenon DEF IInv
  <2> QED BY <1>b, <1>0, <1>1, <1>3, <2>1, Zenon DEF InUse
<1>10. InCall(p)'
  <2>1. pc'[p] # "run" /\ pc'[p] # "iderw" BY <1>3
  <2>2. cur'[p] = b /\ b # NULL BY <1>b, <1>0, <1>1, Types, Zenon
  <2> QED BY <1>0, <1>1, <1>3, <1>4, <2>1, <2>2, Zenon DEF InCall
<1>11. Queued'
  <2>1. locked'[b] # NULL /\ cur'[locked'[b]] = b /\ pc'[locked'[b]] \in Waiting
    BY <1>b, <1>0, <1>1, <1>3, Types, Zenon
  <2>2. \A c \in Elems(idequeue') : c \in Bufs BY <1>4 DEF Elems
  <2> QED BY <1>4, <1>7, <2>1, <2>2, Zenon DEF Queued
<1>12. Started'
  <2>1. CASE idequeue = <<>>
    <3>1. device' = Idestart(b) /\ idequeue'[1] = b BY <1>2, <1>4, <2>1, Zenon
    <3>2. /\ device' # NULL /\ device'.block = blockno[b] /\ device'.data = data[b]
          /\ device'.write <=> "DIRTY" \in flags[b]
          /\ ~device'.done
      BY <1>5, <3>1, Zenon
    <3> QED BY <1>0, <1>4, <3>1, <3>2, Zenon DEF Started
  <2>2. CASE idequeue # <<>>
    <3>1. device' = device /\ idequeue'[1] = idequeue[1] BY <1>2, <1>4, <2>2, Zenon
    <3> QED BY <1>0, <1>4, <2>2, <3>1, Zenon DEF IInv, Started
  <2> QED BY <2>1, <2>2, Zenon
<1>13. Errors = {FALSE} => Clean'
  <2>1. ~Idestart(b).err BY <1>5, Zenon
  <2> QED BY <1>0, <1>2, <2>1, Zenon DEF IInv, Clean
<1>14. OneCopy' /\ Elems(mru') = Bufs /\ ~panicked' BY <1>0, <1>2, Zenon DEF IInv, OneCopy
<1> QED BY <1>6, <1>7, <1>8, <1>9, <1>10, <1>11, <1>12, <1>13, <1>14, ZenonT(60) DEF IInv

(* The disk finishes the command. *)
LEMMA DeviceDoneInv == ASSUME IInv, DeviceDone, UNCHANGED bioVars PROVE IInv'
<1>0. /\ device # NULL /\ ~device.done
      /\ UNCHANGED <<flags, data, blockno, idequeue, pc, cur, panicked, mru, refcnt, locked>>
  BY Zenon DEF DeviceDone, bioVars
<1>1. PICK e \in Errors : device' = [device EXCEPT !.done = TRUE, !.err = e]
  BY Zenon DEF DeviceDone
<1>2. disk' = IF device.write THEN [disk EXCEPT ![device.block] = device.data] ELSE disk
  BY Zenon DEF DeviceDone
<1>3. device \in Command BY <1>0, Zenon DEF IInv, TypeOK, IdeTypeOK
<1>4. e \in BOOLEAN BY BcacheAssumption, Zenon
<1>5. /\ device' \in Command /\ device' # NULL
      /\ device'.write = device.write /\ device'.block = device.block
      /\ device'.data = device.data /\ device'.err = e
  BY <1>1, <1>3, <1>4, BcacheAssumption, Zenon DEF Command
<1> DEFINE b == idequeue[1]
<1>6. /\ idequeue # <<>> /\ b \in Bufs
      /\ device.block = blockno[b] /\ device.data = data[b]
      /\ device.write <=> "DIRTY" \in flags[b]
      /\ device.block \in Blocks
  <2>1. idequeue # <<>> /\ idequeue \in Seq(Bufs) BY <1>0, Zenon DEF IInv, Started, TypeOK, IdeTypeOK
  <2>2. b \in Bufs BY <2>1, First, Zenon
  <2>3. device.block \in Blocks BY <1>3 DEF Command
  <2> QED BY <1>0, <2>1, <2>2, <2>3, Zenon DEF IInv, Started
<1>7. device.write => device.data \in Vals BY <1>6, Zenon DEF IInv, InUse
<1>8. disk \in [Blocks -> Vals] BY Zenon DEF IInv, TypeOK, IdeTypeOK
<1>9. /\ disk' \in [Blocks -> Vals]
      /\ device.write => disk'[device.block] = device.data
      /\ \A n \in Blocks : n # device.block => disk'[n] = disk[n]
      /\ ~device.write => disk' = disk
  BY <1>2, <1>6, <1>7, <1>8
<1>10. TypeOK' BY <1>0, <1>5, <1>9, Zenon DEF IInv, TypeOK, IdeTypeOK
<1>11. /\ \A c \in Bufs : Counted(c)' /\ InUse(c)'
       /\ \A q \in Procs : InCall(q)'
  BY <1>0, Zenon DEF IInv, Counted, Users, InUse, InCall
<1>12. Queued' /\ OneCopy' /\ (panicked' => Unused' = {}) /\ Elems(mru') = Bufs
  BY <1>0, Zenon DEF IInv, Queued, OneCopy, Unused, Pinned
<1>13. Started'
  <2>1. idequeue' = idequeue /\ flags' = flags /\ blockno' = blockno /\ data' = data
    BY <1>0, Zenon
  <2> HIDE DEF b
  <2> QED BY <1>5, <1>6, <1>9, <2>1, Zenon DEF Started, b
<1>14. ASSUME Errors = {FALSE} PROVE Clean'
  <2>1. ~device'.err BY <1>5, <1>14, Zenon
  <2>2. ASSUME NEW c \in Bufs, flags[c] = {"VALID"} PROVE data[c] = disk'[blockno[c]]
    <3>1. data[c] = disk[blockno[c]] BY <1>14, <2>2, Zenon DEF IInv, Clean
    <3>2. blockno[c] \in Blocks BY <2>2, Types, Zenon DEF IInv, InUse
    <3>3. device.write => blockno[c] # device.block
      <4> SUFFICES ASSUME device.write, blockno[c] = device.block PROVE FALSE BY Zenon
      <4>1. blockno[c] = blockno[b] /\ blockno[c] # NULL BY <1>6, <3>2, Types, Zenon
      <4>2. c = b BY <1>6, <4>1, Zenon DEF IInv, OneCopy
      <4>3. "DIRTY" \in flags[c] BY <1>6, <4>2, Zenon
      <4> QED BY <2>2, <4>3
    <3> QED BY <1>9, <3>1, <3>2, <3>3, Zenon
  <2> QED BY <1>0, <1>14, <2>1, <2>2, Zenon DEF IInv, Clean
<1> QED BY <1>10, <1>11, <1>12, <1>13, <1>14, Zenon DEF IInv

(* ideintr(): the first buffer leaves the queue, finished. *)
LEMMA IdeintrInv == ASSUME IInv, Ideintr, UNCHANGED bioVars PROVE IInv'
<1>b. PICK b : b = Head(idequeue) BY Zenon
<1>r. PICK r : r = locked[b] BY Zenon
<1>0. /\ ~panicked /\ device # NULL /\ device.done
      /\ UNCHANGED <<blockno, disk, cur, panicked, mru, refcnt, locked>>
      /\ idequeue' = Tail(idequeue)
  BY Zenon DEF Ideintr, bioVars
<1>1. /\ data' = IF "DIRTY" \in flags[b] \/ device.err
                 THEN data ELSE [data EXCEPT ![b] = disk[device.block]]
      /\ flags' = [flags EXCEPT ![b] = {"VALID"}]
      /\ pc' = [p \in Procs |-> IF pc[p] = "iderw_sleep" /\ cur[p] = b THEN "iderw_wake"
                                                                      ELSE pc[p]]
      /\ device' = IF Tail(idequeue) = <<>> THEN NULL ELSE Idestart(idequeue[2])
  BY <1>b, Zenon DEF Ideintr
<1>2. /\ idequeue \in Seq(Bufs) /\ idequeue # <<>>
      /\ \A i, j \in 1 .. Len(idequeue) : idequeue[i] = idequeue[j] => i = j
  BY <1>0, Zenon DEF IInv, TypeOK, IdeTypeOK, Started, Queued
<1>3. /\ b = idequeue[1] /\ idequeue' \in Seq(Bufs)
      /\ \A c : c \in Elems(idequeue') <=> (c \in Elems(idequeue) /\ c # b)
      /\ \A i, j \in 1 .. Len(idequeue') : idequeue'[i] = idequeue'[j] => i = j
      /\ idequeue' # <<>> => idequeue'[1] = idequeue[2]
  <2> DEFINE t == Tail(idequeue)
  <2>1. /\ Head(idequeue) = idequeue[1] /\ t \in Seq(Bufs)
        /\ \A c : c \in Elems(t) <=> (c \in Elems(idequeue) /\ c # idequeue[1])
        /\ \A i, j \in 1 .. Len(t) : t[i] = t[j] => i = j
        /\ t # <<>> => t[1] = idequeue[2]
    BY <1>2, Dequeue
  <2>2. idequeue' = t BY <1>0, Zenon
  <2> HIDE DEF t
  <2> QED BY <1>b, <2>1, <2>2, Zenon
<1>4. b \in Bufs /\ b \in Elems(idequeue) BY <1>2, <1>3, First, Zenon
<1>5. /\ r \in Procs /\ locked[b] = r /\ cur[r] = b /\ pc[r] \in Waiting
  <2>1. locked[b] # NULL /\ cur[locked[b]] = b /\ pc[locked[b]] \in Waiting
    BY <1>4, Zenon DEF IInv, Queued
  <2>2. locked[b] \in Procs BY <1>4, <2>1, Types
  <2> QED BY <1>r, <2>1, <2>2, Zenon
<1>6. /\ \A q \in Procs \ {r} : pc'[q] = pc[q]
      /\ pc'[r] = "iderw_wake" /\ pc' \in [Procs -> PCs]
  <2>1. ASSUME NEW q \in Procs, pc[q] = "iderw_sleep", cur[q] = b PROVE q = r
    <3>1. pc[q] \in Waiting BY <2>1 DEF Waiting
    <3> QED BY <1>r, <2>1, <3>1, Zenon DEF IInv, InCall
  <2>2. pc[r] = "iderw_sleep" \/ pc[r] = "iderw_wake" BY <1>5, Zenon DEF Waiting
  <2>3. pc' \in [Procs -> PCs] BY <1>1, Types DEF PCs
  <2> QED BY <1>1, <1>5, <2>1, <2>2, <2>3, Zenon
<1>7. /\ device \in Command /\ device.block = blockno[b] /\ device.data = data[b]
      /\ device.write <=> "DIRTY" \in flags[b]
      /\ device.write => disk[device.block] = device.data
      /\ blockno[b] \in Blocks /\ refcnt[b] # 0
  <2>1. device \in Command BY <1>0, Zenon DEF IInv, TypeOK, IdeTypeOK
  <2>2. refcnt[b] # 0 /\ blockno[b] \in Blocks BY <1>4, <1>5, Used, Zenon
  <2> QED BY <1>0, <1>3, <2>1, <2>2, Zenon DEF IInv, Started
<1>8. /\ flags'[b] = {"VALID"} /\ flags' \in [Bufs -> SUBSET {"VALID", "DIRTY"}]
      /\ data' \in [Bufs -> Vals \cup {NULL}]
      /\ \A c \in Bufs \ {b} : flags'[c] = flags[c] /\ data'[c] = data[c]
      /\ ~device.err => data'[b] = disk[blockno[b]] /\ data'[b] \in Vals
  <2>1. disk[blockno[b]] \in Vals BY <1>7 DEF IInv, TypeOK, IdeTypeOK
  <2>2. /\ flags'[b] = {"VALID"} /\ flags' \in [Bufs -> SUBSET {"VALID", "DIRTY"}]
        /\ \A c \in Bufs \ {b} : flags'[c] = flags[c]
    BY <1>1, <1>4, Types
  <2>3. CASE "DIRTY" \in flags[b] \/ device.err
    <3>1. data' = data BY <1>1, <2>3, Zenon
    <3>2. ~device.err => data[b] = disk[blockno[b]] BY <1>7, <2>3, Zenon
    <3> QED BY <2>1, <2>2, <3>1, <3>2, Types, Zenon
  <2>4. CASE ~("DIRTY" \in flags[b] \/ device.err)
    <3>1. data' = [data EXCEPT ![b] = disk[blockno[b]]] BY <1>1, <1>7, <2>4, Zenon
    <3>2. /\ data' \in [Bufs -> Vals \cup {NULL}] /\ data'[b] = disk[blockno[b]]
          /\ \A c \in Bufs \ {b} : data'[c] = data[c]
      BY <1>4, <2>1, <3>1, Types
    <3> QED BY <2>1, <2>2, <3>2, Zenon
  <2> QED BY <2>3, <2>4, Zenon
<1>9. /\ \A c \in Bufs \ {b} :
           /\ Counted(c)' /\ InUse(c)'
           /\ c \in Elems(idequeue') =>
                locked'[c] # NULL /\ cur'[locked'[c]] = c /\ pc'[locked'[c]] \in Waiting
      /\ \A q \in Procs \ {r} : InCall(q)' /\ (pc'[q] \in Outside <=> pc[q] \in Outside)
  <2>1. cur[r] \in {b, NULL} /\ cur'[r] \in {b, NULL} BY <1>0, <1>5, Zenon
  <2>2. locked[b] \in {NULL, r} BY <1>5, Zenon
  <2>3. \A c \in Bufs \ {b} :
           /\ flags'[c] = flags[c] /\ data'[c] = data[c] /\ blockno'[c] = blockno[c]
           /\ refcnt'[c] = refcnt[c] /\ locked'[c] = locked[c]
           /\ c \in Elems(idequeue') <=> c \in Elems(idequeue)
    BY <1>0, <1>3, <1>8, Zenon
  <2>4. \A q \in Procs \ {r} : /\ cur'[q] = cur[q]
                               /\ \/ pc'[q] = pc[q]
                                  \/ pc[q] = "lock_sleep" /\ pc'[q] = "acquiresleep"
    BY <1>0, <1>6, Zenon
  <2> QED BY <1>4, <1>5, <2>1, <2>2, <2>3, <2>4, Others, ZenonT(60)
<1>10. Counted(b)'
  <2>1. r \notin Users(b) /\ r \notin Users(b)' BY <1>5, <1>6 DEF Users, Outside, Waiting
  <2>2. \A q \in Procs \ {r} : cur'[q] = cur[q] /\ (pc'[q] \in Outside <=> pc[q] \in Outside)
    BY <1>0, <1>9, Zenon
  <2>3. Users(b)' = Users(b) BY <1>5, <2>1, <2>2, UsersMove, Zenon
  <2> QED BY <1>0, <1>4, <2>3, Zenon DEF IInv, Counted
<1>11. InUse(b)'
  <2>1. "VALID" \in flags'[b] /\ "DIRTY" \notin flags'[b] BY <1>8
  <2>2. blockno'[b] # NULL BY <1>0, <1>7, Types, Zenon
  <2> QED BY <2>1, <2>2, Zenon DEF InUse
<1>12. InCall(r)'
  <2>1. /\ pc'[r] # "run" /\ pc'[r] # "iderw" /\ pc'[r] # "iderw_sleep" BY <1>6
  <2>2. cur'[r] = b /\ b # NULL /\ locked'[b] = r BY <1>0, <1>4, <1>5, Types, Zenon
  <2> QED BY <1>3, <1>8, <2>1, <2>2, Zenon DEF InCall
<1>13. Queued'
  <2>1. \A c \in Elems(idequeue') : c \in Bufs \ {b} BY <1>3 DEF Elems
  <2> QED BY <1>3, <1>9, <2>1, Zenon DEF Queued
<1>14. Started' /\ TypeOK' /\ (device' # NULL => ~device'.err)
  <2>1. CASE idequeue' = <<>>
    <3>1. device' = NULL BY <1>0, <1>1, <2>1, Zenon
    <3> QED BY <1>0, <1>3, <1>6, <1>8, <2>1, <3>1, Zenon DEF IInv, Started, TypeOK, IdeTypeOK
  <2>2. CASE idequeue' # <<>>
    <3>1. PICK c : c = idequeue'[1] BY Zenon
    <3>2. c \in Bufs /\ c \in Elems(idequeue') BY <1>3, <2>2, <3>1, First, Zenon
    <3>3. c \in Elems(idequeue) /\ c # b BY <1>3, <3>2, Zenon
    <3>4. locked[c] # NULL BY <3>3, Zenon DEF IInv, Queued
    <3>5. device' = Idestart(c) BY <1>0, <1>1, <1>3, <2>2, <3>1, Zenon
    <3>6. /\ device' \in Command /\ device' # NULL /\ ~device'.done /\ ~device'.err
          /\ device'.block = blockno[c] /\ device'.data = data[c]
          /\ device'.write <=> "DIRTY" \in flags[c]
      BY <3>2, <3>4, <3>5, Starts, Zenon
    <3>7. flags'[c] = flags[c] /\ data'[c] = data[c] /\ blockno'[c] = blockno[c]
      BY <1>0, <1>8, <3>2, <3>3, Zenon
    <3>8. Started' BY <2>2, <3>1, <3>6, <3>7, Zenon DEF Started
    <3> QED BY <1>0, <1>3, <1>6, <1>8, <3>6, <3>8, Zenon DEF IInv, TypeOK, IdeTypeOK
  <2> QED BY <2>1, <2>2, Zenon
<1>15. Errors = {FALSE} => Clean'
  <2>1. Errors = {FALSE} => data'[b] = disk[blockno[b]] /\ data'[b] \in Vals
    BY <1>0, <1>8, Zenon DEF IInv, Clean
  <2> QED BY <1>0, <1>8, <1>14, <2>1, ZenonT(60) DEF IInv, Clean
<1>16. OneCopy' /\ Elems(mru') = Bufs /\ ~panicked' BY <1>0, Zenon DEF IInv, OneCopy
<1> QED BY <1>9, <1>10, <1>11, <1>12, <1>13, <1>14, <1>15, <1>16, Zenon DEF IInv

----------------------------------------------------------------------------
(* Every step keeps the invariant. *)
LEMMA NextInv == IInv /\ [Next]_vars => IInv'
<1> SUFFICES ASSUME IInv, [Next]_vars PROVE IInv' BY Zenon
<1>1. CASE UNCHANGED vars
  <2>1. UNCHANGED <<flags, data, blockno, idequeue, device, disk, pc, cur, panicked, mru, refcnt, locked>>
    BY <1>1, Zenon DEF vars, ideVars, bioVars
  <2>2. TypeOK' BY <2>1, Zenon DEF IInv, TypeOK, IdeTypeOK
  <2>3. /\ \A b \in Bufs : Counted(b)' /\ InUse(b)'
        /\ \A q \in Procs : InCall(q)'
    BY <2>1, Zenon DEF IInv, Counted, Users, InUse, InCall
  <2>4. Queued' /\ Started' /\ OneCopy' BY <2>1, Zenon DEF IInv, Queued, Started, OneCopy
  <2>5. /\ panicked' => Unused' = {}
        /\ Errors = {FALSE} => Clean'
        /\ Elems(mru') = Bufs
    BY <2>1, Zenon DEF IInv, Unused, Pinned, Clean
  <2> QED BY <2>2, <2>3, <2>4, <2>5, Zenon DEF IInv
<1>2. ASSUME NEW p \in Procs, Bread(p) \/ Driver(p) \/ Brelse(p) \/ Kill(p) PROVE IInv'
  BY <1>2, BreadInv, IderwInv, IderwWakeInv, BrelseInv, KillInv, Zenon DEF Driver
<1>3. ASSUME NEW p \in Procs, NEW n \in Blocks, Bget(p, n) PROVE IInv'
  BY <1>3, BgetInv, Zenon
<1>4. ASSUME NEW p \in Procs, NEW b \in Bufs,
             BrelseUnlock(p, b) \/ \E x \in Vals : LogWrite(p, b, x) \/ Bwrite(p, b, x)
      PROVE  IInv'
  BY <1>4, BrelseUnlockInv, ChangeInv, Zenon
<1>5. CASE Disk BY <1>5, DeviceDoneInv, IdeintrInv, Zenon DEF Disk
<1> QED BY <1>1, <1>2, <1>3, <1>4, <1>5, Zenon DEF Next

(* The inductive invariant. *)
LEMMA Invariance == Spec => []IInv
<1>1. Init /\ [][Next]_vars => []IInv BY InitInv, NextInv, PTL
<1> QED BY <1>1, PTL DEF Spec

(* The fields of a buffer, the queue and the disk have their types, with   *)
(* any number of processes and buffers, whether or not reads fail.         *)
THEOREM TypeCorrect == Spec => []TypeOK
<1>1. IInv => TypeOK BY Zenon DEF IInv
<1> QED BY <1>1, Invariance, PTL

(* bget() (bio.c:81-92) panics only when the log has pinned or a process   *)
(* is using every buffer: refcnt counts the users exactly, so whatever the *)
(* order in which they wait, are killed and release, no buffer is kept.    *)
THEOREM NoBufferKept == Spec => []PanicOnlyWhenFull
<1>1. ASSUME IInv PROVE PanicOnlyWhenFull
  <2> SUFFICES ASSUME panicked, NEW b \in Bufs, b \notin Pinned,
                      ~ \E p \in Procs : locked[b] = p \/ cur[p] = b
               PROVE  FALSE
    BY Zenon DEF PanicOnlyWhenFull
  <2>1. locked[b] = NULL BY <1>1, Types
  <2>2. Users(b) = {} BY Zenon DEF Users
  <2>3. Cardinality(Users(b)) = 0 BY <2>2, FS_EmptySet, Zenon
  <2>4. refcnt[b] = 0 + 0 BY <1>1, <2>1, <2>3, Zenon DEF IInv, Counted
  <2>5. b \in Unused BY <2>4 DEF Unused
  <2> QED BY <1>1, <2>5, Zenon DEF IInv
<1> QED BY <1>1, Invariance, PTL

----------------------------------------------------------------------------
(* The block store.  What a buffer says of its block, and to whom the      *)
(* block is lent.                                                          *)
Val(b) == IF flags[b] = {} THEN disk[blockno[b]] ELSE data[b]
Who(b) ==
  IF locked[b] # NULL /\ "VALID" \in flags[b]
    THEN [by |-> locked[b], sees |-> data[b]] ELSE NULL

Abstract ==
  /\ \A b \in Bufs : blockno[b] # NULL =>
       Content(blockno[b]) = Val(b) /\ Lent(blockno[b]) = Who(b)
  /\ \A n \in Blocks : (\A b \in Bufs : blockno[b] # n) =>
       Content(n) = disk[n] /\ Lent(n) = NULL

(* A block has one buffer or none. *)
LEMMA IsAbstract == IInv => Abstract
<1> SUFFICES ASSUME IInv PROVE Abstract BY Zenon
<1>1. ASSUME NEW b \in Bufs, blockno[b] # NULL
      PROVE  Content(blockno[b]) = Val(b) /\ Lent(blockno[b]) = Who(b)
  <2>1. \A c \in Bufs : blockno[c] = blockno[b] => c = b BY <1>1, Zenon DEF IInv, OneCopy
  <2> DEFINE n == blockno[b]
             A == {c \in Bufs : blockno[c] = n /\ flags[c] # {}}
             B == {c \in Bufs : /\ blockno[c] = n /\ locked[c] # NULL
                                /\ "VALID" \in flags[c] \/ pc[locked[c]] = "run"}
  <2>2. locked[b] # NULL => ("VALID" \in flags[b] \/ pc[locked[b]] = "run" <=> "VALID" \in flags[b])
    <3>1. \A l : l \in Waiting \cup {"iderw"} => l # "run" BY DEF Waiting
    <3> QED BY <1>1, <3>1, Zenon DEF IInv, InUse
  <2>3. A = IF flags[b] = {} THEN {} ELSE {b} BY <2>1, Zenon
  <2>4. B = IF locked[b] # NULL /\ "VALID" \in flags[b] THEN {b} ELSE {} BY <2>1, <2>2, Zenon
  <2>5. /\ Content(n) = IF A = {} THEN disk[n] ELSE data[CHOOSE c \in A : TRUE]
        /\ Lent(n) = IF B = {} THEN NULL
                     ELSE [by |-> locked[CHOOSE c \in B : TRUE],
                           sees |-> data[CHOOSE c \in B : TRUE]]
    BY Zenon DEF Content, Lent
  <2> HIDE DEF A, B
  <2>6. (CHOOSE c \in {b} : TRUE) = b /\ {b} # {} BY Zenon
  <2> QED BY <2>3, <2>4, <2>5, <2>6, Zenon DEF Val, Who
<1>2. ASSUME NEW n \in Blocks, \A b \in Bufs : blockno[b] # n
      PROVE  Content(n) = disk[n] /\ Lent(n) = NULL
  BY <1>2, Zenon DEF Content, Lent
<1> QED BY <1>1, <1>2, Zenon DEF Abstract

(* The blocks look the same, all but that of b, when only b changes. *)
LEMMA Elsewhere ==
  ASSUME Abstract, Abstract', NEW b, blockno' = blockno, NULL \notin Blocks,
         \A c \in Bufs : c # b =>
           flags'[c] = flags[c] /\ data'[c] = data[c] /\ locked'[c] = locked[c],
         \A m \in Blocks : m # blockno[b] => disk'[m] = disk[m]
  PROVE  \A m \in Blocks : m # blockno[b] => Content(m)' = Content(m) /\ Lent(m)' = Lent(m)
<1> SUFFICES ASSUME NEW m \in Blocks, m # blockno[b]
             PROVE  Content(m)' = Content(m) /\ Lent(m)' = Lent(m)
  BY Zenon
<1>0. disk'[m] = disk[m] /\ m # NULL BY Zenon
<1>1. ASSUME NEW c \in Bufs, blockno[c] = m PROVE Content(m)' = Content(m) /\ Lent(m)' = Lent(m)
  <2>1. c # b BY <1>1, Zenon
  <2>2. flags'[c] = flags[c] /\ data'[c] = data[c] /\ locked'[c] = locked[c] BY <2>1, Zenon
  <2>3. Val(c)' = Val(c) /\ Who(c)' = Who(c) BY <1>0, <1>1, <2>2, Zenon DEF Val, Who
  <2>4. Content(m) = Val(c) /\ Lent(m) = Who(c) BY <1>0, <1>1, Zenon DEF Abstract
  <2>5. Content(m)' = Val(c)' /\ Lent(m)' = Who(c)' BY <1>0, <1>1, Zenon DEF Abstract
  <2> QED BY <2>3, <2>4, <2>5, Zenon
<1>2. ASSUME \A c \in Bufs : blockno[c] # m PROVE Content(m)' = Content(m) /\ Lent(m)' = Lent(m)
  BY <1>0, <1>2, Zenon DEF Abstract
<1> QED BY <1>1, <1>2, Zenon

(* Such a step is not seen, if b says the same of its block as before. *)
LEMMA Unseen ==
  ASSUME Abstract, Abstract', NEW b \in Bufs, blockno' = blockno, NULL \notin Blocks,
         \A c \in Bufs : c # b =>
           flags'[c] = flags[c] /\ data'[c] = data[c] /\ locked'[c] = locked[c],
         \A m \in Blocks : m # blockno[b] => disk'[m] = disk[m],
         blockno[b] # NULL => Val(b)' = Val(b) /\ Who(b)' = Who(b)
  PROVE  UNCHANGED Store!vars
<1>1. \A m \in Blocks : m # blockno[b] => Content(m)' = Content(m) /\ Lent(m)' = Lent(m)
  BY Elsewhere, Zenon
<1>2. ASSUME NEW m \in Blocks, m = blockno[b]
      PROVE  Content(m)' = Content(m) /\ Lent(m)' = Lent(m)
  <2>0. blockno[b] # NULL /\ m = blockno'[b] /\ blockno'[b] # NULL BY <1>2, Zenon
  <2>1. Content(m) = Val(b) /\ Lent(m) = Who(b) BY <1>2, <2>0, Zenon DEF Abstract
  <2>2. Content(m)' = Val(b)' /\ Lent(m)' = Who(b)' BY <2>0, Zenon DEF Abstract
  <2> QED BY <2>0, <2>1, <2>2, Zenon
<1>3. \A m \in Blocks : Content(m)' = Content(m) /\ Lent(m)' = Lent(m)
  BY <1>1, <1>2, Zenon
<1> QED BY <1>3, Zenon DEF Store!vars

(* Nor is one that leaves the buffers as they are. *)
LEMMA Still ==
  ASSUME Abstract, Abstract', NULL \notin Blocks,
         UNCHANGED <<flags, data, blockno, disk, locked>>
  PROVE  UNCHANGED Store!vars
<1>1. \A b \in Bufs : Val(b)' = Val(b) /\ Who(b)' = Who(b) BY Zenon DEF Val, Who
<1>2. ASSUME NEW m \in Blocks PROVE Content(m)' = Content(m) /\ Lent(m)' = Lent(m)
  <2>1. ASSUME NEW c \in Bufs, blockno[c] = m PROVE Content(m)' = Content(m) /\ Lent(m)' = Lent(m)
    <3>0. blockno[c] # NULL /\ m = blockno'[c] /\ blockno'[c] # NULL BY <2>1, Zenon
    <3>1. Content(m) = Val(c) /\ Lent(m) = Who(c) BY <2>1, <3>0, Zenon DEF Abstract
    <3>2. Content(m)' = Val(c)' /\ Lent(m)' = Who(c)' BY <3>0, Zenon DEF Abstract
    <3> QED BY <1>1, <3>1, <3>2, Zenon
  <2>2. ASSUME \A c \in Bufs : blockno[c] # m PROVE Content(m)' = Content(m) /\ Lent(m)' = Lent(m)
    BY <2>2, Zenon DEF Abstract
  <2> QED BY <2>1, <2>2, Zenon
<1> QED BY <1>2, Zenon DEF Store!vars

(* A step that is seen at one block n. *)
LEMMA SeenAt ==
  ASSUME NEW n \in Blocks, NEW v, NEW w, Content(n)' = v, Lent(n)' = w,
         \A m \in Blocks : m # n => Content(m)' = Content(m) /\ Lent(m)' = Lent(m)
  PROVE  LET content == [m \in Blocks |-> Content(m)]
             lent == [m \in Blocks |-> Lent(m)]
         IN /\ content' = [content EXCEPT ![n] = v]
            /\ lent' = [lent EXCEPT ![n] = w]
            /\ Content(n) = v => content' = content
            /\ content[n] = Content(n) /\ lent[n] = Lent(n)
  BY Zenon

(* bread() lends a block to a process. *)
LEMMA StoreBread ==
  ASSUME NEW p \in Procs, NEW n \in Blocks, Lent(n) = NULL, Content(n)' = Content(n),
         Lent(n)' = [by |-> p, sees |-> Content(n)],
         \A m \in Blocks : m # n => Content(m)' = Content(m) /\ Lent(m)' = Lent(m)
  PROVE  Store!Next
<1>1. PICK v : v = Content(n) BY Zenon
<1>2. PICK w : w = [by |-> p, sees |-> v] BY Zenon
<1>3. Content(n)' = v /\ Lent(n)' = w BY <1>1, <1>2, Zenon
<1>4. LET content == [m \in Blocks |-> Content(m)]
          lent == [m \in Blocks |-> Lent(m)]
      IN /\ content' = [content EXCEPT ![n] = v]
         /\ lent' = [lent EXCEPT ![n] = w]
         /\ Content(n) = v => content' = content
         /\ content[n] = Content(n) /\ lent[n] = Lent(n)
  BY <1>3, SeenAt, Zenon
<1>5. Store!Bread(p, n) BY <1>1, <1>2, <1>4, Zenon DEF Store!Bread
<1> QED BY <1>5, Zenon DEF Store!Next

(* brelse() takes it back. *)
LEMMA StoreBrelse ==
  ASSUME NEW p \in Procs, NEW n \in Blocks, NEW x, Lent(n) = [by |-> p, sees |-> x], Lent(n) # NULL,
         Content(n)' = Content(n), Lent(n)' = NULL,
         \A m \in Blocks : m # n => Content(m)' = Content(m) /\ Lent(m)' = Lent(m)
  PROVE  Store!Next
<1>1. PICK v : v = Content(n) BY Zenon
<1>2. Content(n)' = v BY <1>1, Zenon
<1>3. LET content == [m \in Blocks |-> Content(m)]
          lent == [m \in Blocks |-> Lent(m)]
      IN /\ content' = [content EXCEPT ![n] = v]
         /\ lent' = [lent EXCEPT ![n] = NULL]
         /\ Content(n) = v => content' = content
         /\ content[n] = Content(n) /\ lent[n] = Lent(n)
  BY <1>2, SeenAt, Zenon
<1>4. Lent(n).by = p OBVIOUS
<1>5. Store!Brelse(p, n) BY <1>1, <1>3, <1>4, Zenon DEF Store!Brelse
<1> QED BY <1>5, Zenon DEF Store!Next

(* log_write() and bwrite() change what the process sees, and the block. *)
LEMMA StoreWrite ==
  ASSUME NEW p \in Procs, NEW n \in Blocks, NEW x \in Vals, NEW y,
         Lent(n) = [by |-> p, sees |-> y], Lent(n) # NULL,
         Content(n)' = x, Lent(n)' = [by |-> p, sees |-> x],
         \A m \in Blocks : m # n => Content(m)' = Content(m) /\ Lent(m)' = Lent(m)
  PROVE  Store!Next
<1> DEFINE content == [m \in Blocks |-> Content(m)]
           lent == [m \in Blocks |-> Lent(m)]
<1>1. PICK w : w = [by |-> p, sees |-> x] BY Zenon
<1>2. Lent(n)' = w BY <1>1, Zenon
<1>3. LET c == [m \in Blocks |-> Content(m)]
          l == [m \in Blocks |-> Lent(m)]
      IN /\ c' = [c EXCEPT ![n] = x]
         /\ l' = [l EXCEPT ![n] = w]
         /\ Content(n) = x => c' = c
         /\ c[n] = Content(n) /\ l[n] = Lent(n)
  BY <1>2, SeenAt, ZenonT(60)
<1>4. Lent(n).by = p OBVIOUS
<1>5. [lent EXCEPT ![n].sees = x] = [lent EXCEPT ![n] = w]
  <2>1. lent[n] = [by |-> p, sees |-> y] BY <1>3, Zenon
  <2>2. [lent[n] EXCEPT !.sees = x] = w BY <1>1, <2>1
  <2> QED BY <2>2, Zenon
<1>6. Store!Write(p, n, x) BY <1>3, <1>4, <1>5, Zenon DEF Store!Write
<1> QED BY <1>6, Zenon DEF Store!Next

----------------------------------------------------------------------------
(* A step on the buffer b shows, if at all, at its block. *)
LEMMA AtBuffer ==
  ASSUME Abstract, Abstract', NEW b \in Bufs, blockno' = blockno, NULL \notin Blocks,
         NEW n, n = blockno[b], n # NULL,
         \A c \in Bufs : c # b =>
           flags'[c] = flags[c] /\ data'[c] = data[c] /\ locked'[c] = locked[c],
         \A m \in Blocks : m # blockno[b] => disk'[m] = disk[m]
  PROVE  /\ Content(n) = Val(b) /\ Content(n)' = Val(b)'
         /\ Lent(n) = Who(b) /\ Lent(n)' = Who(b)'
         /\ \A m \in Blocks : m # n => Content(m)' = Content(m) /\ Lent(m)' = Lent(m)
<1>1. blockno[b] # NULL /\ n = blockno'[b] /\ blockno'[b] # NULL BY Zenon
<1>2. Content(n) = Val(b) /\ Lent(n) = Who(b) BY <1>1, Zenon DEF Abstract
<1>3. Content(n)' = Val(b)' /\ Lent(n)' = Who(b)' BY <1>1, Zenon DEF Abstract
<1>4. \A m \in Blocks : m # blockno[b] => Content(m)' = Content(m) /\ Lent(m)' = Lent(m)
  BY Elsewhere, Zenon
<1> QED BY <1>2, <1>3, <1>4, Zenon

(* What the driver does to its queue, brelse() to the list and kill() to a *)
(* process is not seen.                                                    *)
LEMMA QuietStore ==
  ASSUME Abstract, Abstract', NEW p \in Procs, Driver(p) \/ Brelse(p) \/ Kill(p)
  PROVE  UNCHANGED Store!vars
<1>1. UNCHANGED <<flags, data, blockno, disk, locked>>
  BY Zenon DEF Driver, Iderw, IderwWake, Brelse, Kill, bioVars
<1> QED BY <1>1, Still, BcacheAssumption, Zenon

(* bread() of a block that has been read lends it. *)
LEMMA BreadStore ==
  ASSUME IInv, Abstract, Abstract', NEW p \in Procs, Bread(p)
  PROVE  Store!Next \/ UNCHANGED Store!vars
<1>b. PICK b : b = cur[p] OBVIOUS
<1>n. PICK n : n = blockno[b] OBVIOUS
<1>0. pc[p] = "acquiresleep" /\ UNCHANGED <<flags, data, blockno, disk>> BY Zenon DEF Bread, At
<1>1. b \in Bufs BY <1>b, <1>0, Types, ZenonT(60) DEF IInv, InCall
<1>2. n \in Blocks /\ n # NULL /\ NULL \notin Blocks BY <1>b, <1>n, <1>1, Used, Types, Zenon
<1>3. CASE locked[b] # NULL
  <2>1. UNCHANGED locked BY <1>b, <1>3, Zenon DEF Bread
  <2> QED BY <1>0, <1>2, <2>1, Still, Zenon
<1>4. CASE locked[b] = NULL
  <2>1. locked' = [locked EXCEPT ![b] = p] BY <1>b, <1>4, Zenon DEF Bread
  <2>2. /\ locked'[b] = p /\ p # NULL
        /\ \A c \in Bufs : c # b =>
             flags'[c] = flags[c] /\ data'[c] = data[c] /\ locked'[c] = locked[c]
        /\ \A m \in Blocks : m # blockno[b] => disk'[m] = disk[m]
    BY <1>0, <1>1, <2>1, Types, Zenon
  <2>3. Val(b)' = Val(b) /\ Who(b) = NULL BY <1>0, <1>4, Zenon DEF Val, Who
  <2>4. CASE "VALID" \in flags[b]
    <3>1. Val(b) = data[b] /\ Who(b)' = [by |-> p, sees |-> data[b]]
      BY <1>0, <2>2, <2>4, Zenon DEF Val, Who
    <3>2. /\ Content(n) = Val(b) /\ Content(n)' = Val(b)'
          /\ Lent(n) = Who(b) /\ Lent(n)' = Who(b)'
          /\ \A m \in Blocks : m # n => Content(m)' = Content(m) /\ Lent(m)' = Lent(m)
      BY <1>n, <1>0, <1>1, <1>2, <2>2, AtBuffer, ZenonT(60)
    <3>3. Lent(n) = NULL /\ Content(n)' = Content(n) BY <2>3, <3>2, Zenon
    <3>4. Lent(n)' = [by |-> p, sees |-> Content(n)] BY <3>1, <3>2, Zenon
    <3> QED BY <1>2, <3>2, <3>3, <3>4, StoreBread, Zenon
  <2>5. CASE "VALID" \notin flags[b]
    <3>1. Who(b)' = Who(b) BY <1>0, <2>3, <2>5, Zenon DEF Who
    <3> QED BY <1>0, <1>1, <1>2, <2>2, <2>3, <3>1, Unseen, ZenonT(60)
  <2> QED BY <2>4, <2>5, Zenon
<1> QED BY <1>3, <1>4, Zenon

(* Whoever runs with the lock of a buffer has its block. *)
LEMMA Holder ==
  ASSUME IInv, Errors = {FALSE}, NEW p \in Procs, NEW b \in Bufs, locked[b] = p, pc[p] = "run"
  PROVE  /\ "VALID" \in flags[b] /\ p # NULL /\ NULL \notin Blocks
         /\ Who(b) = [by |-> p, sees |-> data[b]] /\ Who(b) # NULL
         /\ blockno[b] \in Blocks /\ blockno[b] # NULL
<1>1. "VALID" \in flags[b] /\ p # NULL
  <2>1. pc[p] \notin Waiting \cup {"iderw"} BY DEF Waiting
  <2>2. p # NULL BY Types, Zenon
  <2> QED BY <2>1, <2>2, Zenon DEF IInv, InUse
<1>2. data[b] \in Vals BY <1>1, Zenon DEF IInv, Clean
<1>3. [by |-> p, sees |-> data[b]] \in [by : Procs, sees : Vals] BY <1>2
<1>4. [by |-> p, sees |-> data[b]] # NULL BY <1>3, BcacheAssumption, Zenon
<1>5. Who(b) = [by |-> p, sees |-> data[b]] BY <1>1, Zenon DEF Who
<1>6. blockno[b] \in Blocks BY <1>1, Used, Zenon
<1> QED BY <1>1, <1>4, <1>5, <1>6, Types, Zenon

(* log_write() and bwrite() change the block. *)
LEMMA ChangeStore ==
  ASSUME IInv, Abstract, Abstract', Errors = {FALSE},
         NEW p \in Procs, NEW b \in Bufs, NEW x \in Vals, LogWrite(p, b, x) \/ Bwrite(p, b, x)
  PROVE  Store!Next
<1>n. PICK n : n = blockno[b] OBVIOUS
<1>0. /\ pc[p] = "run" /\ locked[b] = p
      /\ data' = [data EXCEPT ![b] = x]
      /\ flags' = [flags EXCEPT ![b] = @ \cup {"DIRTY"}]
      /\ UNCHANGED <<blockno, disk, locked>>
  BY Zenon DEF LogWrite, Bwrite, At, Has, bioVars
<1>1. /\ "VALID" \in flags[b] /\ p # NULL /\ NULL \notin Blocks
      /\ Who(b) = [by |-> p, sees |-> data[b]] /\ Who(b) # NULL
      /\ n \in Blocks /\ n # NULL
  BY <1>n, <1>0, Holder, Zenon
<1>2. /\ flags'[b] = flags[b] \cup {"DIRTY"} /\ data'[b] = x
      /\ \A c \in Bufs : c # b =>
           flags'[c] = flags[c] /\ data'[c] = data[c] /\ locked'[c] = locked[c]
      /\ \A m \in Blocks : m # blockno[b] => disk'[m] = disk[m]
  BY <1>0, Types, Zenon
<1>3. "VALID" \in flags'[b] /\ flags'[b] # {} BY <1>1, <1>2, Zenon
<1>4. Val(b)' = x /\ Who(b)' = [by |-> p, sees |-> x]
  BY <1>0, <1>1, <1>2, <1>3, Zenon DEF Val, Who
<1>5. /\ Content(n)' = Val(b)' /\ Lent(n) = Who(b) /\ Lent(n)' = Who(b)'
      /\ \A m \in Blocks : m # n => Content(m)' = Content(m) /\ Lent(m)' = Lent(m)
  <2>1. /\ blockno' = blockno /\ n # NULL /\ NULL \notin Blocks
        /\ \A c \in Bufs : c # b =>
             flags'[c] = flags[c] /\ data'[c] = data[c] /\ locked'[c] = locked[c]
        /\ \A m \in Blocks : m # blockno[b] => disk'[m] = disk[m]
    BY <1>0, <1>1, <1>2, Zenon
  <2> QED BY <1>n, <2>1, AtBuffer, Zenon
<1>6. /\ Lent(n) = [by |-> p, sees |-> data[b]] /\ Lent(n) # NULL
      /\ Content(n)' = x /\ Lent(n)' = [by |-> p, sees |-> x]
  BY <1>1, <1>4, <1>5, Zenon
<1> QED BY <1>1, <1>5, <1>6, StoreWrite, Zenon

(* brelse() gives the block back. *)
LEMMA BrelseUnlockStore ==
  ASSUME IInv, Abstract, Abstract', Errors = {FALSE},
         NEW p \in Procs, NEW b \in Bufs, BrelseUnlock(p, b)
  PROVE  Store!Next
<1>n. PICK n : n = blockno[b] OBVIOUS
<1>0. /\ pc[p] = "run" /\ locked[b] = p
      /\ locked' = [locked EXCEPT ![b] = NULL]
      /\ UNCHANGED <<flags, data, blockno, disk>>
  BY Zenon DEF BrelseUnlock, At, Has
<1>1. /\ "VALID" \in flags[b] /\ p # NULL /\ NULL \notin Blocks
      /\ Who(b) = [by |-> p, sees |-> data[b]] /\ Who(b) # NULL
      /\ n \in Blocks /\ n # NULL
  BY <1>n, <1>0, Holder, Zenon
<1>2. /\ locked'[b] = NULL
      /\ \A c \in Bufs : c # b =>
           flags'[c] = flags[c] /\ data'[c] = data[c] /\ locked'[c] = locked[c]
      /\ \A m \in Blocks : m # blockno[b] => disk'[m] = disk[m]
  BY <1>0, Types, Zenon
<1>3. Val(b)' = Val(b) /\ Who(b)' = NULL BY <1>0, <1>2, Zenon DEF Val, Who
<1>4. /\ Content(n) = Val(b) /\ Content(n)' = Val(b)' /\ Lent(n) = Who(b) /\ Lent(n)' = Who(b)'
      /\ \A m \in Blocks : m # n => Content(m)' = Content(m) /\ Lent(m)' = Lent(m)
  <2>1. /\ blockno' = blockno /\ n # NULL /\ NULL \notin Blocks
        /\ \A c \in Bufs : c # b =>
             flags'[c] = flags[c] /\ data'[c] = data[c] /\ locked'[c] = locked[c]
        /\ \A m \in Blocks : m # blockno[b] => disk'[m] = disk[m]
    BY <1>0, <1>1, <1>2, Zenon
  <2> QED BY <1>n, <2>1, AtBuffer, Zenon
<1>5. /\ Lent(n) = [by |-> p, sees |-> data[b]] /\ Lent(n) # NULL
      /\ Content(n)' = Content(n) /\ Lent(n)' = NULL
  BY <1>1, <1>3, <1>4, Zenon
<1> QED BY <1>1, <1>4, <1>5, StoreBrelse, Zenon

(* The flags of a buffer that is not changed. *)
LEMMA OnlyValid ==
  \A f \in SUBSET {"VALID", "DIRTY"} : "DIRTY" \notin f => f = {} \/ f = {"VALID"}
  BY Zenon

(* What a buffer says after a step. *)
LEMMA SaysThen ==
  ASSUME Abstract', NEW b \in Bufs, NEW n, n = blockno'[b], n # NULL
  PROVE  Content(n)' = Val(b)' /\ Lent(n)' = Who(b)'
<1>1. blockno'[b] # NULL BY Zenon
<1> QED BY <1>1, Zenon DEF Abstract

(* A buffer that is left alone says the same. *)
LEMMA SaysSame ==
  ASSUME NEW b, flags'[b] = flags[b], data'[b] = data[b], locked'[b] = locked[b],
         blockno'[b] = blockno[b], disk' = disk
  PROVE  Val(b)' = Val(b) /\ Who(b)' = Who(b)
  BY Zenon DEF Val, Who

(* bget() recycles a buffer: what it held is on the disk. *)
LEMMA RecycleStore ==
  ASSUME IInv, Abstract, Abstract', Errors = {FALSE}, NEW n \in Blocks, NEW b \in Bufs,
         b \in Unused, \A c \in Bufs : blockno[c] # n,
         blockno' = [blockno EXCEPT ![b] = n], flags' = [flags EXCEPT ![b] = {}],
         UNCHANGED <<data, disk, locked>>
  PROVE  UNCHANGED Store!vars
<1>1. /\ blockno'[b] = n /\ flags'[b] = {} /\ NULL \notin Blocks
      /\ \A c \in Bufs : c # b => blockno'[c] = blockno[c] /\ flags'[c] = flags[c]
  BY Types, Zenon
<1>2. refcnt[b] = 0 /\ "DIRTY" \notin flags[b] BY Zenon DEF Unused, Pinned
<1>3. locked[b] = NULL BY <1>2, Free, Zenon
<1>4. flags[b] = {} \/ flags[b] = {"VALID"}
  <2>1. flags[b] \in SUBSET {"VALID", "DIRTY"} BY Types, Zenon
  <2> QED BY <1>2, <2>1, OnlyValid, Zenon
<1>5. Val(b) = disk[blockno[b]] /\ Who(b) = NULL
  <2>1. Clean BY Zenon DEF IInv
  <2>2. flags[b] = {"VALID"} => data[b] = disk[blockno[b]] BY <2>1, Zenon DEF Clean
  <2> QED BY <1>3, <1>4, <2>2, Zenon DEF Val, Who
<1>6. Val(b)' = disk'[n] /\ Who(b)' = NULL
  <2>1. locked'[b] = NULL BY <1>3, Zenon
  <2> QED BY <1>1, <2>1, Zenon DEF Val, Who
<1>7. Content(n)' = Content(n) /\ Lent(n)' = Lent(n)
  <2>1. Content(n) = disk[n] /\ Lent(n) = NULL BY Zenon DEF Abstract
  <2>2. n = blockno'[b] /\ n # NULL BY <1>1, Zenon
  <2>3. Content(n)' = Val(b)' /\ Lent(n)' = Who(b)' BY <2>2, SaysThen, Zenon
  <2>4. disk'[n] = disk[n] BY Zenon
  <2> QED BY <1>6, <2>1, <2>3, <2>4, Zenon
<1>8. ASSUME NEW m \in Blocks, m = blockno[b]
      PROVE  Content(m)' = Content(m) /\ Lent(m)' = Lent(m)
  <2>1. m # NULL /\ m # n BY <1>1, <1>8, Zenon
  <2>2. Content(m) = disk[m] /\ Lent(m) = NULL BY <1>5, <1>8, <2>1, Zenon DEF Abstract
  <2>3. \A c \in Bufs : blockno'[c] # m
    <3>1. \A c \in Bufs : c # b => blockno[c] # m BY <1>8, <2>1, Zenon DEF IInv, OneCopy
    <3> QED BY <1>1, <2>1, <3>1, Zenon
  <2>4. Content(m)' = disk'[m] /\ Lent(m)' = NULL BY <2>3, Zenon DEF Abstract
  <2> QED BY <2>2, <2>4, Zenon
<1>9. ASSUME NEW m \in Blocks, m # n, m # blockno[b]
      PROVE  Content(m)' = Content(m) /\ Lent(m)' = Lent(m)
  <2>1. ASSUME NEW c \in Bufs, blockno[c] = m PROVE Content(m)' = Content(m) /\ Lent(m)' = Lent(m)
    <3>1. c # b /\ blockno'[c] = m /\ flags'[c] = flags[c] /\ m # NULL BY <1>1, <1>9, <2>1, Zenon
    <3>2. data'[c] = data[c] /\ locked'[c] = locked[c] /\ disk' = disk /\ blockno'[c] = blockno[c]
      BY <2>1, <3>1, Zenon
    <3>3. Val(c)' = Val(c) /\ Who(c)' = Who(c) BY <3>1, <3>2, SaysSame, Zenon
    <3>4. Content(m) = Val(c) /\ Lent(m) = Who(c) BY <2>1, <3>1, Zenon DEF Abstract
    <3>5. Content(m)' = Val(c)' /\ Lent(m)' = Who(c)' BY <3>1, Zenon DEF Abstract
    <3> QED BY <3>3, <3>4, <3>5, Zenon
  <2>2. ASSUME \A c \in Bufs : blockno[c] # m PROVE Content(m)' = Content(m) /\ Lent(m)' = Lent(m)
    <3>1. \A c \in Bufs : blockno'[c] # m BY <1>1, <1>9, <2>2, Zenon
    <3>2. Content(m)' = disk'[m] /\ Lent(m)' = NULL BY <3>1, Zenon DEF Abstract
    <3> QED BY <2>2, <3>2, Zenon DEF Abstract
  <2> QED BY <2>1, <2>2, Zenon
<1>10. \A m \in Blocks : Content(m)' = Content(m) /\ Lent(m)' = Lent(m)
  BY <1>7, <1>8, <1>9, Zenon
<1> QED BY <1>10, Zenon DEF Store!vars

(* bget() is not seen. *)
LEMMA BgetStore ==
  ASSUME IInv, Abstract, Abstract', Errors = {FALSE},
         NEW p \in Procs, NEW n \in Blocks, Bget(p, n)
  PROVE  UNCHANGED Store!vars
<1> DEFINE hits == {b \in Bufs : blockno[b] = n}
           Recycled(b) ==
             /\ b \in Unused /\ \A c \in Bufs : blockno[c] # n
             /\ blockno' = [blockno EXCEPT ![b] = n] /\ flags' = [flags EXCEPT ![b] = {}]
<1>1. UNCHANGED <<data, disk, locked>> BY Zenon DEF Bget
<1>2. hits = {} => \A c \in Bufs : blockno[c] # n BY Zenon
<1>3. ASSUME NEW b \in Bufs, LastIn(Unused, b) PROVE b \in Unused BY <1>3, Zenon DEF LastIn
<1>4. UNCHANGED <<blockno, flags>> \/ \E b \in Bufs : Recycled(b)
  BY <1>2, <1>3, Zenon DEF Bget
<1>5. CASE UNCHANGED <<blockno, flags>> BY <1>1, <1>5, Still, BcacheAssumption, Zenon
<1>6. ASSUME NEW b \in Bufs, Recycled(b) PROVE UNCHANGED Store!vars
  BY <1>1, <1>6, RecycleStore, Zenon
<1> HIDE DEF Recycled
<1> QED BY <1>4, <1>5, <1>6, Zenon

(* The disk takes what the buffer at hand already says. *)
LEMMA DeviceDoneStore ==
  ASSUME IInv, Abstract, Abstract', DeviceDone, UNCHANGED bioVars
  PROVE  UNCHANGED Store!vars
<1>b. PICK b : b = idequeue[1] OBVIOUS
<1>0. /\ device # NULL /\ UNCHANGED <<flags, data, blockno, locked>> /\ NULL \notin Blocks
      /\ disk' = IF device.write THEN [disk EXCEPT ![device.block] = device.data] ELSE disk
  BY BcacheAssumption, Zenon DEF DeviceDone, bioVars
<1>1. /\ b \in Bufs /\ device.block = blockno[b]
      /\ device.write <=> "DIRTY" \in flags[b]
  <2>1. idequeue # <<>> /\ idequeue \in Seq(Bufs) BY <1>0, Zenon DEF IInv, Started, TypeOK, IdeTypeOK
  <2>2. b \in Bufs BY <1>b, <2>1, First, Zenon
  <2> QED BY <1>b, <1>0, <2>2, Zenon DEF IInv, Started
<1>2. CASE ~device.write BY <1>0, <1>2, Still, Zenon
<1>3. CASE device.write
  <2>1. disk' = [disk EXCEPT ![blockno[b]] = device.data] BY <1>0, <1>1, <1>3, Zenon
  <2>2. \A m \in Blocks : m # blockno[b] => disk'[m] = disk[m]
    BY <2>1, Zenon DEF IInv, TypeOK, IdeTypeOK
  <2>3. flags[b] # {} BY <1>1, <1>3, Zenon
  <2>4. Val(b)' = Val(b) /\ Who(b)' = Who(b) BY <1>0, <2>3, Zenon DEF Val, Who
  <2>5. \A c \in Bufs : c # b =>
          flags'[c] = flags[c] /\ data'[c] = data[c] /\ locked'[c] = locked[c]
    BY <1>0, Zenon
  <2>6. blockno' = blockno /\ NULL \notin Blocks BY <1>0, Zenon
  <2> QED BY <1>1, <2>2, <2>4, <2>5, <2>6, Unseen, ZenonT(60)
<1> QED BY <1>2, <1>3, Zenon

(* ideintr() after a read lends the block to the process that waits for    *)
(* it, after a write it is not seen.                                       *)
LEMMA IdeintrStore ==
  ASSUME IInv, Abstract, Abstract', Errors = {FALSE}, Ideintr, UNCHANGED bioVars
  PROVE  Store!Next \/ UNCHANGED Store!vars
<1>b. PICK b : b = idequeue[1] OBVIOUS
<1>r. PICK r : r = locked[b] OBVIOUS
<1>n. PICK n : n = blockno[b] OBVIOUS
<1>0. /\ device # NULL /\ UNCHANGED <<blockno, disk, locked>> /\ NULL \notin Blocks
  BY BcacheAssumption, Zenon DEF Ideintr, bioVars
<1>1. idequeue # <<>> /\ idequeue \in Seq(Bufs) BY <1>0, Zenon DEF IInv, Started, TypeOK, IdeTypeOK
<1>2. Head(idequeue) = b /\ b \in Bufs /\ b \in Elems(idequeue) BY <1>b, <1>1, First
<1>3. ~device.err /\ device.block = n BY <1>b, <1>n, <1>0, Zenon DEF IInv, Clean, Started
<1>4. /\ data' = IF "DIRTY" \in flags[b] THEN data ELSE [data EXCEPT ![b] = disk[n]]
      /\ flags' = [flags EXCEPT ![b] = {"VALID"}]
  BY <1>2, <1>3, Zenon DEF Ideintr
<1>5. r \in Procs /\ r # NULL /\ n \in Blocks /\ n # NULL /\ cur[r] = b /\ pc[r] \in Waiting
  <2>1. locked[b] # NULL /\ cur[locked[b]] = b /\ pc[locked[b]] \in Waiting
    BY <1>2, Zenon DEF IInv, Queued
  <2>2. locked[b] \in Procs BY <1>2, <2>1, Types, Zenon
  <2>3. blockno[b] \in Blocks BY <1>2, <2>1, Used, Zenon
  <2> QED BY <1>r, <1>n, <1>0, <2>1, <2>2, <2>3, Zenon
<1>6. /\ blockno' = blockno /\ NULL \notin Blocks
      /\ \A c \in Bufs : c # b =>
           flags'[c] = flags[c] /\ data'[c] = data[c] /\ locked'[c] = locked[c]
      /\ \A m \in Blocks : m # blockno[b] => disk'[m] = disk[m]
  BY <1>0, <1>2, <1>4, Types, Zenon
<1>7. flags'[b] = {"VALID"} BY <1>2, <1>4, Types, Zenon
<1>8. CASE "DIRTY" \in flags[b]
  <2>1. "VALID" \in flags[b] BY <1>2, <1>8, Zenon DEF IInv, InUse
  <2>2. data' = data BY <1>4, <1>8, Zenon
  <2>3. Val(b)' = Val(b) /\ Who(b)' = Who(b) BY <1>0, <1>7, <2>1, <2>2, Zenon DEF Val, Who
  <2> QED BY <1>2, <1>6, <2>3, Unseen, Zenon
<1>9. CASE "DIRTY" \notin flags[b]
  <2>1. flags[b] # {"VALID"} BY <1>2, <1>5, Zenon DEF IInv, InCall
  <2>2. flags[b] = {}
    <3>1. flags[b] \in SUBSET {"VALID", "DIRTY"} BY <1>2, Types, Zenon
    <3> QED BY <1>9, <2>1, <3>1, OnlyValid, Zenon
  <2>3. data'[b] = disk[n] BY <1>2, <1>4, <1>9, Types, Zenon
  <2>4. Val(b) = disk[n] /\ Who(b) = NULL BY <1>n, <2>2, Zenon DEF Val, Who
  <2>5. locked'[b] # NULL /\ locked'[b] = r BY <1>r, <1>0, <1>5, Zenon
  <2>6. Val(b)' = disk[n] /\ Who(b)' = [by |-> r, sees |-> disk[n]]
    BY <1>7, <2>3, <2>5, Zenon DEF Val, Who
  <2>7. /\ Content(n) = Val(b) /\ Content(n)' = Val(b)' /\ Lent(n) = Who(b) /\ Lent(n)' = Who(b)'
        /\ \A m \in Blocks : m # n => Content(m)' = Content(m) /\ Lent(m)' = Lent(m)
    <3>1. b \in Bufs /\ n # NULL BY <1>2, <1>5, Zenon
    <3> QED BY <1>n, <1>6, <3>1, AtBuffer, Zenon
  <2>8. /\ Lent(n) = NULL /\ Content(n)' = Content(n)
        /\ Lent(n)' = [by |-> r, sees |-> Content(n)]
    BY <2>4, <2>6, <2>7, Zenon
  <2> QED BY <1>5, <2>7, <2>8, StoreBread, Zenon
<1> QED BY <1>8, <1>9, Zenon

----------------------------------------------------------------------------
(* In the initial state nothing is lent and the disk says what there is. *)
LEMMA InitStore == ASSUME Init PROVE Store!Init
<1>1. ASSUME NEW n \in Blocks PROVE Content(n) = Blank /\ Lent(n) = NULL
  <2>1. \A b \in Bufs : flags[b] = {} /\ locked[b] = NULL BY Zenon DEF Init, IdeInit
  <2>2. disk[n] = Blank BY Zenon DEF Init, IdeInit
  <2> QED BY <2>1, <2>2, Zenon DEF Content, Lent
<1>2. Blank \in Vals BY BcacheAssumption, Zenon
<1> QED BY <1>1, <1>2, Zenon DEF Store!Init

(* Every step of the cache and the driver is one of the store, or none. *)
LEMMA NextStore ==
  ASSUME IInv, Abstract, Abstract', Errors = {FALSE}, [Next]_vars
  PROVE  Store!Next \/ UNCHANGED Store!vars
<1>1. CASE UNCHANGED vars
  <2>1. UNCHANGED <<flags, data, blockno, disk, locked>>
    BY <1>1, Zenon DEF vars, ideVars, bioVars
  <2> QED BY <2>1, Still, BcacheAssumption, Zenon
<1>2. ASSUME NEW p \in Procs, Bread(p) \/ Driver(p) \/ Brelse(p) \/ Kill(p)
      PROVE  Store!Next \/ UNCHANGED Store!vars
  BY <1>2, BreadStore, QuietStore, Zenon
<1>3. ASSUME NEW p \in Procs, NEW n \in Blocks, Bget(p, n) PROVE UNCHANGED Store!vars
  BY <1>3, BgetStore, Zenon
<1>4. ASSUME NEW p \in Procs, NEW b \in Bufs,
             BrelseUnlock(p, b) \/ \E x \in Vals : LogWrite(p, b, x) \/ Bwrite(p, b, x)
      PROVE  Store!Next
  BY <1>4, BrelseUnlockStore, ChangeStore, Zenon
<1>5. CASE Disk BY <1>5, DeviceDoneStore, IdeintrStore, Zenon DEF Disk
<1> QED BY <1>1, <1>2, <1>3, <1>4, <1>5, Zenon DEF Next

(* bio.c:3-13: if the disk reports no error, the cache and the driver      *)
(* together are the block store.  A block has one copy, which one process  *)
(* at a time uses; what bread() returns is what was last written, whatever *)
(* bget() recycles and the disk reads and writes meanwhile.                *)
THEOREM CacheIsStore == ASSUME Errors = {FALSE} PROVE Spec => StoreSpec
<1>1. IInv /\ Abstract /\ Abstract' /\ [Next]_vars => [Store!Next]_(Store!vars)
  BY NextStore, Zenon
<1>2. Init => Store!Init BY InitStore, Zenon
<1>3. Spec => []IInv /\ Init /\ [][Next]_vars BY Invariance, PTL DEF Spec
<1>4. []IInv => []Abstract BY IsAbstract, PTL
<1>5. Spec => [][Store!Next]_(Store!vars) BY <1>1, <1>3, <1>4, PTL
<1> QED BY <1>2, <1>3, <1>5, PTL DEF StoreSpec, Store!Spec
============================================================================
