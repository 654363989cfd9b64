----------------------------- MODULE CowProofs -----------------------------
(***************************************************************************)
(* The steps of copyuvm() and cow_copyuvm(), of exit(), wait() and         *)
(* freevm() preserve the inductive invariant of module CowSteps; then the  *)
(* theorems about module Cow, one of which is that it implements the       *)
(* private memories of module PrivateMemory.                               *)
(***************************************************************************)
EXTENDS CowSteps, FiniteSetTheorems

USE SMTT(30), ZenonT(60), SMTT(120)

(* The processes and their slots are finitely many, and finite sets are    *)
(* counted as CowSteps takes it for granted.                               *)
LEMMA CountingHolds == Counting
<1>1. IsFiniteSet(Procs \X Slots)
  <2>1. IsFiniteSet(Pages)
    BY ConstantsAssumption, FS_Interval DEF Pages
  <2>2. IsFiniteSet({KSTACK, PGDIR, MEM})
    <3>1. IsFiniteSet({KSTACK} \cup {PGDIR})
      BY ZenonT(60), FS_Singleton, FS_AddElement
    <3>2. IsFiniteSet(({KSTACK} \cup {PGDIR}) \cup {MEM})
      BY <3>1, FS_AddElement, ZenonT(60)
    <3>3. ({KSTACK} \cup {PGDIR}) \cup {MEM} = {KSTACK, PGDIR, MEM}
      BY Zenon
    <3> QED BY <3>2, <3>3, ZenonT(60)
  <2>3. IsFiniteSet(Slots)
    BY ZenonT(60), <2>1, <2>2, FS_Union DEF Slots
  <2> QED BY <2>3, ConstantsAssumption, FS_Product, ZenonT(60)
<1>2. \A S, T : IsFiniteSet(T) /\ S \subseteq T => IsFiniteSet(S)
  BY FS_Subset, Zenon
<1>3. ASSUME NEW S, IsFiniteSet(S)
      PROVE  /\ Cardinality(S) \in Nat
             /\ Cardinality(S) = 0 <=> S = {}
             /\ Cardinality(S) = 1 <=> \E x : S = {x}
  BY <1>3, FS_CardinalityType, FS_EmptySet, FS_Singleton, ZenonT(60)
<1>4. ASSUME NEW S, IsFiniteSet(S), NEW x
      PROVE  /\ Cardinality(S \cup {x}) =
                  IF x \in S THEN Cardinality(S) ELSE Cardinality(S) + 1
             /\ Cardinality(S \ {x}) =
                  IF x \in S THEN Cardinality(S) - 1 ELSE Cardinality(S)
  BY <1>4, FS_AddElement, FS_RemoveElement, ZenonT(60)
<1>5. Cardinality({}) = 0 /\ \A x : Cardinality({x}) = 1
  BY FS_EmptySet, FS_Singleton, Zenon
<1> QED BY ZenonT(60), <1>1, <1>2, <1>3, <1>4, <1>5 DEF Counting

----------------------------------------------------------------------------
(* fork() goes on to the next page of the child. *)
LEMMA NextPage ==
  ASSUME IInv, UNCHANGED NONE, NEW p \in Procs, NEW c \in Procs, NEW v \in Pages,
         pc[p] = "copyuvm", v = va[p], va[p] < sz[p], c = np[p], c # p,
         UNCHANGED <<state, sz, pc, np>>, va'[p] = v + 1,
         \A q \in Procs : q # p => va'[q] = va[q],
         \A q \in Procs : q # c => swapped'[q] = swapped[q],
         \A q \in Procs, t \in Slots : q # c => frame'[q][t] = frame[q][t],
         \A t \in Slots : t # v => frame'[c][t] = frame[c][t],
         \A u \in Pages : u # v => swapped'[c][u] = swapped[c][u],
         frame'[c][v] # NULL \/ (~NONE /\ swapped'[c][v] # NULL)
  PROVE  Control'
<1>1. NpInv(p) /\ Bounds(p) /\ pc[p] \in NpPCs /\ pc[p] \notin CowPCs
  BY ProcFacts, Zenon DEF NpPCs, CowPCs
<1>2. /\ state[p] = "LIVE" /\ state[c] = "EMBRYO" /\ pc[c] = "user" /\ frame[c][KSTACK] # NULL
      /\ v # MEM /\ v # KSTACK /\ v # PGDIR
      /\ \A q \in Procs : q # p /\ pc[q] \in NpPCs => np[q] # c
  BY CopyFacts
<1>3. \A q \in Procs : q # p /\ q # c => Same(q)
  BY DEF Same
<1>4. StateInv(c)'
  BY <1>2, SlotFacts, ZenonT(60) DEF StateInv
<1>5. NpInv(p)'
  <2>1. pc'[p] = "copyuvm" /\ np'[p] = c /\ state'[c] = "EMBRYO" /\ frame'[c][PGDIR] # NULL
    BY <1>1, <1>2, SlotFacts, ZenonT(60) DEF NpInv
  <2>2. va'[p] <= sz'[p]
    BY <1>1 DEF Bounds
  <2>3. ASSUME NEW u \in Pages
        PROVE  /\ u >= va'[p] => frame'[c][u] = NULL
               /\ u < va'[p] /\ frame'[c][u] = NULL => ~NONE /\ swapped'[c][u] # NULL
    <3>1. CASE u = v
      BY <3>1, ConstantsAssumption DEF Pages
    <3>2. CASE u # v
      <4>1. u \in Int /\ v \in Int /\ frame'[c][u] = frame[c][u] /\ swapped'[c][u] = swapped[c][u]
        BY <3>2, SlotFacts, ConstantsAssumption, ZenonT(60) DEF Pages
      <4>2. /\ u >= v => frame[c][u] = NULL
            /\ u < v /\ frame[c][u] = NULL => ~NONE /\ swapped[c][u] # NULL
        BY <1>1, ZenonT(60) DEF NpInv
      <4>3. (u >= v + 1 => u >= v) /\ (u < v + 1 => u < v)
        BY <3>2, <4>1
      <4> QED BY <4>1, <4>2, <4>3, ZenonT(60)
    <3> QED BY <3>1, <3>2, ZenonT(60)
  <2>4. UNCHANGED NONE
    BY ZenonT(60)
  <2> QED BY <2>1, <2>2, <2>3, <2>4 DEF NpInv
<1>6. /\ frame'[c][MEM] = frame[c][MEM] /\ pc'[c] = "user" /\ va'[c] = va[c]
      /\ \A t \in Slots : frame'[p][t] = frame[p][t]
      /\ state'[p] = state[p] /\ sz'[p] = sz[p] /\ swapped'[p] = swapped[p]
      /\ np'[p] = c /\ pc'[p] \notin CowPCs /\ pc[p] # "freevm"
  BY <1>1, <1>2, SlotFacts
<1> QED BY <1>1, <1>2, <1>3, <1>4, <1>5, <1>6, NpStep, ZenonT(60)

(* copyonwriteuvm() shares one page. *)
LEMMA ForkSharePageInv ==
  ASSUME IInv, UNCHANGED NONE, NEW p \in Procs, ForkSharePage(p)
  PROVE  IInv'
<1>1. /\ pc[p] = "copyuvm" /\ va[p] < sz[p]
      /\ UNCHANGED <<content, state, parent, pid, sz, swapped, pc, np, nextpid, panicked>>
  BY Zenon DEF ForkSharePage, At
<1>2. PICK c \in Procs, v \in Pages :
        /\ c = np[p] /\ v = va[p] /\ c # p /\ v \in Slots /\ v # MEM
        /\ frame[c][v] = NULL /\ v + 1 \in 0 .. NPages
  BY <1>1, CopyFacts
<1>3. /\ frame[p][v] # NULL /\ IncCounter(frame[p][v])
      /\ frame' = [frame EXCEPT ![c][v] = frame[p][v]]
      /\ writable' = Upd(writable, p, v, FALSE) /\ va' = [va EXCEPT ![p] = v + 1]
  BY <1>2, Zenon DEF ForkSharePage, Upd
<1>4. Shared(c, v, p, v)
  BY ZenonT(60), <1>2, <1>3, MemFacts, ShareFrame
<1>5. WritableSet(writable, writable', p, v, FALSE)
  BY ZenonT(60), <1>3, MemFacts, SetWritable
<1>6. TypeOK'
  <2>1. va' \in [Procs -> 0 .. NPages]
    BY <1>2, <1>3, MemFacts, ZenonT(60) DEF TypeOK
  <2> QED BY <1>1, <1>4, <1>5, <2>1, MemFacts, ZenonT(60)
          DEF TypeOK, KmemType, FrameMaps, Shared, WritableSet
<1>7. Unshared'
  <2>1. ASSUME NEW q \in Procs, NEW u \in Pages, writable'[q][u] PROVE Sole(frame', q, u)
    <3>1. q # p \/ u # v
      BY <1>5, <2>1, ZenonT(60) DEF WritableSet
    <3>2. writable[q][u] /\ u \in Slots
      BY <1>5, <2>1, <3>1, SlotFacts, ZenonT(60) DEF WritableSet
    <3>3. Sole(frame, q, u)
      BY <3>2, MemFacts, ZenonT(60) DEF Unshared
    <3>4. q # c \/ u # v
      BY <1>2, <3>3, ZenonT(60) DEF Sole
    <3> QED BY <1>4, <3>1, <3>2, <3>3, <3>4, ZenonT(60) DEF Shared
  <2>2. ASSUME NEW q \in Procs, frame'[q][MEM] # NULL PROVE Sole(frame', q, MEM)
    BY <1>2, <1>4, <2>2, MemFacts, SlotFacts, ZenonT(60) DEF Unshared, Shared
  <2> QED BY <2>1, <2>2, ZenonT(60) DEF Unshared
<1>8. /\ va'[p] = v + 1 /\ \A q \in Procs : q # p => va'[q] = va[q]
      /\ frame'[c][v] # NULL
      /\ \A q \in Procs, t \in Slots : q # c => frame'[q][t] = frame[q][t]
      /\ \A t \in Slots : t # v => frame'[c][t] = frame[c][t]
      /\ UNCHANGED swapped
  BY <1>1, <1>3, <1>4, MemFacts DEF TypeOK, Shared
<1>9. Control'
  BY <1>1, <1>2, <1>8, NextPage
<1> QED BY <1>4, <1>6, <1>7, <1>9, ZenonT(60) DEF IInv, Shared

(* copyonwriteuvm() and fork() copy one page of the swap file. *)
LEMMA ForkSwappedPageInv ==
  ASSUME IInv, UNCHANGED NONE, NEW p \in Procs, ForkSwappedPage(p)
  PROVE  IInv'
<1>1. /\ pc[p] = "copyuvm" /\ va[p] < sz[p] /\ ~NONE
      /\ UNCHANGED <<freelist, references_count, free_pages, content, state, parent, pid,
                     sz, frame, writable, pc, np, nextpid, panicked>>
  BY Zenon DEF ForkSwappedPage, At
<1>2. PICK c \in Procs, v \in Pages :
        /\ c = np[p] /\ v = va[p] /\ c # p /\ v + 1 \in 0 .. NPages /\ state[p] = "LIVE"
  BY <1>1, CopyFacts
<1>3. /\ frame[p][v] = NULL /\ swapped' = [swapped EXCEPT ![c][v] = swapped[p][v]]
      /\ va' = [va EXCEPT ![p] = v + 1]
  BY <1>2, Zenon DEF ForkSwappedPage
<1>4. swapped[p][v] # NULL
  <2>1. StateInv(p)
    BY ProcFacts, Zenon
  <2> QED BY <1>1, <1>2, <1>3, <2>1, ZenonT(60) DEF StateInv
<1>5. TypeOK'
  <2>1. va' \in [Procs -> 0 .. NPages]
    BY <1>2, <1>3, MemFacts, ZenonT(60) DEF TypeOK
  <2>2. swapped' \in [Procs -> [Pages -> Vals \cup {Junk, NULL}]]
    BY <1>3, MemFacts DEF TypeOK
  <2> QED BY <1>1, <2>1, <2>2, MemFacts, ZenonT(60) DEF TypeOK
<1>6. Counts' /\ Unshared'
  BY <1>1, MemoryKept, ZenonT(60)
<1>7. /\ va'[p] = v + 1 /\ \A q \in Procs : q # p => va'[q] = va[q]
      /\ swapped'[c][v] # NULL
      /\ \A u \in Pages : u # v => swapped'[c][u] = swapped[c][u]
      /\ \A q \in Procs : q # c => swapped'[q] = swapped[q]
      /\ UNCHANGED frame
  BY <1>1, <1>3, <1>4, MemFacts DEF TypeOK
<1>8. Control'
  BY <1>1, <1>2, <1>7, NextPage
<1> QED BY <1>5, <1>6, <1>8, ZenonT(60) DEF IInv

(* copyuvm() copies one page, or fork() gives up. *)
LEMMA ForkCopyPageInv ==
  ASSUME IInv, UNCHANGED NONE, NEW p \in Procs, ForkCopyPage(p)
  PROVE  IInv'
<1>1. /\ pc[p] = "copyuvm" /\ va[p] < sz[p] /\ NONE
      /\ UNCHANGED <<state, parent, pid, sz, swapped, np, nextpid, panicked>>
  BY Zenon DEF ForkCopyPage, At
<1>2. PICK c \in Procs, v \in Pages :
        /\ c = np[p] /\ v = va[p] /\ c # p /\ v \in Slots /\ v # MEM
        /\ state[p] = "LIVE" /\ state[c] = "EMBRYO" /\ pc[c] = "user"
        /\ frame[c][KSTACK] # NULL /\ frame[c][v] = NULL /\ v + 1 \in 0 .. NPages
        /\ \A q \in Procs : q # p /\ pc[q] \in NpPCs => np[q] # c
  BY <1>1, CopyFacts
<1>3. StateInv(p) /\ NpInv(p)
  BY ProcFacts, ZenonT(60)
<1>4. frame[p][v] \in Frames
  BY <1>1, <1>2, <1>3, MemFacts DEF StateInv, KmemType, FrameMaps
<1>5. CASE freelist # {}
  <2>1. /\ Kalloc /\ content' = [content EXCEPT ![KallocFrame] = content[frame[p][v]]]
        /\ frame' = [frame EXCEPT ![c][v] = KallocFrame]
        /\ writable' = Upd(writable, c, v, writable[p][v])
        /\ va' = [va EXCEPT ![p] = v + 1] /\ UNCHANGED pc
    BY <1>2, <1>5, ZenonT(60) DEF ForkCopyPage, Upd
  <2>2. Took(c, v)
    BY ZenonT(60), <1>2, <2>1, MemFacts, TakeFrame
  <2>3. WritableSet(writable, writable', c, v, writable[p][v])
    <3>1. writable[p][v] \in BOOLEAN
      BY MemFacts, Zenon
    <3> QED BY <2>1, <3>1, MemFacts, SetWritable, ZenonT(60)
  <2>4. TypeOK'
    <3>1. content' \in [Frames -> Vals \cup {Junk}]
      BY <1>4, <2>1, <2>2, MemFacts, ZenonT(60) DEF TypeOK, Took
    <3>2. va' \in [Procs -> 0 .. NPages]
      BY <1>2, <2>1, MemFacts, ZenonT(60) DEF TypeOK
    <3> QED BY <1>1, <2>1, <2>2, <2>3, <3>1, <3>2, MemFacts, ZenonT(60)
            DEF TypeOK, KmemType, FrameMaps, Took, WritableSet
  <2>5. Unshared'
    <3>1. ASSUME NEW q \in Procs, NEW u \in Pages, writable'[q][u] PROVE Sole(frame', q, u)
      <4>1. CASE q = c /\ u = v
        BY <2>2, <4>1, ZenonT(60) DEF Took
      <4>2. CASE q # c \/ u # v
        <5>1. Sole(frame, q, u)
          BY <2>3, <3>1, <4>2, MemFacts, ZenonT(60) DEF WritableSet, Unshared
        <5> QED BY <2>2, <4>2, <5>1, SlotFacts, ZenonT(60) DEF Took
      <4> QED BY <4>1, <4>2, Zenon
    <3>2. ASSUME NEW q \in Procs, frame'[q][MEM] # NULL PROVE Sole(frame', q, MEM)
      BY <1>2, <2>2, <3>2, MemFacts, SlotFacts, ZenonT(60) DEF Unshared, Took
    <3> QED BY <3>1, <3>2, Zenon DEF Unshared
  <2>6. /\ va'[p] = v + 1 /\ \A q \in Procs : q # p => va'[q] = va[q]
        /\ frame'[c][v] # NULL /\ UNCHANGED <<state, sz, swapped, pc, np>>
        /\ \A q \in Procs, t \in Slots : q # c => frame'[q][t] = frame[q][t]
        /\ \A t \in Slots : t # v => frame'[c][t] = frame[c][t]
    BY <1>1, <2>1, <2>2, MemFacts DEF TypeOK, Took
  <2>7. Control'
    BY ZenonT(60), <1>1, <1>2, <2>6, NextPage
  <2> QED BY <2>2, <2>4, <2>5, <2>7, ZenonT(60) DEF IInv, Took
<1>6. CASE freelist = {}
  <2>1. /\ pc' = [pc EXCEPT ![p] = "freevm"] /\ va' = [va EXCEPT ![p] = 0]
        /\ UNCHANGED <<freelist, references_count, free_pages, content, frame, writable>>
    BY <1>6, Zenon DEF ForkCopyPage, Kalloc
  <2>2. TypeOK'
    <3>1. pc' \in [Procs -> PCs] /\ va' \in [Procs -> 0 .. NPages]
      BY <2>1, MemFacts, ConstantsAssumption DEF TypeOK, PCs
    <3> QED BY <1>1, <2>1, <3>1, MemFacts, ZenonT(60) DEF TypeOK
  <2>3. /\ pc'[p] = "freevm" /\ va'[p] = 0
        /\ \A q \in Procs : q # p => pc'[q] = pc[q] /\ va'[q] = va[q]
    BY <2>1, MemFacts, ZenonT(60) DEF TypeOK
  <2>4. Counts' /\ Unshared'
    BY <2>1, MemoryKept, Zenon
  <2>5. \A q \in Procs : q # p /\ q # c => Same(q)
    BY <1>1, <2>1, <2>3, ZenonT(60) DEF Same
  <2>6. StateInv(c)'
    BY <1>1, <1>2, <2>1, <2>3, ZenonT(60) DEF StateInv
  <2>7. NpInv(p)'
    <3>1. frame[c][PGDIR] # NULL
      BY <1>1, <1>2, <1>3, Zenon DEF NpInv
    <3> QED BY <1>1, <1>2, <2>1, <2>3, <3>1, ZenonT(60) DEF NpInv
  <2>8. /\ frame'[c][MEM] = frame[c][MEM] /\ pc'[c] = "user" /\ va'[c] = va[c]
        /\ \A t \in Slots : frame'[p][t] = frame[p][t]
        /\ state'[p] = state[p] /\ sz'[p] = sz[p] /\ swapped'[p] = swapped[p]
        /\ np'[p] = c /\ pc[p] \notin CowPCs /\ pc'[p] \notin CowPCs
    BY <1>1, <1>2, <2>1, <2>3, ZenonT(60) DEF CowPCs
  <2>9. Control'
    BY ZenonT(60), <1>1, <1>2, <2>5, <2>6, <2>7, <2>8, NpStep
  <2> QED BY <2>2, <2>4, <2>9, Zenon DEF IInv
<1> QED BY <1>5, <1>6, Zenon

----------------------------------------------------------------------------
(* exit() leaves the memory to the parent. *)
LEMMA ExitInv ==
  ASSUME IInv, UNCHANGED NONE, NEW p \in Procs, Exit(p)
  PROVE  IInv'
<1>1. /\ state[p] = "LIVE" /\ pc[p] = "user"
      /\ state' = [state EXCEPT ![p] = "ZOMBIE"]
      /\ parent' = [q \in Procs |-> IF parent[q] = p THEN initproc ELSE parent[q]]
      /\ swapped' = [swapped EXCEPT ![p] = [v \in Pages |-> NULL]]
      /\ UNCHANGED <<freelist, references_count, free_pages, content, pid, sz, frame,
                     writable, pc, np, va, nextpid, panicked>>
  BY Zenon DEF Exit, Running
<1>2. TypeOK'
  <2>1. state' \in [Procs -> States] /\ parent' \in [Procs -> Procs \cup {NULL}]
    BY <1>1, MemFacts, ConstantsAssumption, Zenon DEF TypeOK, States
  <2>2. swapped' \in [Procs -> [Pages -> Vals \cup {Junk, NULL}]]
    BY <1>1, MemFacts, Zenon DEF TypeOK
  <2> QED BY <1>1, <2>1, <2>2, MemFacts, ZenonT(60) DEF TypeOK
<1>3. Counts' /\ Unshared'
  BY <1>1, MemoryKept, Zenon
<1>4. /\ state'[p] = "ZOMBIE" /\ state[p] = "LIVE" /\ pc[p] = "user"
      /\ UNCHANGED <<frame, sz, pc, np, va>>
      /\ \A q \in Procs : q # p => Same(q)
  BY <1>1, MemFacts, Zenon DEF TypeOK, Same
<1>5. StateInv(p) /\ CowInv(p) /\ NpInv(p)
  BY ProcFacts, Zenon
<1>6. StateInv(p)'
  BY <1>4, <1>5, Zenon DEF StateInv
<1>7. CowInv(p)' /\ NpInv(p)'
  BY ZenonT(60), <1>4, <1>5 DEF CowInv, NpInv, CowPCs, NpPCs
<1>8. Control'
  BY <1>4, <1>6, <1>7, OwnStep, ZenonT(60) DEF NpPCs
<1> QED BY <1>2, <1>3, <1>8, Zenon DEF IInv

(* wait() finds a zombie: PtableLockFree says that nobody else reaps it. *)
LEMMA WaitReapInv ==
  ASSUME IInv, UNCHANGED NONE, NEW p \in Procs, NEW c \in Procs, WaitReap(p, c)
  PROVE  IInv'
<1>1. /\ state[p] = "LIVE" /\ pc[p] = "user" /\ state[c] = "ZOMBIE" /\ c # p
      /\ PtableLockFree /\ Kfree(frame[c][KSTACK])
      /\ frame' = [frame EXCEPT ![c][KSTACK] = NULL]
      /\ np' = [np EXCEPT ![p] = c] /\ pc' = [pc EXCEPT ![p] = "freevm"]
      /\ UNCHANGED <<state, parent, pid, sz, writable, swapped, va, nextpid, panicked>>
  BY Zenon DEF WaitReap, Running
<1>2. \A q \in Procs : pc[q] \in NpPCs => np[q] # c
  BY <1>1, NpFacts DEF PtableLockFree
<1>3. StateInv(c) /\ NpInv(p)
  BY ProcFacts, Zenon
<1>4. frame[c][KSTACK] # NULL /\ frame[c][PGDIR] # NULL /\ va[p] = 0 /\ pc[c] = "user"
  BY <1>1, <1>2, <1>3, Zenon DEF StateInv, NpInv, NpPCs, CowPCs
<1>5. Dropped(c, KSTACK)
  BY ZenonT(60), <1>1, <1>4, MemFacts, SlotFacts, DropFrame
<1>6. TypeOK'
  <2>1. content' \in [Frames -> Vals \cup {Junk}]
    BY <1>1, <1>5, MemFacts, Zenon DEF Kfree, TypeOK, Dropped
  <2>2. pc' \in [Procs -> PCs] /\ np' \in [Procs -> Procs \cup {NULL}]
    BY <1>1, MemFacts, Zenon DEF TypeOK, PCs
  <2> QED BY <1>1, <1>5, <2>1, <2>2, MemFacts, ZenonT(60) DEF TypeOK, KmemType, FrameMaps, Dropped
<1>7. Unshared'
  BY ZenonT(60), <1>1, <1>5, MemFacts, SlotFacts DEF Unshared, Dropped
<1>8. /\ pc'[p] = "freevm" /\ np'[p] = c
      /\ \A q \in Procs : q # p => pc'[q] = pc[q] /\ np'[q] = np[q]
      /\ UNCHANGED <<state, sz, swapped, va>> /\ frame'[c][KSTACK] = NULL
      /\ \A t \in Slots : t # KSTACK => frame'[c][t] = frame[c][t]
      /\ \A q \in Procs, t \in Slots : q # c => frame'[q][t] = frame[q][t]
  BY <1>1, <1>5, MemFacts DEF TypeOK, Dropped
<1>9. \A q \in Procs : q # p /\ q # c => Same(q)
  BY ZenonT(60), <1>8 DEF Same
<1>10. StateInv(c)'
  BY <1>1, <1>4, <1>8, SlotFacts, ZenonT(60) DEF StateInv
<1>11. NpInv(p)'
  BY <1>1, <1>4, <1>8, SlotFacts DEF NpInv
<1>12. /\ frame'[c][MEM] = frame[c][MEM] /\ pc'[c] = "user" /\ va'[c] = va[c]
       /\ \A t \in Slots : frame'[p][t] = frame[p][t]
       /\ state'[p] = state[p] /\ sz'[p] = sz[p] /\ swapped'[p] = swapped[p]
       /\ pc[p] \notin CowPCs /\ pc'[p] \notin CowPCs /\ pc[p] # "freevm"
  BY <1>1, <1>4, <1>8, SlotFacts, ZenonT(60) DEF CowPCs
<1>13. Control'
  BY <1>1, <1>2, <1>4, <1>8, <1>9, <1>10, <1>11, <1>12, NpStep, ZenonT(60)
<1> QED BY ZenonT(60), <1>5, <1>6, <1>7, <1>13 DEF IInv, Dropped

(* freevm() frees one page. *)
LEMMA FreevmPageInv ==
  ASSUME IInv, UNCHANGED NONE, NEW p \in Procs, NEW v \in Pages, FreevmPage(p, v)
  PROVE  IInv'
<1>1. /\ pc[p] = "freevm"
      /\ UNCHANGED <<state, parent, pid, sz, swapped, pc, np, va, nextpid, panicked>>
  BY Zenon DEF FreevmPage, At
<1>2. pc[p] \in NpPCs /\ NpInv(p)
  BY <1>1, ProcFacts, ZenonT(60) DEF NpPCs
<1>3. PICK c \in Procs :
        /\ c = np[p] /\ c # p /\ state[p] = "LIVE" /\ pc[c] = "user"
        /\ \/ state[c] = "EMBRYO" /\ frame[c][KSTACK] # NULL
           \/ state[c] = "ZOMBIE" /\ frame[c][KSTACK] = NULL
        /\ \A q \in Procs : q # p /\ pc[q] \in NpPCs => np[q] # c
  BY <1>2, NpFacts
<1>4. /\ frame[c][v] # NULL /\ Kfree(frame[c][v])
      /\ frame' = [frame EXCEPT ![c][v] = NULL] /\ writable' = Upd(writable, c, v, FALSE)
  BY <1>3, Zenon DEF FreevmPage, Upd
<1>5. frame[c][PGDIR] # NULL /\ va[p] = 0 /\ v \in Slots /\ v # KSTACK /\ v # PGDIR /\ v # MEM
  BY <1>1, <1>2, <1>3, SlotFacts, ZenonT(60) DEF NpInv, CowPCs
<1>6. Dropped(c, v)
  BY ZenonT(60), <1>4, <1>5, MemFacts, DropFrame
<1>7. WritableSet(writable, writable', c, v, FALSE)
  BY ZenonT(60), <1>4, MemFacts, SetWritable
<1>8. TypeOK'
  <2>1. content' \in [Frames -> Vals \cup {Junk}]
    BY <1>4, <1>6, MemFacts, ZenonT(60) DEF Kfree, TypeOK, Dropped
  <2> QED BY <1>1, <1>6, <1>7, <2>1, MemFacts, ZenonT(60)
          DEF TypeOK, KmemType, FrameMaps, Dropped, WritableSet
<1>9. Unshared'
  BY <1>5, <1>6, <1>7, MemFacts, SlotFacts DEF Unshared, Dropped, WritableSet
<1>10. /\ frame'[c][v] = NULL
       /\ \A t \in Slots : t # v => frame'[c][t] = frame[c][t]
       /\ \A q \in Procs, t \in Slots : q # c => frame'[q][t] = frame[q][t]
  BY <1>6, Zenon DEF Dropped
<1>11. \A q \in Procs : q # p /\ q # c => Same(q)
  BY <1>1, <1>10, Zenon DEF Same
<1>12. StateInv(c)'
  BY ZenonT(60), <1>1, <1>3, <1>5, <1>10, SlotFacts DEF StateInv
<1>13. NpInv(p)'
  BY ZenonT(60), <1>1, <1>3, <1>5, <1>10, SlotFacts DEF NpInv
<1>14. /\ frame'[c][MEM] = frame[c][MEM] /\ pc'[c] = "user" /\ va'[c] = va[c]
       /\ \A t \in Slots : frame'[p][t] = frame[p][t]
       /\ state'[p] = state[p] /\ sz'[p] = sz[p] /\ swapped'[p] = swapped[p]
       /\ pc[p] \notin CowPCs /\ pc'[p] \notin CowPCs /\ np'[p] = c
  BY ZenonT(60), <1>1, <1>3, <1>5, <1>10, SlotFacts DEF CowPCs
<1>15. Control'
  BY ZenonT(60), <1>3, <1>11, <1>12, <1>13, <1>14, NpStep
<1> QED BY <1>6, <1>8, <1>9, <1>15, ZenonT(60) DEF IInv, Dropped

(* freevm() frees the page directory; wait() then frees the slot. *)
LEMMA FreevmPgdirInv ==
  ASSUME IInv, UNCHANGED NONE, NEW p \in Procs, FreevmPgdir(p)
  PROVE  IInv'
<1>1. pc[p] = "freevm" /\ UNCHANGED <<sz, writable, swapped, va, nextpid, panicked>>
  BY Zenon DEF FreevmPgdir, At
<1>2. pc[p] \in NpPCs /\ NpInv(p)
  BY <1>1, ProcFacts, ZenonT(60) DEF NpPCs
<1>3. PICK c \in Procs :
        /\ c = np[p] /\ c # p /\ state[p] = "LIVE" /\ pc[c] = "user" /\ frame[c][MEM] = NULL
        /\ \/ state[c] = "EMBRYO" /\ frame[c][KSTACK] # NULL
           \/ state[c] = "ZOMBIE" /\ frame[c][KSTACK] = NULL
        /\ \A q \in Procs : q # p /\ pc[q] \in NpPCs => np[q] # c
  BY <1>2, NpFacts
<1>4. /\ Kfree(frame[c][PGDIR]) /\ \A v \in Pages : frame[c][v] = NULL
      /\ frame' = [frame EXCEPT ![c][PGDIR] = NULL]
      /\ state[c] = "ZOMBIE" =>
           /\ parent' = [parent EXCEPT ![c] = NULL] /\ pid' = [pid EXCEPT ![c] = 0]
           /\ state' = [state EXCEPT ![c] = "UNUSED"]
           /\ pc' = [pc EXCEPT ![p] = "user"] /\ np' = [np EXCEPT ![p] = NULL]
      /\ state[c] # "ZOMBIE" =>
           pc' = [pc EXCEPT ![p] = "free_kstack"] /\ UNCHANGED <<parent, pid, state, np>>
  BY <1>3, Zenon DEF FreevmPgdir
<1>5. frame[c][PGDIR] # NULL /\ va[p] = 0
  BY <1>1, <1>2, <1>3, ZenonT(60) DEF NpInv, CowPCs
<1>6. Dropped(c, PGDIR)
  BY ZenonT(60), <1>4, <1>5, MemFacts, SlotFacts, DropFrame
<1>7. TypeOK'
  <2>1. content' \in [Frames -> Vals \cup {Junk}]
    BY <1>4, <1>6, MemFacts, ZenonT(60) DEF Kfree, TypeOK, Dropped
  <2>2. /\ state' \in [Procs -> States] /\ pc' \in [Procs -> PCs]
        /\ np' \in [Procs -> Procs \cup {NULL}] /\ parent' \in [Procs -> Procs \cup {NULL}]
    BY ZenonT(60), <1>4, MemFacts DEF TypeOK, States, PCs
  <2>3. pid' \in [Procs -> 0 .. MaxPid]
    <3>1. pid \in [Procs -> 0 .. MaxPid] /\ 0 \in 0 .. MaxPid
      BY MemFacts, ConstantsAssumption DEF TypeOK
    <3>2. CASE state[c] = "ZOMBIE"
      <4>1. pid' = [pid EXCEPT ![c] = 0]
        BY <1>4, <3>2, ZenonT(60)
      <4> QED BY <3>1, <4>1, ZenonT(60)
    <3>3. CASE state[c] # "ZOMBIE"
      <4>1. pid' = pid
        BY <1>4, <3>3, ZenonT(60)
      <4> QED BY <3>1, <4>1, ZenonT(60)
    <3> QED BY <3>2, <3>3, Zenon
  <2> QED BY ZenonT(60), <1>1, <1>6, <2>1, <2>2, <2>3, MemFacts DEF TypeOK, KmemType, FrameMaps, Dropped
<1>8. Unshared'
  BY <1>1, <1>6, MemFacts, SlotFacts, ZenonT(60) DEF Unshared, Dropped
<1>9. /\ \A q \in Procs : q # p => pc'[q] = pc[q] /\ np'[q] = np[q]
      /\ \A q \in Procs : q # c => state'[q] = state[q]
      /\ state[c] = "ZOMBIE" => state'[c] = "UNUSED" /\ pc'[p] = "user"
      /\ state[c] # "ZOMBIE" => /\ state'[c] = state[c] /\ pc'[p] = "free_kstack"
                                /\ np'[p] = c
  BY <1>3, <1>4, MemFacts DEF TypeOK
<1>10. /\ frame'[c][KSTACK] = frame[c][KSTACK]
       /\ \A s \in Slots : s # KSTACK => frame'[c][s] = NULL
       /\ \A q \in Procs, t \in Slots : q # c => frame'[q][t] = frame[q][t]
  BY <1>3, <1>4, <1>6, SlotFacts DEF Slots, Dropped
<1>11. \A q \in Procs : q # p /\ q # c => Same(q)
  BY ZenonT(60), <1>1, <1>9, <1>10 DEF Same
<1>12. StateInv(c)'
  BY <1>1, <1>3, <1>9, <1>10, ZenonT(60) DEF StateInv
<1>13. NpInv(p)'
  BY ZenonT(60), <1>1, <1>3, <1>5, <1>9, <1>10 DEF NpInv, NpPCs
<1>14. /\ frame'[c][MEM] = frame[c][MEM] /\ pc'[c] = "user" /\ va'[c] = va[c]
       /\ \A t \in Slots : frame'[p][t] = frame[p][t]
       /\ state'[p] = state[p] /\ sz'[p] = sz[p] /\ swapped'[p] = swapped[p]
       /\ pc[p] \notin CowPCs /\ pc'[p] \notin CowPCs
       /\ pc'[p] \in NpPCs => np'[p] = c
  BY <1>1, <1>3, <1>9, <1>10, SlotFacts, ZenonT(60) DEF CowPCs, NpPCs
<1>15. Control'
  BY ZenonT(60), <1>3, <1>11, <1>12, <1>13, <1>14, NpStep
<1> QED BY <1>6, <1>7, <1>8, <1>15, ZenonT(60) DEF IInv, Dropped

----------------------------------------------------------------------------
(* Every step preserves the inductive invariant. *)
LEMMA NextInv == IInv /\ [Next]_vars => IInv'
<1> SUFFICES ASSUME IInv, [Next]_vars PROVE IInv'
  BY Zenon
<1>1. CASE UNCHANGED vars
  <2>1. TypeOK'
    BY <1>1, MemFacts, ZenonT(60) DEF TypeOK, vars
  <2> QED BY <1>1, <2>1, MemoryKept, ControlKept, ZenonT(60) DEF IInv, vars
<1>2. CASE Next
  <2>1. PICK p \in Procs : ProcNext(p)
    BY <1>2, Zenon DEF Next
  <2>2. UNCHANGED NONE
    BY <1>2, Zenon DEF Next
  <2>3. CASE \E v \in Pages, x \in Vals : Store(p, v, x)
    BY <2>2, <2>3, StoreInv, ZenonT(60)
  <2>4. CASE Grow(p)
    BY <2>2, <2>4, GrowInv, ZenonT(60)
  <2>5. CASE Shrink(p)
    BY <2>2, <2>5, ShrinkInv
  <2>6. CASE \E v \in Pages : SwapOut(p, v) \/ SwapIn(p, v) \/ CowFault(p, v)
    BY <2>2, <2>6, SwapOutInv, SwapInInv, CowFaultInv, ZenonT(60)
  <2>7. CASE CowKalloc(p) \/ CowCopy(p) \/ CowDec(p)
    BY <2>2, <2>7, CowKallocInv, CowCopyInv, CowDecInv, ZenonT(60)
  <2>8. CASE \E c \in Procs : ForkAllocproc(p, c) \/ WaitReap(p, c)
    BY <2>2, <2>8, ForkAllocprocInv, WaitReapInv, ZenonT(60)
  <2>9. CASE ForkSetupkvm(p) \/ ForkSharePage(p) \/ ForkSwappedPage(p) \/ ForkCopyPage(p)
    BY <2>2, <2>9, ForkSetupkvmInv, ForkSharePageInv, ForkSwappedPageInv, ForkCopyPageInv, ZenonT(60)
  <2>10. CASE ForkDone(p) \/ FreeKstack(p)
    BY <2>2, <2>10, ForkDoneInv, FreeKstackInv, ZenonT(60)
  <2>11. CASE Exit(p)
    BY <2>2, <2>11, ExitInv
  <2>12. CASE \E v \in Pages : FreevmPage(p, v)
    BY <2>2, <2>12, FreevmPageInv, ZenonT(60)
  <2>13. CASE FreevmPgdir(p)
    BY <2>2, <2>13, FreevmPgdirInv
  <2> QED BY <2>1, <2>3, <2>4, <2>5, <2>6, <2>7, <2>8, <2>9, <2>10, <2>11, <2>12, <2>13, ZenonT(60)
          DEF ProcNext
<1> QED BY <1>1, <1>2, ZenonT(60)

(* The inductive invariant holds in every reachable state. *)
THEOREM Invariance == Spec => []IInv
<1>1. Init => IInv
  BY InitInv, CountingHolds, Zenon
<1>2. IInv /\ [Next]_vars => IInv'
  BY NextInv, Zenon
<1> QED BY <1>1, <1>2, PTL DEF Spec

(* Every variable keeps its type: kalloc() and kfree() keep free_pages and *)
(* the counts natural, and fork(), sbrk() and paging stay within bounds.   *)
THEOREM TypeCorrect == Spec => []TypeOK
<1>1. IInv => TypeOK
  BY Zenon DEF IInv
<1> QED BY <1>1, Invariance, PTL

(* The reference counts of kalloc.c are exact, whatever the interleaving   *)
(* of fork(), handle_cow(), paging, exit() and wait().                     *)
THEOREM RefCounts == Spec => []RefCountsExact
<1>1. IInv => RefCountsExact
  BY Zenon DEF IInv, Counts
<1> QED BY <1>1, Invariance, PTL

(* kalloc() never returns a page somebody holds: kfree() puts a page on    *)
(* the free list only with its last reference.                             *)
THEOREM FreeFrames == Spec => []FreeFramesUnheld
<1>1. IInv => FreeFramesUnheld
  BY Zenon DEF IInv, Counts
<1> QED BY <1>1, Invariance, PTL

(* A page with PTE_W is held by nobody else: copy-on-write never lets two  *)
(* processes write the same frame.                                         *)
THEOREM WritablePages == Spec => []WritableUnshared
<1>1. IInv => WritableUnshared
  BY Zenon DEF IInv, Unshared, Sole, WritableUnshared, Held, Holders
<1> QED BY <1>1, Invariance, PTL

(* free_pages counts every free page at least once. *)
THEOREM FreePages == Spec => []FreePagesNotUnder
<1>1. IInv => FreePagesNotUnder
  BY Zenon DEF IInv, Counts
<1> QED BY <1>1, Invariance, PTL

(* Copy-on-write is invisible: whatever the interleaving of stores, faults,  *)
(* forks, paging and exits, every process sees a memory of its own, which    *)
(* fork() copies and only its own stores and sbrk() change (vm.c, proc.c).   *)
THEOREM PrivateMemories == Spec => PrivateSpec
<1>1. Init => Copies /\ Private!Init BY InitSeen
<1>2. IInv /\ Copies /\ [Next]_vars => Copies' /\ [Private!Next]_Mem BY NextSeen
<1> QED BY <1>1, <1>2, Invariance, PTL DEF Spec, PrivateSpec, Private!Spec
============================================================================
