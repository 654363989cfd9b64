----------------------------- MODULE CowSteps ------------------------------
(***************************************************************************)
(* The inductive invariant of module Cow, for every number of processes,   *)
(* pages and frames: first what kalloc(), kfree(), inc_counter() and       *)
(* dec_counter() do to the holders of the frames, then the invariant, and  *)
(* then the steps of sbrk() and paging, of stores, of handle_cow() and of  *)
(* fork() before and after copyuvm().  Module CowProofs has the others.    *)
(* The last part is about what each step does to the memories the          *)
(* processes see.                                                          *)
(*                                                                         *)
(* What is known of finite sets is the hypothesis Counting here: module    *)
(* CowProofs proves it.                                                    *)
(***************************************************************************)
EXTENDS Cow, TLAPS

(* Who holds frame f when the processes reach their frames through fr. *)
Held(fr, f) == {h \in Procs \X Slots : fr[h[1]][h[2]] = f}

(* There are finitely many slots; and how many elements a finite set has.  *)
Counting ==
  /\ IsFiniteSet(Procs \X Slots)
  /\ \A S, T : IsFiniteSet(T) /\ S \subseteq T => IsFiniteSet(S)
  /\ \A S : IsFiniteSet(S) =>
       /\ Cardinality(S) \in Nat
       /\ Cardinality(S) = 0 <=> S = {}
       /\ Cardinality(S) = 1 <=> \E x : S = {x}
       /\ \A x : /\ Cardinality(S \cup {x}) =
                      IF x \in S THEN Cardinality(S) ELSE Cardinality(S) + 1
                /\ Cardinality(S \ {x}) =
                      IF x \in S THEN Cardinality(S) - 1 ELSE Cardinality(S)
  /\ Cardinality({}) = 0 /\ \A x : Cardinality({x}) = 1

(* The map after slot s of p was given g. *)
Upd(fr, p, s, g) == [fr EXCEPT ![p][s] = g]

(* fs differs from fr in slot s of p, which now has g: its old frame loses *)
(* this holder, g gains it.                                                *)
SlotSet(fr, fs, p, s, g) ==
  /\ fs \in [Procs -> [Slots -> Frames \cup {NULL}]]
  /\ fs[p][s] = g
  /\ \A q \in Procs, t \in Slots : q # p \/ t # s => fs[q][t] = fr[q][t]
  /\ \A f \in Frames : f = g => Held(fs, f) = Held(fr, f) \cup {<<p, s>>}
  /\ \A f \in Frames : f # g => Held(fs, f) = Held(fr, f) \ {<<p, s>>}

(* PTE_W of page v of p is now b. *)
WritableSet(w, ws, p, v, b) ==
  /\ ws \in [Procs -> [Pages -> BOOLEAN]]
  /\ ws[p][v] = b
  /\ \A q \in Procs, u \in Pages : q # p \/ u # v => ws[q][u] = w[q][u]

(* Slot s of q is the only holder of its frame. *)
Sole(fr, q, s) == fr[q][s] # NULL /\ Held(fr, fr[q][s]) = {<<q, s>>}

FrameMaps == [Procs -> [Slots -> Frames \cup {NULL}]]

(* A writable page, and a page handle_cow() has allocated, have one holder. *)
Unshared ==
  /\ \A q \in Procs, v \in Pages : writable[q][v] => Sole(frame, q, v)
  /\ \A q \in Procs : frame[q][MEM] # NULL => Sole(frame, q, MEM)

Counts == Counting /\ RefCountsExact /\ FreeFramesUnheld /\ FreePagesNotUnder

(* The types of what kalloc.c keeps, and of the slots. *)
KmemType ==
  /\ freelist \subseteq Frames
  /\ references_count \in [Frames -> Nat]
  /\ free_pages \in Nat
  /\ frame \in FrameMaps

(* Slot s of p was empty and now has the frame kalloc() returned. *)
Took(p, s) ==
  /\ KmemType' /\ Counts'
  /\ KallocFrame \in Frames /\ frame'[p][s] # NULL /\ Sole(frame', p, s)
  /\ \A q \in Procs, t \in Slots : q # p \/ t # s =>
       frame'[q][t] = frame[q][t] /\ (Sole(frame, q, t) => Sole(frame', q, t))

(* Slot s of p gave its frame to kfree(). *)
Dropped(p, s) ==
  /\ KmemType' /\ Counts'
  /\ frame[p][s] \in Frames /\ frame'[p][s] = NULL
  /\ \A q \in Procs, t \in Slots : q # p \/ t # s =>
       frame'[q][t] = frame[q][t] /\ (Sole(frame, q, t) => Sole(frame', q, t))

(* Slot s of p was empty and now shares the frame in slot t of q. *)
Shared(p, s, q, t) ==
  /\ KmemType' /\ Counts'
  /\ frame'[p][s] = frame[q][t]
  /\ \A r \in Procs, u \in Slots : r # p \/ u # s =>
       /\ frame'[r][u] = frame[r][u]
       /\ Sole(frame, r, u) /\ (r # q \/ u # t) => Sole(frame', r, u)

(* Page v of p gave up its frame for the one in slot MEM. *)
Moved(p, v) ==
  /\ KmemType' /\ Counts'
  /\ Sole(frame', p, v) /\ frame'[p][MEM] = NULL
  /\ \A r \in Procs, u \in Slots : r # p \/ u \notin {v, MEM} =>
       frame'[r][u] = frame[r][u] /\ (Sole(frame, r, u) => Sole(frame', r, u))

USE SMTT(30), ZenonT(60), SMTT(120)

----------------------------------------------------------------------------
(* The holders of a frame can be counted. *)
LEMMA HeldFinite ==
  ASSUME Counting, NEW fr, NEW f
  PROVE  IsFiniteSet(Held(fr, f)) /\ Cardinality(Held(fr, f)) \in Nat
<1>1. Held(fr, f) \subseteq Procs \X Slots
  BY Zenon DEF Held
<1> QED BY <1>1, Zenon DEF Counting

(* The elements of a set with one more, or one less. *)
LEMMA AddOne ==
  ASSUME Counting, NEW S, IsFiniteSet(S), NEW x
  PROVE  Cardinality(S \cup {x}) = IF x \in S THEN Cardinality(S) ELSE Cardinality(S) + 1
  BY ZenonT(60) DEF Counting

LEMMA RemoveOne ==
  ASSUME Counting, NEW S, IsFiniteSet(S), NEW x \in S
  PROVE  Cardinality(S \ {x}) = Cardinality(S) - 1
  BY ZenonT(60) DEF Counting

(* A set with one element, and the empty set. *)
LEMMA OneElement ==
  ASSUME Counting, NEW x
  PROVE  Cardinality({x}) = 1
  BY ZenonT(60) DEF Counting

LEMMA NoElement ==
  ASSUME Counting, NEW S, IsFiniteSet(S)
  PROVE  Cardinality(S) = 0 <=> S = {}
  BY ZenonT(60) DEF Counting

(* The free list is finite, as the frames are. *)
LEMMA FreeFinite ==
  ASSUME Counting, KmemType
  PROVE  IsFiniteSet(freelist) /\ Cardinality(freelist) \in Nat
  BY ConstantsAssumption, Zenon DEF Counting, KmemType

(* One slot changes: its old frame loses this holder, its new one gains    *)
(* it.                                                                     *)
LEMMA SetSlot ==
  ASSUME NEW fr \in FrameMaps, NEW p \in Procs, NEW s \in Slots,
         NEW g \in Frames \cup {NULL}
  PROVE  SlotSet(fr, Upd(fr, p, s, g), p, s, g)
<1> DEFINE fs == Upd(fr, p, s, g)
<1>1. fs \in FrameMaps
  BY Zenon DEF FrameMaps, Upd
<1>2. fs[p][s] = g
  BY Zenon DEF FrameMaps, Upd
<1>3. \A q \in Procs, t \in Slots : q # p \/ t # s => fs[q][t] = fr[q][t]
  BY Zenon DEF FrameMaps, Upd
<1> HIDE DEF fs
<1>4. \A f \in Frames : f = g => Held(fs, f) = Held(fr, f) \cup {<<p, s>>}
  BY <1>2, <1>3 DEF Held
<1>5. \A f \in Frames : f # g => Held(fs, f) = Held(fr, f) \ {<<p, s>>}
  BY <1>2, <1>3 DEF Held
<1> QED BY <1>1, <1>2, <1>3, <1>4, <1>5, Zenon DEF fs, SlotSet, FrameMaps

(* kalloc() into an empty slot. *)
LEMMA TakeFrame ==
  ASSUME KmemType, Counts, Kalloc,
         NEW p \in Procs, NEW s \in Slots, frame[p][s] = NULL,
         frame' = [frame EXCEPT ![p][s] = KallocFrame]
  PROVE  Took(p, s)
<1> DEFINE K == KallocFrame
<1>1. K \in freelist /\ K \in Frames
  BY Zenon DEF KallocFrame, Kalloc, KmemType
<1> HIDE DEF K
<1>2. IsFiniteSet(freelist) /\ Cardinality(freelist) \in Nat
  BY FreeFinite, Zenon DEF Counts
<1>3. Cardinality(freelist \ {K}) = Cardinality(freelist) - 1
  BY ZenonT(60), <1>1, <1>2, RemoveOne DEF Counts
<1>4. Cardinality(freelist \ {K}) \in Nat
  BY ZenonT(60), <1>2 DEF Counts, Counting
<1>5. /\ freelist' = freelist \ {K}
      /\ references_count' = [references_count EXCEPT ![K] = 1]
      /\ free_pages' = free_pages - 1
      /\ frame' = Upd(frame, p, s, K)
  BY Zenon DEF Kalloc, K, Upd
<1>6. Held(frame, K) = {}
  BY <1>1, Zenon DEF Counts, FreeFramesUnheld, Holders, Held
<1>7. /\ frame' \in FrameMaps /\ frame'[p][s] = K
      /\ \A q \in Procs, t \in Slots : q # p \/ t # s => frame'[q][t] = frame[q][t]
      /\ \A f \in Frames : Held(frame', f) =
           IF f = K THEN Held(frame, f) \cup {<<p, s>>} ELSE Held(frame, f) \ {<<p, s>>}
  <2>1. frame \in FrameMaps /\ K \in Frames \cup {NULL}
    BY <1>1, Zenon DEF KmemType
  <2>2. SlotSet(frame, Upd(frame, p, s, K), p, s, K)
    BY <2>1, SetSlot, Zenon
  <2>3. SlotSet(frame, frame', p, s, K)
    BY ZenonT(60), <1>5, <2>2, Zenon
  <2> QED BY ZenonT(60), <2>3 DEF SlotSet, FrameMaps
<1>8. \A f \in Frames : <<p, s>> \notin Held(frame, f)
  BY ConstantsAssumption, Zenon DEF Held
<1>9. \A f \in Frames : Held(frame', f) = IF f = K THEN {<<p, s>>} ELSE Held(frame, f)
  <2> SUFFICES ASSUME NEW f \in Frames
               PROVE  Held(frame', f) = IF f = K THEN {<<p, s>>} ELSE Held(frame, f)
    BY ZenonT(60)
  <2>1. Held(frame', f) =
          IF f = K THEN Held(frame, f) \cup {<<p, s>>} ELSE Held(frame, f) \ {<<p, s>>}
    BY ZenonT(60), <1>7
  <2> QED BY ZenonT(60), <1>6, <1>8, <2>1
<1>10. KmemType'
  BY <1>1, <1>2, <1>3, <1>4, <1>5, <1>7 DEF KmemType, Counts, FreePagesNotUnder
<1>11. RefCountsExact'
  <2> SUFFICES ASSUME NEW f \in Frames
               PROVE  references_count'[f] = Cardinality(Held(frame', f))
    BY Zenon DEF RefCountsExact, Holders, Held
  <2>1. references_count[f] = Cardinality(Held(frame, f))
    BY ZenonT(60) DEF Counts, RefCountsExact, Holders, Held
  <2>2. Cardinality({<<p, s>>}) = 1
    BY OneElement, Zenon DEF Counts
  <2> QED BY ZenonT(60), <1>1, <1>5, <1>9, <2>1, <2>2 DEF KmemType
<1>12. FreeFramesUnheld'
  BY <1>1, <1>5, <1>9, Zenon DEF Counts, FreeFramesUnheld, Holders, Held, KmemType
<1>13. FreePagesNotUnder'
  BY <1>2, <1>3, <1>5 DEF Counts, FreePagesNotUnder, KmemType
<1>14. Sole(frame', p, s)
  BY ZenonT(60), <1>1, <1>7, <1>9, ConstantsAssumption DEF Sole
<1>15. ASSUME NEW q \in Procs, NEW t \in Slots, q # p \/ t # s, Sole(frame, q, t)
       PROVE  Sole(frame', q, t)
  <2>1. frame'[q][t] = frame[q][t] /\ frame[q][t] # NULL
    BY <1>7, <1>15, Zenon DEF Sole
  <2>2. frame[q][t] \in Frames
    BY <2>1 DEF KmemType, FrameMaps
  <2>3. frame[q][t] # K
    BY ZenonT(60), <1>6, <1>15 DEF Sole
  <2>4. Held(frame', frame[q][t]) = Held(frame, frame[q][t])
    BY ZenonT(60), <1>9, <2>2, <2>3
  <2> QED BY ZenonT(60), <1>15, <2>1, <2>4 DEF Sole
<1> QED BY ZenonT(60), <1>1, <1>7, <1>10, <1>11, <1>12, <1>13, <1>14, <1>15 DEF Counts, K, Took, Sole

(* kfree() of the frame in a slot, which becomes empty. *)
LEMMA DropFrame ==
  ASSUME KmemType, Counts, NEW p \in Procs, NEW s \in Slots, frame[p][s] # NULL,
         Kfree(frame[p][s]), frame' = [frame EXCEPT ![p][s] = NULL]
  PROVE  Dropped(p, s)
<1> DEFINE F == frame[p][s]
           refs == IF references_count[F] > 0 THEN references_count[F] - 1 ELSE 0
<1>1. F \in Frames
  BY Zenon DEF KmemType, FrameMaps
<1>2. /\ references_count' = [references_count EXCEPT ![F] = refs]
      /\ free_pages' = free_pages + 1
      /\ freelist' = IF refs = 0 THEN freelist \cup {F} ELSE freelist
  BY Zenon DEF Kfree
<1>3. /\ frame' \in FrameMaps /\ frame'[p][s] = NULL
      /\ \A q \in Procs, t \in Slots : q # p \/ t # s => frame'[q][t] = frame[q][t]
      /\ \A f \in Frames : Held(frame', f) = Held(frame, f) \ {<<p, s>>}
  <2>1. frame' = Upd(frame, p, s, NULL) /\ frame \in FrameMaps
    BY Zenon DEF Upd, KmemType
  <2>2. \A f \in Frames : f # NULL
    BY ConstantsAssumption, Zenon
  <2>3. SlotSet(frame, frame', p, s, NULL)
    <3>1. NULL \in Frames \cup {NULL}
      BY Zenon
    <3>2. SlotSet(frame, Upd(frame, p, s, NULL), p, s, NULL)
      BY <2>1, <3>1, SetSlot, Zenon
    <3> QED BY ZenonT(60), <2>1, <3>2
  <2> QED BY ZenonT(60), <2>2, <2>3 DEF SlotSet, FrameMaps
<1>4. <<p, s>> \in Held(frame, F)
  BY Zenon DEF Held
<1>5. references_count[F] = Cardinality(Held(frame, F)) /\ references_count[F] \in Nat
  BY <1>1, Zenon DEF Counts, RefCountsExact, Holders, Held, KmemType
<1>6. /\ Cardinality(Held(frame', F)) = references_count[F] - 1
      /\ Cardinality(Held(frame', F)) \in Nat
  <2>1. Held(frame', F) = Held(frame, F) \ {<<p, s>>}
    BY ZenonT(60), <1>1, <1>3
  <2>2. Cardinality(Held(frame, F) \ {<<p, s>>}) = Cardinality(Held(frame, F)) - 1
    BY ZenonT(60), <1>4, HeldFinite, RemoveOne DEF Counts
  <2> QED BY ZenonT(60), <1>5, <2>1, <2>2, HeldFinite DEF Counts
<1>7. refs = Cardinality(Held(frame', F)) /\ refs \in Nat
  BY <1>5, <1>6
<1>8. \A f \in Frames \ {F} : Held(frame', f) = Held(frame, f)
  BY <1>3 DEF Held
<1> HIDE DEF F, refs
<1>9. KmemType'
  BY <1>1, <1>2, <1>3, <1>7 DEF KmemType
<1>10. RefCountsExact'
  <2> SUFFICES ASSUME NEW f \in Frames
               PROVE  references_count'[f] = Cardinality(Held(frame', f))
    BY Zenon DEF RefCountsExact, Holders, Held
  <2>1. references_count[f] = Cardinality(Held(frame, f))
    BY Zenon DEF Counts, RefCountsExact, Holders, Held
  <2> QED BY ZenonT(60), <1>1, <1>2, <1>7, <1>8, <2>1 DEF KmemType
<1>11. FreeFramesUnheld'
  <2>1. refs = 0 => Held(frame', F) = {}
    BY ZenonT(60), <1>7, HeldFinite, NoElement DEF Counts
  <2>2. \A f \in freelist : Held(frame, f) = {} /\ f \in Frames
    BY Zenon DEF Counts, FreeFramesUnheld, Holders, Held, KmemType
  <2>3. \A f \in freelist' : Held(frame', f) = {}
    BY ZenonT(60), <1>2, <1>3, <2>1, <2>2
  <2> QED BY <2>3, Zenon DEF FreeFramesUnheld, Holders, Held
<1>12. FreePagesNotUnder'
  <2>1. IsFiniteSet(freelist) /\ Cardinality(freelist) \in Nat
    BY FreeFinite, Zenon DEF Counts
  <2>2. Cardinality(freelist \cup {F}) \in Nat
        /\ Cardinality(freelist \cup {F}) <= Cardinality(freelist) + 1
    <3>1. Cardinality(freelist \cup {F}) =
            IF F \in freelist THEN Cardinality(freelist) ELSE Cardinality(freelist) + 1
      BY ZenonT(60), <2>1, AddOne DEF Counts
    <3> QED BY <2>1, <3>1
  <2> QED BY <1>2, <2>1, <2>2 DEF Counts, FreePagesNotUnder, KmemType
<1>13. ASSUME NEW q \in Procs, NEW t \in Slots, q # p \/ t # s, Sole(frame, q, t)
       PROVE  Sole(frame', q, t)
  <2>1. frame'[q][t] = frame[q][t] /\ frame[q][t] # NULL
    BY <1>3, <1>13, Zenon DEF Sole
  <2>2. frame[q][t] \in Frames
    BY <2>1 DEF KmemType, FrameMaps
  <2>3. Held(frame', frame[q][t]) = Held(frame, frame[q][t]) \ {<<p, s>>}
    BY ZenonT(60), <1>3, <2>2
  <2>4. <<q, t>> # <<p, s>> /\ Held(frame, frame[q][t]) = {<<q, t>>}
    BY <1>13, Zenon DEF Sole
  <2>5. Held(frame', frame[q][t]) = {<<q, t>>}
    BY ZenonT(60), <2>3, <2>4
  <2> QED BY ZenonT(60), <2>1, <2>5 DEF Sole
<1> QED BY ZenonT(60), <1>1, <1>3, <1>9, <1>10, <1>11, <1>12, <1>13 DEF Counts, F, Dropped

(* inc_counter() of a frame somebody holds, which one more slot now holds. *)
LEMMA ShareFrame ==
  ASSUME KmemType, Counts, NEW p \in Procs, NEW s \in Slots, frame[p][s] = NULL,
         NEW q \in Procs, NEW t \in Slots, frame[q][t] # NULL,
         IncCounter(frame[q][t]), frame' = [frame EXCEPT ![p][s] = frame[q][t]]
  PROVE  Shared(p, s, q, t)
<1> DEFINE F == frame[q][t]
<1>1. F \in Frames
  BY DEF KmemType, FrameMaps
<1>2. /\ references_count' = [references_count EXCEPT ![F] = references_count[F] + 1]
      /\ free_pages' = free_pages /\ freelist' = freelist
      /\ frame' = Upd(frame, p, s, F)
  BY Zenon DEF IncCounter, Upd
<1>3. <<q, t>> \in Held(frame, F)
  BY Zenon DEF Held
<1> HIDE DEF F
<1>4. /\ frame' \in FrameMaps /\ frame'[p][s] = F
      /\ \A r \in Procs, u \in Slots : r # p \/ u # s => frame'[r][u] = frame[r][u]
      /\ \A f \in Frames : f = F => Held(frame', f) = Held(frame, f) \cup {<<p, s>>}
      /\ \A f \in Frames : f # F => Held(frame', f) = Held(frame, f) \ {<<p, s>>}
  <2>1. frame \in FrameMaps /\ F \in Frames \cup {NULL}
    BY <1>1, Zenon DEF KmemType
  <2>2. SlotSet(frame, Upd(frame, p, s, F), p, s, F)
    BY <2>1, SetSlot, Zenon
  <2>3. SlotSet(frame, frame', p, s, F)
    BY ZenonT(60), <1>2, <2>2, Zenon
  <2> QED BY ZenonT(60), <2>3 DEF SlotSet, FrameMaps
<1>5. \A f \in Frames : <<p, s>> \notin Held(frame, f)
  BY ConstantsAssumption, Zenon DEF Held
<1>6. \A f \in Frames : f # F => Held(frame', f) = Held(frame, f)
  <2> SUFFICES ASSUME NEW f \in Frames, f # F
               PROVE  Held(frame', f) = Held(frame, f)
    BY ZenonT(60)
  <2>1. Held(frame', f) = Held(frame, f) \ {<<p, s>>}
    BY ZenonT(60), <1>4
  <2>2. <<p, s>> \notin Held(frame, f)
    BY <1>5, Zenon
  <2> QED BY ZenonT(60), <2>1, <2>2
<1>7. KmemType'
  BY <1>1, <1>2, <1>4 DEF KmemType
<1>8. RefCountsExact'
  <2> SUFFICES ASSUME NEW f \in Frames
               PROVE  references_count'[f] = Cardinality(Held(frame', f))
    BY ZenonT(60) DEF RefCountsExact, Holders, Held
  <2>1. references_count[f] = Cardinality(Held(frame, f))
    BY Zenon DEF Counts, RefCountsExact, Holders, Held
  <2>2. Cardinality(Held(frame, f) \cup {<<p, s>>}) = Cardinality(Held(frame, f)) + 1
    BY ZenonT(60), <1>5, HeldFinite, AddOne DEF Counts
  <2>3. f = F => Held(frame', f) = Held(frame, f) \cup {<<p, s>>}
    BY ZenonT(60), <1>4
  <2> QED BY ZenonT(60), <1>1, <1>2, <1>6, <2>1, <2>2, <2>3 DEF KmemType
<1>9. FreeFramesUnheld'
  <2>1. \A f \in freelist : Held(frame, f) = {} /\ f \in Frames
    BY Zenon DEF Counts, FreeFramesUnheld, Holders, Held, KmemType
  <2>2. \A f \in freelist : f # F
    BY <1>3, <2>1, Zenon
  <2>3. \A f \in freelist : Held(frame', f) = {}
    BY ZenonT(60), <1>6, <2>1, <2>2
  <2> QED BY <1>2, <2>3, Zenon DEF FreeFramesUnheld, Holders, Held
<1>10. FreePagesNotUnder'
  BY <1>2, Zenon DEF Counts, FreePagesNotUnder
<1>11. ASSUME NEW r \in Procs, NEW u \in Slots, r # p \/ u # s, r # q \/ u # t,
              Sole(frame, r, u)
       PROVE  Sole(frame', r, u)
  <2>1. frame'[r][u] = frame[r][u] /\ frame[r][u] # NULL
    BY <1>4, <1>11, Zenon DEF Sole
  <2>2. frame[r][u] \in Frames
    BY <2>1 DEF KmemType, FrameMaps
  <2>3. <<q, t>> # <<r, u>> /\ Held(frame, frame[r][u]) = {<<r, u>>}
    BY <1>11, Zenon DEF Sole
  <2>4. frame[r][u] # F
    BY <1>3, <2>3, Zenon
  <2>5. Held(frame', frame[r][u]) = {<<r, u>>}
    BY ZenonT(60), <1>6, <2>2, <2>3, <2>4
  <2> QED BY ZenonT(60), <2>1, <2>5 DEF Sole
<1> QED BY ZenonT(60), <1>4, <1>7, <1>8, <1>9, <1>10, <1>11 DEF Counts, F, Shared

(* The end of handle_cow(): the copy in MEM replaces the shared frame,     *)
(* whose count goes down by dec_counter().                                 *)
LEMMA MoveFrame ==
  ASSUME KmemType, Counts, NEW p \in Procs, NEW v \in Pages,
         frame[p][v] # NULL, Sole(frame, p, MEM), DecCounter(frame[p][v]),
         frame' = [frame EXCEPT ![p][v] = frame[p][MEM], ![p][MEM] = NULL]
  PROVE  Moved(p, v)
<1> DEFINE F == frame[p][v]
           G == frame[p][MEM]
           fm == Upd(frame, p, v, G)
<1>1. v \in Slots /\ MEM \in Slots /\ v # MEM
  BY ConstantsAssumption DEF Slots, Pages, MEM
<1>2. F \in Frames /\ G \in Frames /\ Held(frame, G) = {<<p, MEM>>} /\ G # NULL
  BY <1>1, Zenon DEF KmemType, FrameMaps, Sole
<1>3. <<p, v>> \in Held(frame, F)
  BY <1>1, Zenon DEF Held
<1>4. F # G
  BY <1>1, <1>2, <1>3
<1>5. /\ references_count' = [references_count EXCEPT ![F] = references_count[F] - 1]
      /\ free_pages' = free_pages /\ freelist' = freelist
  BY Zenon DEF DecCounter
<1>6. frame' = Upd(fm, p, MEM, NULL)
  BY <1>1, Zenon DEF KmemType, FrameMaps, Upd
<1>7. frame \in FrameMaps
  BY Zenon DEF KmemType
<1> HIDE DEF F, G
<1>8. /\ fm \in FrameMaps /\ fm[p][v] = G
      /\ \A r \in Procs, u \in Slots : r # p \/ u # v => fm[r][u] = frame[r][u]
      /\ \A f \in Frames : f = G => Held(fm, f) = Held(frame, f) \cup {<<p, v>>}
      /\ \A f \in Frames : f # G => Held(fm, f) = Held(frame, f) \ {<<p, v>>}
  <2>1. SlotSet(frame, fm, p, v, G)
    BY <1>1, <1>2, <1>7, SetSlot, Zenon
  <2> QED BY <2>1, Zenon DEF SlotSet, FrameMaps
<1> HIDE DEF fm
<1>9. /\ frame' \in FrameMaps /\ frame'[p][MEM] = NULL
      /\ \A r \in Procs, u \in Slots : r # p \/ u # MEM => frame'[r][u] = fm[r][u]
      /\ \A f \in Frames : Held(frame', f) = Held(fm, f) \ {<<p, MEM>>}
  <2>1. SlotSet(fm, frame', p, MEM, NULL)
    <3>1. MEM \in Slots /\ fm \in FrameMaps /\ NULL \in Frames \cup {NULL}
      BY <1>1, <1>8, Zenon
    <3>2. SlotSet(fm, Upd(fm, p, MEM, NULL), p, MEM, NULL)
      BY <3>1, SetSlot, Zenon
    <3> QED BY ZenonT(60), <1>6, <3>2, Zenon
  <2>2. \A f \in Frames : f # NULL
    BY ConstantsAssumption, Zenon
  <2> QED BY ZenonT(60), <2>1, <2>2 DEF SlotSet, FrameMaps
<1>10. <<p, v>> # <<p, MEM>>
  BY <1>1, Zenon
<1>11. Held(frame', G) = {<<p, v>>}
  <2>1. Held(frame', G) = ({<<p, MEM>>} \cup {<<p, v>>}) \ {<<p, MEM>>}
    BY ZenonT(60), <1>2, <1>8, <1>9
  <2> QED BY ZenonT(60), <1>10, <2>1
<1>12. \A f \in Frames : f # G => Held(frame', f) = Held(frame, f) \ {<<p, v>>}
  <2> SUFFICES ASSUME NEW f \in Frames, f # G
               PROVE  Held(frame', f) = Held(frame, f) \ {<<p, v>>}
    BY ZenonT(60)
  <2>1. <<p, MEM>> \notin Held(frame, f)
    BY <1>1, Zenon DEF Held, G
  <2>2. Held(frame', f) = (Held(frame, f) \ {<<p, v>>}) \ {<<p, MEM>>}
    BY ZenonT(60), <1>8, <1>9
  <2> QED BY ZenonT(60), <2>1, <2>2
<1>13. \A f \in Frames : f # G /\ f # F => Held(frame', f) = Held(frame, f)
  <2> SUFFICES ASSUME NEW f \in Frames, f # G, f # F
               PROVE  Held(frame', f) = Held(frame, f)
    BY ZenonT(60)
  <2>1. <<p, v>> \notin Held(frame, f)
    BY Zenon DEF Held, F
  <2> QED BY ZenonT(60), <1>12, <2>1
<1>14. /\ references_count[F] = Cardinality(Held(frame, F))
       /\ Cardinality(Held(frame', F)) = references_count[F] - 1
       /\ Cardinality(Held(frame', F)) \in Nat
  <2>1. Held(frame', F) = Held(frame, F) \ {<<p, v>>}
    BY ZenonT(60), <1>2, <1>4, <1>12
  <2>2. Cardinality(Held(frame, F) \ {<<p, v>>}) = Cardinality(Held(frame, F)) - 1
    BY ZenonT(60), <1>3, HeldFinite, RemoveOne DEF Counts
  <2>3. references_count[F] = Cardinality(Held(frame, F))
    BY <1>2, Zenon DEF Counts, RefCountsExact, Holders, Held
  <2> QED BY ZenonT(60), <2>1, <2>2, <2>3, HeldFinite DEF Counts
<1>15. KmemType'
  BY <1>2, <1>5, <1>9, <1>14, Zenon DEF KmemType
<1>16. RefCountsExact'
  <2> SUFFICES ASSUME NEW f \in Frames
               PROVE  references_count'[f] = Cardinality(Held(frame', f))
    BY ZenonT(60) DEF RefCountsExact, Holders, Held
  <2>1. references_count[f] = Cardinality(Held(frame, f))
    BY ZenonT(60) DEF Counts, RefCountsExact, Holders, Held
  <2>2. Cardinality(Held(frame, G)) = 1 /\ Cardinality(Held(frame', G)) = 1
    BY ZenonT(60), <1>2, <1>11, OneElement DEF Counts
  <2> QED BY ZenonT(60), <1>2, <1>4, <1>5, <1>13, <1>14, <2>1, <2>2 DEF KmemType
<1>17. FreeFramesUnheld'
  <2>1. \A f \in freelist : Held(frame, f) = {} /\ f \in Frames
    BY Zenon DEF Counts, FreeFramesUnheld, Holders, Held, KmemType
  <2>2. \A f \in freelist : f # F /\ f # G
    BY ZenonT(60), <1>2, <1>3, <2>1
  <2>3. \A f \in freelist : Held(frame', f) = {}
    BY ZenonT(60), <1>13, <2>1, <2>2
  <2> QED BY ZenonT(60), <1>5, <2>3 DEF FreeFramesUnheld, Holders, Held
<1>18. FreePagesNotUnder'
  BY <1>5, Zenon DEF Counts, FreePagesNotUnder
<1>19. Sole(frame', p, v)
  <2>1. frame'[p][v] = G
    BY ZenonT(60), <1>1, <1>8, <1>9
  <2> QED BY ZenonT(60), <1>2, <1>11, <2>1 DEF Sole
<1>20. \A r \in Procs, u \in Slots : r # p \/ u \notin {v, MEM} => frame'[r][u] = frame[r][u]
  <2> SUFFICES ASSUME NEW r \in Procs, NEW u \in Slots, r # p \/ (u # v /\ u # MEM)
               PROVE  frame'[r][u] = frame[r][u]
    BY ZenonT(60)
  <2>1. frame'[r][u] = fm[r][u]
    BY ZenonT(60), <1>9
  <2>2. fm[r][u] = frame[r][u]
    BY <1>8, Zenon
  <2> QED BY <2>1, <2>2, Zenon
<1>21. ASSUME NEW r \in Procs, NEW u \in Slots, r # p \/ u \notin {v, MEM},
              Sole(frame, r, u)
       PROVE  Sole(frame', r, u)
  <2>1. frame'[r][u] = frame[r][u] /\ frame[r][u] # NULL
    BY ZenonT(60), <1>20, <1>21 DEF Sole
  <2>2. frame[r][u] \in Frames
    BY <2>1 DEF KmemType, FrameMaps
  <2>3. /\ <<p, v>> # <<r, u>> /\ <<p, MEM>> # <<r, u>>
        /\ Held(frame, frame[r][u]) = {<<r, u>>}
    BY <1>21, Zenon DEF Sole
  <2>4. frame[r][u] # G /\ frame[r][u] # F
    BY ZenonT(60), <1>2, <1>3, <2>3
  <2>5. Held(frame', frame[r][u]) = {<<r, u>>}
    BY ZenonT(60), <1>13, <2>2, <2>3, <2>4
  <2> QED BY ZenonT(60), <2>1, <2>5 DEF Sole
<1> QED BY ZenonT(60), <1>9, <1>15, <1>16, <1>17, <1>18, <1>19, <1>20, <1>21 DEF Counts, Moved

(* The slots that are not pages. *)
LEMMA SlotFacts ==
  /\ KSTACK \in Slots /\ PGDIR \in Slots /\ MEM \in Slots
  /\ KSTACK # PGDIR /\ KSTACK # MEM /\ PGDIR # MEM
  /\ \A v \in Pages : v \in Slots /\ v \in Int /\ v >= 0
                       /\ v # KSTACK /\ v # PGDIR /\ v # MEM
  BY ConstantsAssumption DEF Slots, Pages, KSTACK, PGDIR, MEM

(* Setting PTE_W of one page. *)
LEMMA SetWritable ==
  ASSUME NEW w \in [Procs -> [Pages -> BOOLEAN]], NEW p \in Procs, NEW v \in Pages,
         NEW b \in BOOLEAN
  PROVE  WritableSet(w, Upd(w, p, v, b), p, v, b)
  BY Zenon DEF WritableSet, Upd

(* Steps that leave the frames alone. *)
LEMMA FramesKept ==
  ASSUME KmemType, Counts, UNCHANGED <<freelist, references_count, free_pages, frame>>
  PROVE  /\ KmemType' /\ Counts'
         /\ \A q \in Procs, s \in Slots : Sole(frame, q, s) => Sole(frame', q, s)
<1>1. KmemType'
  BY Zenon DEF KmemType
<1>2. Counts'
  <2>1. \A f : Holders(f)' = Holders(f)
    BY Zenon DEF Holders
  <2>2. RefCountsExact' /\ FreeFramesUnheld'
    BY <2>1, Zenon DEF Counts, RefCountsExact, FreeFramesUnheld
  <2>3. FreePagesNotUnder'
    BY Zenon DEF Counts, FreePagesNotUnder
  <2> QED BY <2>2, <2>3, Zenon DEF Counts
<1> QED BY <1>1, <1>2, Zenon

----------------------------------------------------------------------------
(* The steps of fork(), wait() and freevm() in which np names a process    *)
(* that is being built or taken apart.                                     *)
NpPCs == {"setupkvm", "copyuvm", "freevm", "free_kstack"}
CowPCs == {"cow_kalloc", "cow_copy", "cow_dec"}

(* What the slots of a process hold in each state of its life. *)
StateInv(q) ==
  /\ state[q] # "LIVE" => pc[q] = "user"
  /\ state[q] = "UNUSED" => \A s \in Slots : frame[q][s] = NULL
  /\ state[q] \in {"LIVE", "EMBRYO"} => frame[q][KSTACK] # NULL
  /\ state[q] \in {"LIVE", "ZOMBIE"} => frame[q][PGDIR] # NULL
  /\ state[q] = "LIVE" => \A v \in Pages :
       /\ v >= sz[q] => frame[q][v] = NULL
       /\ v < sz[q] /\ frame[q][v] = NULL => ~NONE /\ swapped[q][v] # NULL
  /\ state[q] = "ZOMBIE" => \/ frame[q][KSTACK] # NULL
                            \/ \E r \in Procs : pc[r] = "freevm" /\ np[r] = q

(* What handle_cow() may rely on. *)
CowInv(q) ==
  /\ frame[q][MEM] # NULL <=> pc[q] \in {"cow_copy", "cow_dec"}
  /\ pc[q] \in CowPCs => va[q] < sz[q] /\ frame[q][va[q]] # NULL

(* What fork() and wait() may rely on while they work on np. *)
NpInv(q) ==
  /\ pc[q] \in NpPCs =>
       /\ np[q] \in Procs
       /\ \/ state[np[q]] = "EMBRYO"
          \/ pc[q] = "freevm" /\ state[np[q]] = "ZOMBIE" /\ frame[np[q]][KSTACK] = NULL
  /\ pc[q] \in {"setupkvm", "free_kstack"} =>
       \A s \in Slots \ {KSTACK} : frame[np[q]][s] = NULL
  /\ pc[q] \in {"copyuvm", "freevm"} => frame[np[q]][PGDIR] # NULL
  /\ pc[q] = "copyuvm" => va[q] <= sz[q] /\ \A v \in Pages :
       /\ v >= va[q] => frame[np[q]][v] = NULL
       /\ v < va[q] /\ frame[np[q]][v] = NULL => ~NONE /\ swapped[np[q]][v] # NULL
  /\ pc[q] \notin CowPCs \cup {"copyuvm"} => va[q] = 0

(* No two processes work on the same one. *)
NpDistinct ==
  \A q, r \in Procs : q # r /\ pc[q] \in NpPCs /\ pc[r] \in NpPCs => np[q] # np[r]

ProcInv(q) == StateInv(q) /\ CowInv(q) /\ NpInv(q)

Control == (\A q \in Procs : ProcInv(q)) /\ NpDistinct

IInv ==
  /\ TypeOK
  /\ Counts
  /\ Unshared
  /\ Control

(* The bounds TypeOK puts on sz and va of q. *)
Bounds(q) ==
  /\ NPages \in Nat
  /\ sz[q] \in Int /\ sz[q] >= 0 /\ sz[q] <= NPages /\ (sz[q] < NPages => sz[q] \in Pages)
  /\ va[q] \in Int /\ va[q] >= 0 /\ va[q] <= NPages /\ (va[q] < NPages => va[q] \in Pages)

(* A step leaves q alone. *)
Same(q) ==
  /\ state'[q] = state[q] /\ pc'[q] = pc[q] /\ np'[q] = np[q] /\ va'[q] = va[q]
  /\ sz'[q] = sz[q] /\ swapped'[q] = swapped[q]
  /\ \A t \in Slots : frame'[q][t] = frame[q][t]

----------------------------------------------------------------------------
(* What the inductive invariant says of the memory. *)
LEMMA MemFacts ==
  ASSUME IInv
  PROVE  /\ TypeOK /\ KmemType /\ Counts /\ Unshared
         /\ writable \in [Procs -> [Pages -> BOOLEAN]]
  BY Zenon DEF IInv, TypeOK, KmemType, FrameMaps

(* What it says of one process. *)
LEMMA ProcFacts ==
  ASSUME IInv, NEW q \in Procs
  PROVE  StateInv(q) /\ CowInv(q) /\ NpInv(q) /\ Bounds(q)
<1>1. Bounds(q)
  BY ConstantsAssumption DEF IInv, TypeOK, Pages, Bounds
<1> QED BY <1>1, Zenon DEF IInv, Control, ProcInv

(* A step of p on itself (c = p), or on the idle process c, leaves every   *)
(* other process alone: the control invariant is to be shown for p and c.  *)
LEMMA ControlStep ==
  ASSUME IInv, UNCHANGED NONE, NEW p \in Procs, NEW c \in Procs,
         state[p] = "LIVE",
         \A q \in Procs : q # p /\ q # c => Same(q),
         c # p => pc[c] = "user" /\ pc'[c] = "user",
         \A q \in Procs : q # p /\ pc[q] \in NpPCs => np[q] # c,
         pc[p] = "freevm" => np[p] = c,
         pc'[p] \in NpPCs => np'[p] = c,
         StateInv(p)', CowInv(p)', NpInv(p)',
         StateInv(c)', CowInv(c)', NpInv(c)'
  PROVE  Control'
<1>1. ASSUME NEW q \in Procs, q # p, q # c PROVE StateInv(q)'
  <2>1. StateInv(q) /\ Same(q)
    BY <1>1, ProcFacts, Zenon
  <2>2. ASSUME NEW r \in Procs, pc[r] = "freevm", np[r] = q
        PROVE  pc'[r] = "freevm" /\ np'[r] = q
    BY <1>1, <2>2, Zenon DEF Same
  <2> QED BY <2>1, <2>2, SlotFacts DEF StateInv, Same
<1>2. ASSUME NEW q \in Procs, q # p, q # c PROVE CowInv(q)'
  <2>1. CowInv(q) /\ Same(q) /\ Bounds(q)
    BY <1>2, ProcFacts, Zenon
  <2>2. pc[q] \in CowPCs => va[q] \in Slots
    BY <2>1, SlotFacts DEF CowInv, Bounds
  <2> QED BY <2>1, <2>2, SlotFacts DEF CowInv, Same
<1>3. ASSUME NEW q \in Procs, q # p, q # c PROVE NpInv(q)'
  <2>1. NpInv(q) /\ Same(q)
    BY <1>3, ProcFacts, Zenon
  <2>2. pc[q] \in NpPCs => np[q] \in Procs /\ np[q] # p /\ np[q] # c
    BY <1>3, <2>1, Zenon DEF NpInv
  <2>3. pc[q] \in NpPCs => Same(np[q])
    BY <2>2, Zenon
  <2>4. pc'[q] = pc[q] /\ np'[q] = np[q] /\ va'[q] = va[q] /\ sz'[q] = sz[q]
    BY <2>1, Zenon DEF Same
  <2>5. CASE pc[q] \in NpPCs
    <3>1. /\ state'[np[q]] = state[np[q]] /\ swapped'[np[q]] = swapped[np[q]]
          /\ \A t \in Slots : frame'[np[q]][t] = frame[np[q]][t]
      BY <2>3, <2>5, Zenon DEF Same
    <3> QED BY <2>1, <2>4, <3>1, SlotFacts DEF NpInv
  <2>6. CASE pc[q] \notin NpPCs
    <3>1. pc[q] \notin CowPCs \cup {"copyuvm"} => va[q] = 0
      BY <2>1, Zenon DEF NpInv
    <3> QED BY <2>4, <2>6, <3>1, Zenon DEF NpInv, NpPCs
  <2> QED BY <2>5, <2>6, Zenon
<1>4. NpDistinct'
  <2> SUFFICES ASSUME NEW q \in Procs, NEW r \in Procs, q # r, q # p,
                      pc'[q] \in NpPCs, pc'[r] \in NpPCs
               PROVE  np'[q] # np'[r]
    BY Zenon DEF NpDistinct
  <2>1. q # c /\ pc[q] \in NpPCs /\ np'[q] = np[q] /\ np[q] # c
    BY Zenon DEF NpPCs, Same
  <2>2. CASE r = p
    BY <2>1, <2>2, Zenon
  <2>3. CASE r # p
    <3>1. r # c /\ pc[r] \in NpPCs /\ np'[r] = np[r]
      BY <2>3, Zenon DEF NpPCs, Same
    <3> QED BY <2>1, <3>1, Zenon DEF IInv, Control, NpDistinct
  <2> QED BY <2>2, <2>3, Zenon
<1> QED BY <1>1, <1>2, <1>3, <1>4, Zenon DEF Control, ProcInv

(* The same for a step of p on itself. *)
LEMMA OwnStep ==
  ASSUME IInv, UNCHANGED NONE, NEW p \in Procs,
         state[p] = "LIVE", pc[p] \notin NpPCs, pc'[p] \notin NpPCs,
         \A q \in Procs : q # p => Same(q),
         StateInv(p)', CowInv(p)', NpInv(p)'
  PROVE  Control'
<1>1. \A q \in Procs : q # p /\ pc[q] \in NpPCs => np[q] # p
  BY ProcFacts, Zenon DEF NpInv
<1> QED BY <1>1, ControlStep, Zenon DEF NpPCs

(* An idle process stays idle. *)
LEMMA IdleKept ==
  ASSUME IInv, NEW c \in Procs, pc[c] = "user", pc'[c] = "user", va'[c] = va[c],
         frame'[c][MEM] = frame[c][MEM]
  PROVE  CowInv(c)' /\ NpInv(c)'
  BY ProcFacts, Zenon DEF CowInv, NpInv, CowPCs, NpPCs

(* Steps that leave the control state alone. *)
LEMMA ControlKept ==
  ASSUME IInv, UNCHANGED <<NONE, state, sz, frame, swapped, pc, np, va>>
  PROVE  Control'
  BY DEF IInv, Control, ProcInv, StateInv, CowInv, NpInv, NpDistinct

(* Steps that leave the frames and PTE_W alone. *)
LEMMA MemoryKept ==
  ASSUME IInv, UNCHANGED <<freelist, references_count, free_pages, frame, writable>>
  PROVE  Counts' /\ Unshared'
  BY MemFacts, FramesKept, Zenon DEF Unshared

(* The state userinit() leaves satisfies the inductive invariant. *)
LEMMA InitInv == Counting /\ Init => IInv
<1> SUFFICES ASSUME Counting, Init PROVE IInv
  BY Zenon
<1> DEFINE ks == BootFrames[1]
           pd == BootFrames[2]
           tx == BootFrames[3]
<1>1. /\ ks \in Frames /\ pd \in Frames /\ tx \in Frames
      /\ ks # pd /\ ks # tx /\ pd # tx
  <2>1. PICK a, b, c \in Frames : a # b /\ a # c /\ b # c
    BY ConstantsAssumption, Zenon
  <2>2. \E t \in Frames \X Frames \X Frames : t[1] # t[2] /\ t[1] # t[3] /\ t[2] # t[3]
    <3> WITNESS <<a, b, c>> \in Frames \X Frames \X Frames
    <3> QED BY <2>1, Zenon
  <2> QED BY <2>2, Zenon DEF BootFrames
<1>2. initproc \in Procs /\ 0 \in Pages /\ NULL \notin Frames
  BY ConstantsAssumption DEF Pages
<1>3. /\ freelist = Frames \ {ks, pd, tx}
      /\ references_count = [f \in Frames |-> IF f \in {ks, pd, tx} THEN 1 ELSE 0]
      /\ frame = [p \in Procs |-> [s \in Slots |->
                   CASE p = initproc /\ s = KSTACK -> ks
                     [] p = initproc /\ s = PGDIR -> pd
                     [] p = initproc /\ s = 0 -> tx
                     [] OTHER -> NULL]]
      /\ content = [f \in Frames |-> IF f = tx THEN Zero ELSE Junk]
      /\ free_pages = Cardinality(freelist)
  BY Zenon DEF Init
<1> HIDE DEF ks, pd, tx
<1>4. /\ frame \in FrameMaps
      /\ frame[initproc][KSTACK] = ks /\ frame[initproc][PGDIR] = pd /\ frame[initproc][0] = tx
      /\ \A q \in Procs, s \in Slots :
           q # initproc \/ s \notin {KSTACK, PGDIR, 0} => frame[q][s] = NULL
  BY <1>1, <1>2, <1>3, SlotFacts, Zenon DEF FrameMaps
<1>5. /\ Held(frame, ks) = {<<initproc, KSTACK>>}
      /\ Held(frame, pd) = {<<initproc, PGDIR>>}
      /\ Held(frame, tx) = {<<initproc, 0>>}
      /\ \A f \in Frames \ {ks, pd, tx} : Held(frame, f) = {}
  BY <1>1, <1>2, <1>4, SlotFacts DEF Held
<1>6. IsFiniteSet(freelist) /\ Cardinality(freelist) \in Nat
  BY <1>3, ConstantsAssumption, Zenon DEF Counting
<1>7. TypeOK
  <2>1. /\ freelist \subseteq Frames /\ references_count \in [Frames -> Nat]
        /\ free_pages \in Nat /\ content \in [Frames -> Vals \cup {Junk}]
    BY <1>3, <1>6, ConstantsAssumption, Zenon
  <2>2. sz \in [Procs -> 0 .. NPages] /\ pid \in [Procs -> 0 .. MaxPid]
        /\ va \in [Procs -> 0 .. NPages] /\ nextpid \in 1 .. MaxPid + 1
    BY ConstantsAssumption DEF Init
  <2>3. writable \in [Procs -> [Pages -> BOOLEAN]]
    BY ZenonT(60), Zenon DEF Init
  <2>4. /\ NONE \in BOOLEAN /\ panicked \in BOOLEAN
        /\ state \in [Procs -> States] /\ pc \in [Procs -> PCs]
        /\ parent \in [Procs -> Procs \cup {NULL}] /\ np \in [Procs -> Procs \cup {NULL}]
        /\ swapped \in [Procs -> [Pages -> Vals \cup {Junk, NULL}]]
    BY ZenonT(60) DEF Init, States, PCs
  <2> QED BY <1>4, <2>1, <2>2, <2>3, <2>4, Zenon DEF TypeOK, FrameMaps
<1>8. Counts
  <2>1. \A f \in Frames : references_count[f] = Cardinality(Held(frame, f))
    <3>1. Cardinality({}) = 0
      BY Zenon DEF Counting
    <3> QED BY ZenonT(60), <1>1, <1>3, <1>5, <3>1, OneElement
  <2>2. \A f \in freelist : Held(frame, f) = {}
    BY <1>3, <1>5, Zenon
  <2>3. FreePagesNotUnder
    BY <1>3, <1>6 DEF FreePagesNotUnder
  <2>4. RefCountsExact
    BY <2>1, Zenon DEF RefCountsExact, Holders, Held
  <2>5. FreeFramesUnheld
    BY <2>2, Zenon DEF FreeFramesUnheld, Holders, Held
  <2> QED BY <2>3, <2>4, <2>5, Zenon DEF Counts
<1>9. Unshared
  <2>1. \A q \in Procs, v \in Pages : writable[q][v] => q = initproc /\ v = 0
    BY ZenonT(60), Zenon DEF Init
  <2>2. Sole(frame, initproc, 0)
    BY <1>1, <1>2, <1>4, <1>5, Zenon DEF Sole
  <2>3. \A q \in Procs : frame[q][MEM] = NULL
    BY <1>4, SlotFacts, <1>2, Zenon
  <2> QED BY <2>1, <2>2, <2>3, Zenon DEF Unshared
<1>10. Control
  <2>1. \A q \in Procs : pc[q] = "user" /\ va[q] = 0
                          /\ state[q] = IF q = initproc THEN "LIVE" ELSE "UNUSED"
    BY Zenon DEF Init
  <2>2. sz[initproc] = 1
    BY <1>2, Zenon DEF Init
  <2>3. \A q \in Procs : StateInv(q)
    BY <1>1, <1>2, <1>4, <2>1, <2>2, SlotFacts DEF StateInv
  <2>4. \A q \in Procs : CowInv(q) /\ NpInv(q)
    BY <1>2, <1>4, <2>1, SlotFacts DEF CowInv, NpInv, NpPCs, CowPCs
  <2>5. NpDistinct
    BY <2>1, Zenon DEF NpDistinct, NpPCs
  <2> QED BY <2>3, <2>4, <2>5, Zenon DEF Control, ProcInv
<1> QED BY <1>7, <1>8, <1>9, <1>10, Zenon DEF IInv

----------------------------------------------------------------------------
(* sbrk() with a page to give. *)
LEMMA GrowInv ==
  ASSUME IInv, UNCHANGED NONE, NEW p \in Procs, Grow(p)
  PROVE  IInv'
<1> DEFINE v == sz[p]
<1>1. StateInv(p) /\ CowInv(p) /\ NpInv(p) /\ Bounds(p)
  BY ProcFacts, Zenon
<1>2. /\ state[p] = "LIVE" /\ pc[p] = "user" /\ v < NPages
      /\ sz' = [sz EXCEPT ![p] = v + 1] /\ content' = [content EXCEPT ![KallocFrame] = Zero]
      /\ writable' = Upd(writable, p, v, TRUE)
      /\ UNCHANGED <<state, parent, pid, swapped, pc, np, va, nextpid, panicked>>
  BY Zenon DEF Grow, Running, Upd
<1>3. v \in Pages /\ v \in Slots /\ frame[p][v] = NULL
  BY <1>1, <1>2, SlotFacts DEF Bounds, StateInv
<1>4. Took(p, v)
  BY ZenonT(60), <1>3, MemFacts, TakeFrame DEF Grow
<1>5. WritableSet(writable, writable', p, v, TRUE)
  BY ZenonT(60), <1>2, <1>3, MemFacts, SetWritable
<1>6. TypeOK'
  <2>1. content' \in [Frames -> Vals \cup {Junk}]
    BY <1>2, <1>4, MemFacts, ConstantsAssumption, Zenon DEF TypeOK, Took
  <2>2. sz' \in [Procs -> 0 .. NPages]
    <3>1. v + 1 \in 0 .. NPages
      BY <1>3, ConstantsAssumption DEF Pages
    <3> QED BY <1>2, <3>1, MemFacts, Zenon DEF TypeOK
  <2> QED BY ZenonT(60), <1>2, <1>4, <1>5, <2>1, <2>2, MemFacts
          DEF TypeOK, KmemType, FrameMaps, Took, WritableSet
<1>7. Unshared'
  BY <1>3, <1>4, <1>5, MemFacts, SlotFacts DEF Unshared, Took, WritableSet
<1>8. /\ \A q \in Procs : q # p => Same(q)
      /\ UNCHANGED <<state, swapped, pc, np, va>> /\ sz'[p] = sz[p] + 1
      /\ frame'[p][sz[p]] # NULL
      /\ \A t \in Slots : t # sz[p] => frame'[p][t] = frame[p][t]
  BY <1>2, <1>4, MemFacts DEF TypeOK, Took, Same
<1>9. StateInv(p)'
  BY <1>1, <1>2, <1>8, SlotFacts DEF StateInv, Bounds
<1>10. CowInv(p)' /\ NpInv(p)'
  BY ZenonT(60), <1>1, <1>2, <1>3, <1>8, SlotFacts DEF CowInv, NpInv, CowPCs, NpPCs
<1>11. Control'
  BY ZenonT(60), <1>2, <1>8, <1>9, <1>10, OwnStep DEF NpPCs
<1> QED BY <1>4, <1>6, <1>7, <1>11, Zenon DEF IInv, Took

(* sbrk() with a page to give back. *)
LEMMA ShrinkInv ==
  ASSUME IInv, UNCHANGED NONE, NEW p \in Procs, Shrink(p)
  PROVE  IInv'
<1> DEFINE v == sz[p] - 1
<1>1. StateInv(p) /\ CowInv(p) /\ NpInv(p) /\ Bounds(p)
  BY ProcFacts, Zenon
<1>2. /\ state[p] = "LIVE" /\ pc[p] = "user" /\ sz[p] > 1 /\ frame[p][v] # NULL
      /\ sz' = [sz EXCEPT ![p] = v] /\ writable' = Upd(writable, p, v, FALSE)
      /\ UNCHANGED <<state, parent, pid, swapped, pc, np, va, nextpid, panicked>>
  BY Zenon DEF Shrink, Running, Upd
<1>3. v \in Pages /\ v \in Slots
  <2>1. v \in Pages
    BY <1>1, <1>2 DEF Bounds, Pages
  <2> QED BY <2>1, SlotFacts, Zenon
<1>4. Dropped(p, v)
  BY ZenonT(60), <1>2, <1>3, MemFacts, DropFrame DEF Shrink
<1>5. WritableSet(writable, writable', p, v, FALSE)
  BY ZenonT(60), <1>2, <1>3, MemFacts, SetWritable
<1>6. TypeOK'
  <2>1. content' \in [Frames -> Vals \cup {Junk}]
    BY <1>4, MemFacts, Zenon DEF Shrink, Kfree, TypeOK, Dropped
  <2>2. sz' \in [Procs -> 0 .. NPages]
    <3>1. v \in 0 .. NPages
      BY <1>3, ConstantsAssumption DEF Pages
    <3> QED BY <1>2, <3>1, MemFacts, Zenon DEF TypeOK
  <2> QED BY ZenonT(60), <1>2, <1>4, <1>5, <2>1, <2>2, MemFacts
          DEF TypeOK, KmemType, FrameMaps, Dropped, WritableSet
<1>7. Unshared'
  <2>1. ASSUME NEW q \in Procs, NEW u \in Pages, writable'[q][u] PROVE Sole(frame', q, u)
    <3>1. Sole(frame, q, u) /\ (q # p \/ u # v)
      BY <1>5, <2>1, MemFacts, Zenon DEF Unshared, WritableSet
    <3> QED BY <1>4, <3>1, SlotFacts, Zenon DEF Dropped
  <2>2. ASSUME NEW q \in Procs, frame'[q][MEM] # NULL PROVE Sole(frame', q, MEM)
    BY <1>3, <1>4, <2>2, MemFacts, SlotFacts, Zenon DEF Unshared, Dropped
  <2> QED BY <2>1, <2>2, Zenon DEF Unshared
<1>8. /\ \A q \in Procs : q # p => Same(q)
      /\ UNCHANGED <<state, swapped, pc, np, va>> /\ sz'[p] = v
      /\ frame'[p][v] = NULL
      /\ \A t \in Slots : t # v => frame'[p][t] = frame[p][t]
  BY <1>2, <1>4, MemFacts DEF TypeOK, Dropped, Same
<1>9. StateInv(p)'
  <2>1. ASSUME NEW u \in Pages
        PROVE  /\ u >= sz'[p] => frame'[p][u] = NULL
               /\ u < sz'[p] /\ frame'[p][u] = NULL => ~NONE /\ swapped'[p][u] # NULL
    <3>1. CASE u = v
      BY <1>3, <1>8, <3>1, ConstantsAssumption DEF Pages
    <3>2. CASE u # v
      <4>1. (u >= v => u >= sz[p]) /\ (u < v => u < sz[p])
        BY <1>1, <3>2, ConstantsAssumption DEF Pages, Bounds
      <4>2. frame'[p][u] = frame[p][u]
        BY <1>8, <3>2, SlotFacts, Zenon
      <4>3. /\ u >= sz[p] => frame[p][u] = NULL
            /\ u < sz[p] /\ frame[p][u] = NULL => ~NONE /\ swapped[p][u] # NULL
        BY <1>1, <1>2, Zenon DEF StateInv
      <4> QED BY <1>8, <4>1, <4>2, <4>3, Zenon
    <3> QED BY <3>1, <3>2, Zenon
  <2>2. /\ state'[p] = "LIVE"
        /\ frame'[p][KSTACK] # NULL /\ frame'[p][PGDIR] # NULL
    BY <1>1, <1>2, <1>3, <1>8, SlotFacts, Zenon DEF StateInv
  <2>3. UNCHANGED NONE
    BY Zenon
  <2> QED BY <2>1, <2>2, <2>3 DEF StateInv
<1>10. CowInv(p)' /\ NpInv(p)'
  BY ZenonT(60), <1>1, <1>2, <1>3, <1>8, SlotFacts DEF CowInv, NpInv, CowPCs, NpPCs
<1>11. Control'
  BY ZenonT(60), <1>2, <1>8, <1>9, <1>10, OwnStep DEF NpPCs
<1> QED BY <1>4, <1>6, <1>7, <1>11, Zenon DEF IInv, Dropped

(* swap() and handle_pf() send a page to the swap file. *)
LEMMA SwapOutInv ==
  ASSUME IInv, UNCHANGED NONE, NEW p \in Procs, NEW v \in Pages, SwapOut(p, v)
  PROVE  IInv'
<1>1. StateInv(p) /\ CowInv(p) /\ NpInv(p) /\ Bounds(p)
  BY ProcFacts, Zenon
<1>2. /\ state[p] = "LIVE" /\ pc[p] = "user" /\ ~NONE /\ v \in Slots /\ frame[p][v] # NULL
      /\ swapped' = [swapped EXCEPT ![p][v] = content[frame[p][v]]]
      /\ writable' = Upd(writable, p, v, FALSE)
      /\ UNCHANGED <<state, parent, pid, sz, pc, np, va, nextpid, panicked>>
  BY SlotFacts, Zenon DEF SwapOut, Running, Upd
<1>3. Dropped(p, v)
  BY ZenonT(60), <1>2, MemFacts, DropFrame DEF SwapOut
<1>4. WritableSet(writable, writable', p, v, FALSE)
  BY ZenonT(60), <1>2, MemFacts, SetWritable
<1>5. content[frame[p][v]] \in Vals \cup {Junk} /\ content[frame[p][v]] # NULL
  BY <1>3, MemFacts, ConstantsAssumption DEF TypeOK, Dropped
<1>6. TypeOK'
  <2>1. content' \in [Frames -> Vals \cup {Junk}]
    BY <1>3, MemFacts, Zenon DEF SwapOut, Kfree, TypeOK, Dropped
  <2>2. swapped' \in [Procs -> [Pages -> Vals \cup {Junk, NULL}]]
    BY <1>2, <1>5, MemFacts, Zenon DEF TypeOK
  <2> QED BY ZenonT(60), <1>2, <1>3, <1>4, <2>1, <2>2, MemFacts
          DEF TypeOK, KmemType, FrameMaps, Dropped, WritableSet
<1>7. Unshared'
  BY ZenonT(60), <1>2, <1>3, <1>4, MemFacts, SlotFacts DEF Unshared, Dropped, WritableSet
<1>8. /\ \A q \in Procs : q # p => Same(q)
      /\ UNCHANGED <<state, sz, pc, np, va>>
      /\ swapped'[p][v] # NULL /\ \A u \in Pages : u # v => swapped'[p][u] = swapped[p][u]
      /\ frame'[p][v] = NULL /\ \A t \in Slots : t # v => frame'[p][t] = frame[p][t]
  BY <1>2, <1>3, <1>5, MemFacts DEF TypeOK, Dropped, Same
<1>9. StateInv(p)'
  BY <1>1, <1>2, <1>8, SlotFacts DEF StateInv, Bounds
<1>10. CowInv(p)' /\ NpInv(p)'
  BY <1>1, <1>2, <1>8, SlotFacts, Zenon DEF CowInv, NpInv, CowPCs, NpPCs
<1>11. Control'
  BY <1>2, <1>8, <1>9, <1>10, OwnStep, Zenon DEF NpPCs
<1> QED BY <1>3, <1>6, <1>7, <1>11, Zenon DEF IInv, Dropped

(* handle_pf() brings a page back. *)
LEMMA SwapInInv ==
  ASSUME IInv, UNCHANGED NONE, NEW p \in Procs, NEW v \in Pages, SwapIn(p, v)
  PROVE  IInv'
<1>1. StateInv(p) /\ CowInv(p) /\ NpInv(p) /\ Bounds(p)
  BY ProcFacts, Zenon
<1>2. /\ state[p] = "LIVE" /\ pc[p] = "user" /\ v < sz[p] /\ v \in Slots /\ frame[p][v] = NULL
      /\ swapped' = [swapped EXCEPT ![p][v] = NULL]
      /\ content' = [content EXCEPT ![KallocFrame] = swapped[p][v]]
      /\ writable' = Upd(writable, p, v, TRUE)
      /\ UNCHANGED <<state, parent, pid, sz, pc, np, va, nextpid, panicked>>
  BY SlotFacts, Zenon DEF SwapIn, Running, Upd
<1>3. swapped[p][v] # NULL
  BY <1>1, <1>2, Zenon DEF StateInv
<1>4. Took(p, v)
  BY ZenonT(60), <1>2, MemFacts, TakeFrame DEF SwapIn
<1>5. WritableSet(writable, writable', p, v, TRUE)
  BY ZenonT(60), <1>2, MemFacts, SetWritable
<1>6. TypeOK'
  <2>1. content' \in [Frames -> Vals \cup {Junk}]
    BY <1>2, <1>3, <1>4, MemFacts DEF TypeOK, Took
  <2>2. swapped' \in [Procs -> [Pages -> Vals \cup {Junk, NULL}]]
    BY <1>2, MemFacts, Zenon DEF TypeOK
  <2> QED BY ZenonT(60), <1>2, <1>4, <1>5, <2>1, <2>2, MemFacts
          DEF TypeOK, KmemType, FrameMaps, Took, WritableSet
<1>7. Unshared'
  BY ZenonT(60), <1>2, <1>4, <1>5, MemFacts, SlotFacts DEF Unshared, Took, WritableSet
<1>8. /\ \A q \in Procs : q # p => Same(q)
      /\ UNCHANGED <<state, sz, pc, np, va>>
      /\ \A u \in Pages : u # v => swapped'[p][u] = swapped[p][u]
      /\ frame'[p][v] # NULL /\ \A t \in Slots : t # v => frame'[p][t] = frame[p][t]
  BY <1>2, <1>4, MemFacts, Zenon DEF TypeOK, Took, Same
<1>9. StateInv(p)'
  BY <1>1, <1>2, <1>8, SlotFacts DEF StateInv, Bounds
<1>10. CowInv(p)' /\ NpInv(p)'
  BY <1>1, <1>2, <1>8, SlotFacts, Zenon DEF CowInv, NpInv, CowPCs, NpPCs
<1>11. Control'
  BY <1>2, <1>8, <1>9, <1>10, OwnStep, Zenon DEF NpPCs
<1> QED BY <1>4, <1>6, <1>7, <1>11, Zenon DEF IInv, Took

----------------------------------------------------------------------------
(* Stores, the steps of handle_cow(), and fork() before and after          *)
(* copyuvm().                                                              *)

(* A store to a page with PTE_W. *)
LEMMA StoreInv ==
  ASSUME IInv, UNCHANGED NONE, NEW p \in Procs, NEW v \in Pages, NEW x \in Vals,
         Store(p, v, x)
  PROVE  IInv'
<1>1. frame[p][v] \in Frames
  <2>1. writable[p][v]
    BY Zenon DEF Store
  <2>2. Sole(frame, p, v)
    BY <2>1, MemFacts, Zenon DEF Unshared
  <2>3. frame[p][v] # NULL
    BY <2>2, Zenon DEF Sole
  <2>4. frame \in FrameMaps /\ v \in Slots
    BY MemFacts, SlotFacts, Zenon DEF KmemType
  <2> QED BY <2>3, <2>4, Zenon DEF FrameMaps
<1>2. content' \in [Frames -> Vals \cup {Junk}]
  BY <1>1, MemFacts, Zenon DEF Store, TypeOK
<1>3. TypeOK'
  BY <1>2, MemFacts, Zenon DEF Store, TypeOK
<1>4. Counts' /\ Unshared'
  BY MemoryKept, Zenon DEF Store
<1>5. Control'
  BY ControlKept, Zenon DEF Store
<1> QED BY <1>3, <1>4, <1>5, Zenon DEF IInv

(* handle_cow() up to its test of the reference count: with one reference  *)
(* the page becomes writable, and its holder is the only one.              *)
LEMMA CowFaultInv ==
  ASSUME IInv, UNCHANGED NONE, NEW p \in Procs, NEW v \in Pages, CowFault(p, v)
  PROVE  IInv'
<1> DEFINE F == frame[p][v]
<1>1. v < sz[p] /\ F # NULL /\ state[p] = "LIVE" /\ pc[p] = "user" /\ v \in Slots
  BY SlotFacts, Zenon DEF CowFault, Running
<1>2. UNCHANGED <<freelist, references_count, free_pages, content, state, parent, pid,
                  sz, frame, swapped, np, nextpid, panicked>>
  BY Zenon DEF CowFault
<1>3. F \in Frames /\ references_count[F] \in Nat
  BY <1>1, MemFacts DEF KmemType, FrameMaps
<1>4. CASE references_count[F] > 1
  <2>1. /\ pc' = [pc EXCEPT ![p] = "cow_kalloc"] /\ va' = [va EXCEPT ![p] = v]
        /\ UNCHANGED writable
    BY <1>4, Zenon DEF CowFault
  <2>2. TypeOK'
    <3>1. pc' \in [Procs -> PCs] /\ va' \in [Procs -> 0 .. NPages]
      BY <2>1, MemFacts, ConstantsAssumption DEF TypeOK, PCs, Pages
    <3> QED BY <1>2, <2>1, <3>1, MemFacts, Zenon DEF TypeOK
  <2>3. Counts' /\ Unshared'
    BY <1>2, <2>1, MemoryKept, Zenon
  <2>4. /\ \A q \in Procs : q # p => Same(q)
        /\ pc'[p] = "cow_kalloc" /\ va'[p] = v
    BY <1>2, <2>1, MemFacts, Zenon DEF TypeOK, Same
  <2>5. StateInv(p) /\ CowInv(p)
    BY ProcFacts, Zenon
  <2>6. StateInv(p)'
    BY <1>1, <1>2, <2>4, <2>5, Zenon DEF StateInv
  <2>7. CowInv(p)' /\ NpInv(p)'
    BY <1>1, <1>2, <2>4, <2>5, Zenon DEF CowInv, NpInv, NpPCs, CowPCs
  <2>8. Control'
    BY <1>1, <2>4, <2>6, <2>7, OwnStep, Zenon DEF NpPCs
  <2> QED BY <2>2, <2>3, <2>8, Zenon DEF IInv
<1>5. CASE ~(references_count[F] > 1)
  <2>1. writable' = Upd(writable, p, v, TRUE) /\ UNCHANGED <<pc, va>>
    BY <1>5, Zenon DEF CowFault, Upd
  <2>2. WritableSet(writable, writable', p, v, TRUE)
    BY ZenonT(60), <2>1, MemFacts, SetWritable
  <2>3. TypeOK'
    BY ZenonT(60), <1>2, <2>1, <2>2, MemFacts DEF TypeOK, WritableSet
  <2>4. Held(frame, F) = {<<p, v>>}
    <3>1. Cardinality(Held(frame, F)) = references_count[F]
      BY ZenonT(60), <1>3, MemFacts DEF Counts, RefCountsExact, Holders, Held
    <3>2. <<p, v>> \in Held(frame, F)
      BY <1>1, Zenon DEF Held
    <3>3. Cardinality(Held(frame, F)) # 0
      BY ZenonT(60), <3>2, HeldFinite, NoElement, MemFacts DEF Counts
    <3>4. Cardinality(Held(frame, F)) = 1
      BY <1>3, <1>5, <3>1, <3>3
    <3>5. PICK h : Held(frame, F) = {h}
      BY ZenonT(60), <3>4, HeldFinite, MemFacts DEF Counts, Counting
    <3> QED BY <3>2, <3>5, Zenon
  <2>5. Sole(frame, p, v)
    BY <1>1, <2>4, Zenon DEF Sole
  <2>6. Counts' /\ \A q \in Procs, s \in Slots : Sole(frame, q, s) => Sole(frame', q, s)
    BY <1>2, MemFacts, FramesKept, Zenon
  <2>7. Unshared'
    BY <1>1, <1>2, <2>2, <2>5, <2>6, MemFacts, SlotFacts, Zenon DEF Unshared, WritableSet
  <2>8. Control'
    BY <1>2, <2>1, ControlKept, Zenon
  <2> QED BY <2>3, <2>6, <2>7, <2>8, Zenon DEF IInv
<1> QED BY <1>4, <1>5, Zenon

(* handle_cow() allocates the private copy, or panics. *)
LEMMA CowKallocInv ==
  ASSUME IInv, UNCHANGED NONE, NEW p \in Procs, CowKalloc(p)
  PROVE  IInv'
<1>1. StateInv(p) /\ CowInv(p) /\ NpInv(p) /\ Bounds(p)
  BY ProcFacts, Zenon
<1>2. pc[p] = "cow_kalloc" /\ MEM \in Slots /\ frame[p][MEM] = NULL /\ state[p] = "LIVE"
  BY <1>1, SlotFacts, Zenon DEF CowKalloc, At, CowInv, StateInv
<1>3. UNCHANGED <<content, state, parent, pid, sz, writable, swapped, np, va, nextpid>>
  BY Zenon DEF CowKalloc
<1>4. CASE freelist # {}
  <2>1. /\ Kalloc /\ frame' = [frame EXCEPT ![p][MEM] = KallocFrame]
        /\ pc' = [pc EXCEPT ![p] = "cow_copy"] /\ UNCHANGED panicked
    BY <1>4, Zenon DEF CowKalloc
  <2>2. Took(p, MEM)
    BY ZenonT(60), <1>2, <2>1, MemFacts, TakeFrame
  <2>3. TypeOK'
    <3>1. pc' \in [Procs -> PCs]
      BY <2>1, MemFacts, Zenon DEF TypeOK, PCs
    <3> QED BY <1>3, <2>1, <2>2, <3>1, MemFacts, Zenon DEF TypeOK, KmemType, FrameMaps, Took
  <2>4. Unshared'
    BY <1>3, <2>2, MemFacts, SlotFacts, Zenon DEF Unshared, Took
  <2>5. /\ \A q \in Procs : q # p => Same(q)
        /\ pc'[p] = "cow_copy" /\ UNCHANGED <<state, sz, swapped, np, va>>
        /\ frame'[p][MEM] # NULL /\ \A t \in Slots : t # MEM => frame'[p][t] = frame[p][t]
    BY <1>3, <2>1, <2>2, MemFacts DEF TypeOK, Took, Same
  <2>6. StateInv(p)'
    BY <1>1, <1>2, <2>5, SlotFacts, Zenon DEF StateInv
  <2>7. CowInv(p)'
    <3>1. va[p] \in Slots /\ va[p] # MEM /\ va[p] < sz[p] /\ frame[p][va[p]] # NULL
      BY <1>1, <1>2, SlotFacts DEF CowInv, CowPCs, Bounds
    <3> QED BY <2>5, <3>1, Zenon DEF CowInv, CowPCs
  <2>8. NpInv(p)'
    BY <2>5, Zenon DEF NpInv, NpPCs, CowPCs
  <2>9. Control'
    BY <1>2, <2>5, <2>6, <2>7, <2>8, OwnStep, Zenon DEF NpPCs
  <2> QED BY <2>2, <2>3, <2>4, <2>9, Zenon DEF IInv, Took
<1>5. CASE freelist = {}
  <2>1. /\ panicked' = TRUE
        /\ UNCHANGED <<freelist, references_count, free_pages, frame, pc>>
    BY <1>5, Zenon DEF CowKalloc, Kalloc
  <2>2. TypeOK'
    BY <1>3, <2>1, MemFacts, Zenon DEF TypeOK
  <2>3. Counts' /\ Unshared' /\ Control'
    BY <1>3, <2>1, MemoryKept, ControlKept, Zenon
  <2> QED BY <2>2, <2>3, Zenon DEF IInv
<1> QED BY <1>4, <1>5, Zenon

(* handle_cow() copies the page. *)
LEMMA CowCopyInv ==
  ASSUME IInv, UNCHANGED NONE, NEW p \in Procs, CowCopy(p)
  PROVE  IInv'
<1>1. StateInv(p) /\ CowInv(p) /\ NpInv(p) /\ Bounds(p)
  BY ProcFacts, Zenon
<1>2. /\ pc[p] = "cow_copy" /\ pc' = [pc EXCEPT ![p] = "cow_dec"]
      /\ content' = [content EXCEPT ![frame[p][MEM]] = content[frame[p][va[p]]]]
      /\ UNCHANGED <<freelist, references_count, free_pages, state, parent, pid, sz, frame,
                     writable, swapped, np, va, nextpid, panicked>>
  BY Zenon DEF CowCopy, At
<1>3. /\ frame[p][MEM] # NULL /\ frame[p][va[p]] # NULL /\ va[p] \in Slots
      /\ state[p] = "LIVE"
  BY <1>1, <1>2, SlotFacts DEF CowInv, CowPCs, Bounds, StateInv
<1>4. frame[p][MEM] \in Frames /\ frame[p][va[p]] \in Frames
  BY <1>3, SlotFacts, MemFacts DEF KmemType, FrameMaps
<1>5. TypeOK'
  <2>1. content' \in [Frames -> Vals \cup {Junk}]
    BY <1>2, <1>4, MemFacts, Zenon DEF TypeOK
  <2>2. pc' \in [Procs -> PCs]
    BY <1>2, MemFacts, Zenon DEF TypeOK, PCs
  <2> QED BY <1>2, <2>1, <2>2, MemFacts, Zenon DEF TypeOK
<1>6. Counts' /\ Unshared'
  BY <1>2, MemoryKept, Zenon
<1>7. (\A q \in Procs : q # p => Same(q)) /\ pc'[p] = "cow_dec"
  BY <1>2, MemFacts, Zenon DEF TypeOK, Same
<1>8. StateInv(p)'
  BY <1>1, <1>2, <1>3, <1>7, Zenon DEF StateInv
<1>9. CowInv(p)' /\ NpInv(p)'
  BY <1>1, <1>2, <1>7, Zenon DEF CowInv, NpInv, NpPCs, CowPCs
<1>10. Control'
  BY <1>2, <1>3, <1>7, <1>8, <1>9, OwnStep, Zenon DEF NpPCs
<1> QED BY <1>5, <1>6, <1>10, Zenon DEF IInv

(* handle_cow() replaces the shared frame by the copy. *)
LEMMA CowDecInv ==
  ASSUME IInv, UNCHANGED NONE, NEW p \in Procs, CowDec(p)
  PROVE  IInv'
<1> DEFINE v == va[p]
<1>1. StateInv(p) /\ CowInv(p) /\ NpInv(p) /\ Bounds(p)
  BY ProcFacts, Zenon
<1>2. /\ pc[p] = "cow_dec" /\ DecCounter(frame[p][v])
      /\ frame' = [frame EXCEPT ![p][v] = frame[p][MEM], ![p][MEM] = NULL]
      /\ writable' = Upd(writable, p, v, TRUE)
      /\ pc' = [pc EXCEPT ![p] = "user"] /\ va' = [va EXCEPT ![p] = 0]
      /\ UNCHANGED <<content, state, parent, pid, sz, swapped, np, nextpid, panicked>>
  BY Zenon DEF CowDec, At, Upd
<1>3. /\ v \in Pages /\ v < sz[p] /\ frame[p][v] # NULL /\ frame[p][MEM] # NULL
      /\ state[p] = "LIVE"
  BY <1>1, <1>2 DEF CowInv, CowPCs, Bounds, StateInv
<1> HIDE DEF v
<1>4. Moved(p, v)
  BY ZenonT(60), <1>2, <1>3, MemFacts, MoveFrame DEF Unshared
<1>5. WritableSet(writable, writable', p, v, TRUE)
  BY ZenonT(60), <1>2, <1>3, MemFacts, SetWritable
<1>6. TypeOK'
  <2>1. pc' \in [Procs -> PCs] /\ va' \in [Procs -> 0 .. NPages]
    BY <1>2, MemFacts, ConstantsAssumption DEF TypeOK, PCs
  <2> QED BY ZenonT(60), <1>2, <1>4, <1>5, <2>1, MemFacts
          DEF TypeOK, KmemType, FrameMaps, Moved, WritableSet
<1>7. Unshared'
  BY <1>3, <1>4, <1>5, MemFacts, SlotFacts DEF Unshared, Moved, WritableSet
<1>8. /\ \A q \in Procs : q # p => Same(q)
      /\ pc'[p] = "user" /\ va'[p] = 0 /\ UNCHANGED <<state, sz, swapped, np>>
      /\ frame'[p][MEM] = NULL /\ frame'[p][v] # NULL
      /\ \A t \in Slots : t # v /\ t # MEM => frame'[p][t] = frame[p][t]
  BY <1>2, <1>4, MemFacts DEF TypeOK, Moved, Sole, Same
<1>9. StateInv(p)'
  BY ZenonT(60), <1>1, <1>3, <1>8, SlotFacts DEF StateInv
<1>10. CowInv(p)' /\ NpInv(p)'
  BY ZenonT(60), <1>8 DEF CowInv, NpInv, NpPCs, CowPCs
<1>11. pc[p] = "cow_dec"
  BY <1>2, Zenon
<1>12. Control'
  BY <1>3, <1>8, <1>9, <1>10, <1>11, OwnStep, Zenon DEF NpPCs
<1> QED BY <1>4, <1>6, <1>7, <1>12, Zenon DEF IInv, Moved

----------------------------------------------------------------------------
(* A step of fork(), wait() or freevm() of p on the idle process c leaves  *)
(* the memory of p alone.                                                  *)
LEMMA NpStep ==
  ASSUME IInv, UNCHANGED NONE, NEW p \in Procs, NEW c \in Procs, c # p,
         state[p] = "LIVE", pc[p] \notin CowPCs, pc'[p] \notin CowPCs,
         pc[c] = "user", pc'[c] = "user", va'[c] = va[c], frame'[c][MEM] = frame[c][MEM],
         \A q \in Procs : q # p /\ q # c => Same(q),
         state'[p] = state[p], sz'[p] = sz[p], swapped'[p] = swapped[p],
         \A t \in Slots : frame'[p][t] = frame[p][t],
         \A q \in Procs : q # p /\ pc[q] \in NpPCs => np[q] # c,
         pc[p] = "freevm" => np[p] = c,
         pc'[p] \in NpPCs => np'[p] = c,
         StateInv(c)', NpInv(p)'
  PROVE  Control'
<1>1. StateInv(p) /\ CowInv(p)
  BY ProcFacts, ZenonT(60)
<1>2. StateInv(p)'
  BY <1>1, SlotFacts DEF StateInv
<1>3. CowInv(p)'
  BY <1>1, SlotFacts, Zenon DEF CowInv, CowPCs
<1>4. CowInv(c)' /\ NpInv(c)'
  BY IdleKept, Zenon
<1> QED BY <1>2, <1>3, <1>4, ControlStep, Zenon

(* What fork() and wait() know of the process they work on. *)
LEMMA NpFacts ==
  ASSUME IInv, NEW p \in Procs, pc[p] \in NpPCs
  PROVE  \E c \in Procs :
           /\ c = np[p] /\ c # p /\ state[p] = "LIVE" /\ pc[c] = "user"
           /\ frame[c][MEM] = NULL
           /\ \/ state[c] = "EMBRYO" /\ frame[c][KSTACK] # NULL
              \/ pc[p] = "freevm" /\ state[c] = "ZOMBIE" /\ frame[c][KSTACK] = NULL
           /\ \A q \in Procs : q # p /\ pc[q] \in NpPCs => np[q] # c
<1>1. StateInv(p) /\ NpInv(p)
  BY ProcFacts, Zenon
<1>2. PICK c \in Procs : c = np[p]
  BY <1>1, Zenon DEF NpInv
<1>3. StateInv(c) /\ CowInv(c)
  BY ProcFacts, Zenon
<1>4. state[p] = "LIVE"
  BY <1>1, Zenon DEF StateInv, NpPCs
<1>5. \/ state[c] = "EMBRYO"
      \/ pc[p] = "freevm" /\ state[c] = "ZOMBIE" /\ frame[c][KSTACK] = NULL
  BY <1>1, <1>2, Zenon DEF NpInv
<1>6. pc[c] = "user" /\ (state[c] = "EMBRYO" => frame[c][KSTACK] # NULL)
  BY <1>3, <1>5, Zenon DEF StateInv
<1>7. frame[c][MEM] = NULL
  BY <1>3, <1>6, Zenon DEF CowInv
<1>8. \A q \in Procs : q # p /\ pc[q] \in NpPCs => np[q] # c
  BY <1>2, Zenon DEF IInv, Control, NpDistinct
<1> QED BY <1>2, <1>4, <1>5, <1>6, <1>7, <1>8, Zenon

----------------------------------------------------------------------------
(* allocproc() in fork(). *)
LEMMA ForkAllocprocInv ==
  ASSUME IInv, UNCHANGED NONE, NEW p \in Procs, NEW c \in Procs, ForkAllocproc(p, c)
  PROVE  IInv'
<1>1. StateInv(c) /\ NpInv(p)
  BY ProcFacts, Zenon
<1>2. /\ state[p] = "LIVE" /\ pc[p] = "user" /\ state[c] = "UNUSED" /\ c # p
      /\ nextpid' = nextpid + 1 /\ pid' = [pid EXCEPT ![c] = nextpid] /\ nextpid <= MaxPid
      /\ UNCHANGED <<content, parent, sz, writable, swapped, va, panicked>>
  BY Zenon DEF ForkAllocproc, Running
<1>3. /\ pc[c] = "user" /\ va[p] = 0 /\ \A s \in Slots : frame[c][s] = NULL
  BY <1>1, <1>2, Zenon DEF StateInv, NpInv, CowPCs
<1>4. nextpid' \in 1 .. MaxPid + 1 /\ pid' \in [Procs -> 0 .. MaxPid]
  BY <1>2, MemFacts, ConstantsAssumption DEF TypeOK
<1>5. CASE freelist # {}
  <2>1. /\ Kalloc /\ frame' = [frame EXCEPT ![c][KSTACK] = KallocFrame]
        /\ state' = [state EXCEPT ![c] = "EMBRYO"] /\ np' = [np EXCEPT ![p] = c]
        /\ pc' = [pc EXCEPT ![p] = "setupkvm"]
    BY <1>5, Zenon DEF ForkAllocproc
  <2>2. Took(c, KSTACK)
    BY ZenonT(60), <1>3, <2>1, MemFacts, SlotFacts, TakeFrame
  <2>3. TypeOK'
    <3>1. /\ state' \in [Procs -> States] /\ np' \in [Procs -> Procs \cup {NULL}]
          /\ pc' \in [Procs -> PCs]
      BY <2>1, MemFacts, Zenon DEF TypeOK, PCs, States
    <3> QED BY <1>2, <1>4, <2>2, <3>1, MemFacts, Zenon DEF TypeOK, KmemType, FrameMaps, Took
  <2>4. Unshared'
    BY <1>2, <2>2, MemFacts, SlotFacts, Zenon DEF Unshared, Took
  <2>5. /\ pc'[p] = "setupkvm" /\ np'[p] = c /\ state'[c] = "EMBRYO"
        /\ \A q \in Procs : q # p => pc'[q] = pc[q] /\ np'[q] = np[q]
        /\ \A q \in Procs : q # c => state'[q] = state[q]
    BY <2>1, MemFacts, Zenon DEF TypeOK
  <2>6. /\ frame'[c][KSTACK] # NULL /\ UNCHANGED <<sz, swapped, va>>
        /\ \A t \in Slots : t # KSTACK => frame'[c][t] = NULL
        /\ \A q \in Procs, t \in Slots : q # c => frame'[q][t] = frame[q][t]
    BY <1>2, <1>3, <2>2, ZenonT(60) DEF Took
  <2>7. \A q \in Procs : q # p /\ q # c => Same(q)
    BY <2>5, <2>6 DEF Same
  <2>8. StateInv(c)'
    BY <1>2, <1>3, <2>5, <2>6, Zenon DEF StateInv
  <2>9. NpInv(p)'
    BY <1>3, <2>5, <2>6, Zenon DEF NpInv, NpPCs, CowPCs
  <2>10. \A q \in Procs : q # p /\ pc[q] \in NpPCs => np[q] # c
    BY <1>2, NpFacts
  <2>11. /\ frame'[c][MEM] = frame[c][MEM] /\ pc'[c] = "user"
         /\ \A t \in Slots : frame'[p][t] = frame[p][t]
         /\ state'[p] = state[p] /\ sz'[p] = sz[p] /\ swapped'[p] = swapped[p]
         /\ va'[c] = va[c]
    BY <1>2, <1>3, <2>5, <2>6, SlotFacts
  <2>12. pc[p] \notin CowPCs /\ pc'[p] \notin CowPCs /\ pc[p] # "freevm"
    BY <1>2, <2>5, Zenon DEF CowPCs
  <2>13. Control'
    BY <1>2, <1>3, <2>5, <2>7, <2>8, <2>9, <2>10, <2>11, <2>12, NpStep, Zenon
  <2> QED BY <2>2, <2>3, <2>4, <2>13, Zenon DEF IInv, Took
<1>6. CASE freelist = {}
  <2>1. UNCHANGED <<freelist, references_count, free_pages, frame, state, np, pc>>
    BY <1>6, Zenon DEF ForkAllocproc, Kalloc
  <2>2. TypeOK'
    BY <1>2, <1>4, <2>1, MemFacts, Zenon DEF TypeOK
  <2>3. Counts' /\ Unshared' /\ Control'
    BY <1>2, <2>1, MemoryKept, ControlKept, Zenon
  <2> QED BY <2>2, <2>3, Zenon DEF IInv
<1> QED BY <1>5, <1>6, Zenon

(* setupkvm() in copyonwriteuvm() and copyuvm(). *)
LEMMA ForkSetupkvmInv ==
  ASSUME IInv, UNCHANGED NONE, NEW p \in Procs, ForkSetupkvm(p)
  PROVE  IInv'
<1>1. /\ pc[p] = "setupkvm"
      /\ UNCHANGED <<content, state, parent, pid, sz, writable, swapped, np, va, nextpid,
                     panicked>>
  BY Zenon DEF ForkSetupkvm, At
<1>2. pc[p] \in NpPCs /\ pc[p] \notin CowPCs
  BY <1>1, Zenon DEF NpPCs, CowPCs
<1>3. PICK c \in Procs :
        /\ c = np[p] /\ c # p /\ state[p] = "LIVE" /\ pc[c] = "user" /\ state[c] = "EMBRYO"
        /\ frame[c][KSTACK] # NULL
        /\ \A q \in Procs : q # p /\ pc[q] \in NpPCs => np[q] # c
  BY <1>1, <1>2, NpFacts, Zenon
<1>4. va[p] = 0 /\ \A s \in Slots : s # KSTACK => frame[c][s] = NULL
  <2>1. NpInv(p)
    BY ProcFacts, Zenon
  <2> QED BY <1>1, <1>3, <2>1, Zenon DEF NpInv, CowPCs
<1>5. Bounds(p)
  BY ProcFacts, Zenon
<1>6. CASE freelist # {}
  <2>1. /\ Kalloc /\ frame' = [frame EXCEPT ![c][PGDIR] = KallocFrame]
        /\ pc' = [pc EXCEPT ![p] = "copyuvm"]
    BY <1>3, <1>6, Zenon DEF ForkSetupkvm
  <2>2. Took(c, PGDIR)
    BY ZenonT(60), <1>4, <2>1, MemFacts, SlotFacts, TakeFrame
  <2>3. TypeOK'
    <3>1. pc' \in [Procs -> PCs]
      BY <2>1, MemFacts, Zenon DEF TypeOK, PCs
    <3> QED BY <1>1, <2>2, <3>1, MemFacts, Zenon DEF TypeOK, KmemType, FrameMaps, Took
  <2>4. Unshared'
    BY <1>1, <2>2, MemFacts, SlotFacts, Zenon DEF Unshared, Took
  <2>5. /\ pc'[p] = "copyuvm" /\ \A q \in Procs : q # p => pc'[q] = pc[q]
        /\ frame'[c][PGDIR] # NULL
        /\ \A t \in Slots : t # PGDIR => frame'[c][t] = frame[c][t]
        /\ \A q \in Procs, t \in Slots : q # c => frame'[q][t] = frame[q][t]
    BY <2>1, <2>2, MemFacts DEF TypeOK, Took
  <2>6. \A q \in Procs : q # p /\ q # c => Same(q)
    BY <1>1, <2>5, Zenon DEF Same
  <2>7. StateInv(c)'
    BY <1>1, <1>3, <2>5, SlotFacts, Zenon DEF StateInv
  <2>8. NpInv(p)'
    <3>1. va'[p] = 0 /\ va'[p] <= sz'[p]
      BY <1>1, <1>4, <1>5, Zenon DEF Bounds
    <3>2. \A v \in Pages : frame'[c][v] = NULL /\ ~(v < 0)
      BY <1>4, <2>5, SlotFacts
    <3>3. np'[p] = c /\ state'[c] = "EMBRYO"
      BY <1>1, <1>3, Zenon
    <3> QED BY <2>5, <3>1, <3>2, <3>3, Zenon DEF NpInv, CowPCs, NpPCs
  <2>9. /\ frame'[c][MEM] = frame[c][MEM] /\ pc'[c] = "user" /\ va'[c] = va[c]
        /\ \A t \in Slots : frame'[p][t] = frame[p][t]
        /\ state'[p] = state[p] /\ sz'[p] = sz[p] /\ swapped'[p] = swapped[p]
        /\ np'[p] = c /\ pc'[p] \notin CowPCs
    BY <1>1, <1>3, <2>5, SlotFacts, Zenon DEF CowPCs
  <2>10. Control'
    BY <1>2, <1>3, <2>6, <2>7, <2>8, <2>9, NpStep, Zenon
  <2> QED BY <2>2, <2>3, <2>4, <2>10, Zenon DEF IInv, Took
<1>7. CASE freelist = {}
  <2>1. /\ pc' = [pc EXCEPT ![p] = "free_kstack"]
        /\ UNCHANGED <<freelist, references_count, free_pages, frame>>
    BY <1>7, Zenon DEF ForkSetupkvm, Kalloc
  <2>2. TypeOK'
    <3>1. pc' \in [Procs -> PCs]
      BY <2>1, MemFacts, Zenon DEF TypeOK, PCs
    <3> QED BY <1>1, <2>1, <3>1, MemFacts, Zenon DEF TypeOK
  <2>3. pc'[p] = "free_kstack" /\ \A q \in Procs : q # p => pc'[q] = pc[q]
    BY <2>1, MemFacts, Zenon DEF TypeOK
  <2>4. Counts' /\ Unshared'
    BY <1>1, <2>1, MemoryKept, Zenon
  <2>5. \A q \in Procs : q # p /\ q # c => Same(q)
    BY <1>1, <2>1, <2>3, Zenon DEF Same
  <2>6. StateInv(c)'
    BY <1>1, <1>3, <2>1, <2>3, Zenon DEF StateInv
  <2>7. NpInv(p)'
    BY <1>1, <1>3, <1>4, <2>1, <2>3, Zenon DEF NpInv, NpPCs
  <2>8. /\ frame'[c][MEM] = frame[c][MEM] /\ pc'[c] = "user" /\ va'[c] = va[c]
        /\ \A t \in Slots : frame'[p][t] = frame[p][t]
        /\ state'[p] = state[p] /\ sz'[p] = sz[p] /\ swapped'[p] = swapped[p]
        /\ np'[p] = c /\ pc'[p] \notin CowPCs
    BY <1>1, <1>3, <2>1, <2>3, Zenon DEF CowPCs
  <2>9. Control'
    BY <1>2, <1>3, <2>5, <2>6, <2>7, <2>8, NpStep
  <2> QED BY <2>2, <2>4, <2>9, Zenon DEF IInv
<1> QED BY <1>6, <1>7, Zenon

(* The child becomes RUNNABLE. *)
LEMMA ForkDoneInv ==
  ASSUME IInv, UNCHANGED NONE, NEW p \in Procs, ForkDone(p)
  PROVE  IInv'
<1>1. /\ pc[p] = "copyuvm" /\ va[p] = sz[p]
      /\ UNCHANGED <<freelist, references_count, free_pages, content, pid, frame,
                     writable, swapped, nextpid, panicked>>
  BY Zenon DEF ForkDone, At
<1>2. pc[p] \in NpPCs /\ NpInv(p) /\ Bounds(p)
  BY <1>1, ProcFacts, Zenon DEF NpPCs
<1>3. PICK c \in Procs :
        /\ c = np[p] /\ c # p /\ state[p] = "LIVE" /\ pc[c] = "user" /\ state[c] = "EMBRYO"
        /\ frame[c][KSTACK] # NULL
        /\ \A q \in Procs : q # p /\ pc[q] \in NpPCs => np[q] # c
  BY <1>1, <1>2, NpFacts, Zenon
<1>4. /\ sz' = [sz EXCEPT ![c] = sz[p]] /\ parent' = [parent EXCEPT ![c] = p]
      /\ state' = [state EXCEPT ![c] = "LIVE"] /\ pc' = [pc EXCEPT ![p] = "user"]
      /\ np' = [np EXCEPT ![p] = NULL] /\ va' = [va EXCEPT ![p] = 0]
  BY <1>3, Zenon DEF ForkDone
<1>5. /\ frame[c][PGDIR] # NULL
      /\ \A v \in Pages : /\ v >= sz[p] => frame[c][v] = NULL
                          /\ v < sz[p] /\ frame[c][v] = NULL => ~NONE /\ swapped[c][v] # NULL
  BY <1>1, <1>2, <1>3, Zenon DEF NpInv
<1>6. TypeOK'
  <2>1. sz' \in [Procs -> 0 .. NPages] /\ va' \in [Procs -> 0 .. NPages]
    BY <1>4, MemFacts, ConstantsAssumption DEF TypeOK
  <2>2. /\ state' \in [Procs -> States] /\ pc' \in [Procs -> PCs]
        /\ np' \in [Procs -> Procs \cup {NULL}] /\ parent' \in [Procs -> Procs \cup {NULL}]
    BY <1>4, MemFacts, Zenon DEF TypeOK, States, PCs
  <2> QED BY <1>1, <2>1, <2>2, MemFacts, Zenon DEF TypeOK
<1>7. Counts' /\ Unshared'
  BY <1>1, MemoryKept, Zenon
<1>8. /\ pc'[p] = "user" /\ va'[p] = 0 /\ state'[c] = "LIVE" /\ sz'[c] = sz[p]
      /\ \A q \in Procs : q # p => pc'[q] = pc[q] /\ np'[q] = np[q] /\ va'[q] = va[q]
      /\ \A q \in Procs : q # c => state'[q] = state[q] /\ sz'[q] = sz[q]
      /\ UNCHANGED <<frame, swapped>>
  BY <1>1, <1>3, <1>4, MemFacts, Zenon DEF TypeOK
<1>9. \A q \in Procs : q # p /\ q # c => Same(q)
  BY <1>8, Zenon DEF Same
<1>10. StateInv(c)'
  BY ZenonT(60), <1>3, <1>5, <1>8 DEF StateInv
<1>11. NpInv(p)'
  BY <1>8, Zenon DEF NpInv, NpPCs, CowPCs
<1>12. /\ frame'[c][MEM] = frame[c][MEM] /\ pc'[c] = "user" /\ va'[c] = va[c]
       /\ \A t \in Slots : frame'[p][t] = frame[p][t]
       /\ state'[p] = state[p] /\ sz'[p] = sz[p] /\ swapped'[p] = swapped[p]
       /\ pc[p] \notin CowPCs /\ pc'[p] \notin CowPCs /\ pc'[p] \notin NpPCs
  BY <1>1, <1>3, <1>8, Zenon DEF CowPCs, NpPCs
<1>13. Control'
  BY <1>1, <1>3, <1>9, <1>10, <1>11, <1>12, NpStep, Zenon
<1> QED BY <1>6, <1>7, <1>13, Zenon DEF IInv

(* fork() gives the kernel stack of the child back. *)
LEMMA FreeKstackInv ==
  ASSUME IInv, UNCHANGED NONE, NEW p \in Procs, FreeKstack(p)
  PROVE  IInv'
<1>1. /\ pc[p] = "free_kstack"
      /\ UNCHANGED <<parent, pid, sz, writable, swapped, va, nextpid, panicked>>
  BY Zenon DEF FreeKstack, At
<1>2. pc[p] \in NpPCs /\ NpInv(p)
  BY <1>1, ProcFacts, Zenon DEF NpPCs
<1>3. PICK c \in Procs :
        /\ c = np[p] /\ c # p /\ state[p] = "LIVE" /\ pc[c] = "user" /\ state[c] = "EMBRYO"
        /\ frame[c][KSTACK] # NULL
        /\ \A q \in Procs : q # p /\ pc[q] \in NpPCs => np[q] # c
  BY <1>1, <1>2, NpFacts, Zenon
<1>4. /\ Kfree(frame[c][KSTACK]) /\ frame' = [frame EXCEPT ![c][KSTACK] = NULL]
      /\ state' = [state EXCEPT ![c] = "UNUSED"]
      /\ pc' = [pc EXCEPT ![p] = "user"] /\ np' = [np EXCEPT ![p] = NULL]
  BY <1>3, Zenon DEF FreeKstack
<1>5. va[p] = 0 /\ \A s \in Slots : s # KSTACK => frame[c][s] = NULL
  BY <1>1, <1>2, <1>3, Zenon DEF NpInv, CowPCs
<1>6. Dropped(c, KSTACK)
  BY ZenonT(60), <1>3, <1>4, MemFacts, SlotFacts, DropFrame
<1>7. TypeOK'
  <2>1. content' \in [Frames -> Vals \cup {Junk}]
    BY <1>4, <1>6, MemFacts, Zenon DEF Kfree, TypeOK, Dropped
  <2>2. /\ state' \in [Procs -> States] /\ pc' \in [Procs -> PCs]
        /\ np' \in [Procs -> Procs \cup {NULL}]
    BY <1>4, MemFacts, Zenon DEF TypeOK, States, PCs
  <2> QED BY <1>1, <1>6, <2>1, <2>2, MemFacts, Zenon DEF TypeOK, KmemType, FrameMaps, Dropped
<1>8. Unshared'
  BY <1>1, <1>6, MemFacts, SlotFacts, Zenon DEF Unshared, Dropped
<1>9. /\ pc'[p] = "user" /\ state'[c] = "UNUSED"
      /\ \A q \in Procs : q # p => pc'[q] = pc[q] /\ np'[q] = np[q]
      /\ \A q \in Procs : q # c => state'[q] = state[q]
      /\ UNCHANGED <<sz, swapped, va>>
      /\ \A t \in Slots : frame'[c][t] = NULL
      /\ \A q \in Procs, t \in Slots : q # c => frame'[q][t] = frame[q][t]
  BY <1>1, <1>4, <1>5, <1>6, MemFacts DEF TypeOK, Dropped
<1>10. \A q \in Procs : q # p /\ q # c => Same(q)
  BY <1>9, Zenon DEF Same
<1>11. StateInv(c)'
  BY <1>3, <1>9, Zenon DEF StateInv
<1>12. NpInv(p)'
  BY <1>5, <1>9, Zenon DEF NpInv, NpPCs, CowPCs
<1>13. /\ frame'[c][MEM] = frame[c][MEM] /\ pc'[c] = "user" /\ va'[c] = va[c]
       /\ \A t \in Slots : frame'[p][t] = frame[p][t]
       /\ state'[p] = state[p] /\ sz'[p] = sz[p] /\ swapped'[p] = swapped[p]
       /\ pc[p] \notin CowPCs /\ pc'[p] \notin CowPCs /\ pc'[p] \notin NpPCs
  BY <1>1, <1>3, <1>5, <1>9, SlotFacts, ZenonT(60) DEF CowPCs, NpPCs
<1>14. Control'
  BY ZenonT(60), <1>1, <1>3, <1>10, <1>11, <1>12, <1>13, NpStep
<1> QED BY <1>6, <1>7, <1>8, <1>14, Zenon DEF IInv, Dropped

(* What fork() knows while it copies page va of p to c. *)
LEMMA CopyFacts ==
  ASSUME IInv, NEW p \in Procs, pc[p] = "copyuvm", va[p] < sz[p]
  PROVE  \E c \in Procs, v \in Pages :
           /\ c = np[p] /\ v = va[p] /\ c # p /\ v \in Slots /\ v # MEM /\ v # KSTACK /\ v # PGDIR
           /\ state[p] = "LIVE" /\ state[c] = "EMBRYO" /\ pc[c] = "user"
           /\ frame[c][MEM] = NULL /\ frame[c][KSTACK] # NULL /\ frame[c][v] = NULL
           /\ v + 1 \in 0 .. NPages
           /\ \A q \in Procs : q # p /\ pc[q] \in NpPCs => np[q] # c
<1>1. NpInv(p) /\ Bounds(p) /\ pc[p] \in NpPCs
  BY ProcFacts, Zenon DEF NpPCs
<1>2. PICK c \in Procs :
        /\ c = np[p] /\ c # p /\ state[p] = "LIVE" /\ pc[c] = "user"
        /\ frame[c][MEM] = NULL /\ state[c] = "EMBRYO" /\ frame[c][KSTACK] # NULL
        /\ \A q \in Procs : q # p /\ pc[q] \in NpPCs => np[q] # c
  BY <1>1, NpFacts, Zenon
<1>3. PICK v \in Pages : v = va[p]
  BY <1>1 DEF Bounds
<1>4. v \in Slots /\ v # MEM /\ v # KSTACK /\ v # PGDIR
  BY SlotFacts, Zenon
<1>5. v + 1 \in 0 .. NPages
  BY ConstantsAssumption DEF Pages
<1>6. frame[c][v] = NULL
  BY <1>1, <1>2, <1>3, ConstantsAssumption DEF NpInv, Pages
<1> QED BY <1>2, <1>3, <1>4, <1>5, <1>6, Zenon

-----------------------------------------------------------------------------
(***************************************************************************)
(* The refinement of module PrivateMemory: what each process reads in its  *)
(* pages changes only by its own stores, sbrk(), fork() and exit().        *)
(***************************************************************************)

(* What q sees of its page v. *)
Seen(q, v) == IF frame[q][v] # NULL THEN content[frame[q][v]] ELSE swapped[q][v]

(* In the middle of fork() the pages the child has are those of its        *)
(* parent, and before handle_cow() gives up a page its copy is the same.   *)
Copied(q) ==
  /\ state[q] = "LIVE" => sz[q] > 0
  /\ pc[q] = "copyuvm" => \A v \in Pages : v < va[q] => Seen(np[q], v) = Seen(q, v)
  /\ pc[q] = "cow_dec" => content[frame[q][MEM]] = content[frame[q][va[q]]]

Copies == \A q \in Procs : Copied(q)

(* No frame but the one in slot t of r is written. *)
Spares(r, t) ==
  \A q \in Procs, s \in Slots :
    (q # r \/ s # t) /\ frame[q][s] # NULL => content'[frame[q][s]] = content[frame[q][s]]

(* A write to a frame that at most slot t of r holds. *)
LEMMA WritesOwn ==
  ASSUME NEW r, NEW t, NEW f,
         Held(frame, f) \subseteq {<<r, t>>}, frame \in FrameMaps,
         \A g \in Frames : g # f => content'[g] = content[g]
  PROVE  Spares(r, t)
<1> SUFFICES ASSUME NEW q \in Procs, NEW s \in Slots, q # r \/ s # t, frame[q][s] # NULL
             PROVE  content'[frame[q][s]] = content[frame[q][s]]
  BY Zenon DEF Spares
<1>1. frame[q][s] \in Frames BY DEF FrameMaps
<1>2. frame[q][s] # f
  <2> SUFFICES ASSUME frame[q][s] = f PROVE FALSE
    BY Zenon
  <2>1. <<q, s>> \in Held(frame, f) BY DEF Held
  <2>2. <<q, s>> = <<r, t>> BY <2>1
  <2> QED BY <2>2
<1> QED BY <1>1, <1>2, Zenon

(* kfree() writes the page only with its last reference. *)
LEMMA FreeSpares ==
  ASSUME IInv, NEW r \in Procs, NEW t \in Slots, frame[r][t] # NULL, Kfree(frame[r][t])
  PROVE  Spares(r, t)
<1> DEFINE f == frame[r][t]
<1>1. f \in Frames /\ frame \in FrameMaps /\ <<r, t>> \in Held(frame, f)
  BY MemFacts DEF KmemType, FrameMaps, Held
<1>2. references_count[f] = Cardinality(Held(frame, f)) /\ references_count[f] \in Nat
  BY <1>1, MemFacts DEF Counts, RefCountsExact, Holders, Held, KmemType
<1>3. /\ content \in [Frames -> Vals \cup {Junk}]
      /\ content' = IF (IF references_count[f] > 0 THEN references_count[f] - 1 ELSE 0) = 0
                    THEN [content EXCEPT ![f] = Junk] ELSE content
  BY MemFacts, Zenon DEF TypeOK, Kfree
<1> HIDE DEF f
<1>4. \A g \in Frames : g # f => content'[g] = content[g]
  BY <1>3
<1>5. CASE references_count[f] > 1
  <2>1. content' = content BY <1>2, <1>3, <1>5
  <2> QED BY <2>1, Zenon DEF Spares
<1>6. CASE ~(references_count[f] > 1)
  <2>1. references_count[f] # 0
    BY <1>1, <1>2, MemFacts, HeldFinite, NoElement, Zenon DEF Counts
  <2>2. Cardinality(Held(frame, f)) = 1 BY <1>2, <1>6, <2>1
  <2>3. \E x : Held(frame, f) = {x}
    BY <2>2, MemFacts, HeldFinite, Zenon DEF Counts, Counting
  <2>4. Held(frame, f) \subseteq {<<r, t>>} BY <1>1, <2>3
  <2> QED BY <1>1, <1>4, <2>4, WritesOwn
<1> QED BY <1>5, <1>6, Zenon

(* A frame kalloc() returns is nobody's yet. *)
LEMMA TakeSpares ==
  ASSUME IInv, NEW r, NEW t, Kalloc, NEW x,
         content' = [content EXCEPT ![KallocFrame] = x]
  PROVE  Spares(r, t)
<1>1. frame \in FrameMaps /\ content \in [Frames -> Vals \cup {Junk}]
  BY MemFacts, Zenon DEF KmemType, TypeOK
<1>2. KallocFrame \in freelist BY DEF Kalloc, KallocFrame
<1>3. Held(frame, KallocFrame) = {}
  BY <1>2, MemFacts, Zenon DEF Counts, FreeFramesUnheld, Holders, Held
<1>4. \A g \in Frames : g # KallocFrame => content'[g] = content[g]
  BY <1>1, Zenon
<1> QED BY <1>1, <1>3, <1>4, WritesOwn, Zenon

(* A frame with one holder. *)
LEMMA SoleSpares ==
  ASSUME IInv, NEW r \in Procs, NEW t \in Slots, Sole(frame, r, t), NEW x,
         content' = [content EXCEPT ![frame[r][t]] = x]
  PROVE  Spares(r, t)
<1>1. frame \in FrameMaps /\ content \in [Frames -> Vals \cup {Junk}]
  BY MemFacts, Zenon DEF KmemType, TypeOK
<1>2. \A g \in Frames : g # frame[r][t] => content'[g] = content[g]
  BY <1>1, Zenon
<1>3. Held(frame, frame[r][t]) \subseteq {<<r, t>>} BY Zenon DEF Sole
<1> QED BY <1>1, <1>2, <1>3, WritesOwn, Zenon

(* The memory of q looks the same if its pages do. *)
LEMMA MemSame ==
  ASSUME NEW q \in Procs, state'[q] = "LIVE" <=> state[q] = "LIVE",
         state[q] = "LIVE" => sz'[q] = sz[q] /\ \A v \in Pages :
                                v < sz[q] => Seen(q, v)' = Seen(q, v)
  PROVE  Mem'[q] = Mem[q]
<1>1. Mem[q] = [v \in Pages |-> IF state[q] = "LIVE" /\ v < sz[q] THEN Seen(q, v) ELSE NULL]
  BY DEF Mem, Seen
<1>2. Mem'[q] =
        [v \in Pages |-> IF state'[q] = "LIVE" /\ v < sz'[q] THEN Seen(q, v)' ELSE NULL]
  BY DEF Mem, Seen
<1>3. \A v \in Pages : (IF state'[q] = "LIVE" /\ v < sz'[q] THEN Seen(q, v)' ELSE NULL)
                     = (IF state[q] = "LIVE" /\ v < sz[q] THEN Seen(q, v) ELSE NULL)
  BY Zenon
<1> QED BY <1>1, <1>2, <1>3, Zenon

(* A page that fork() or handle_cow() of another process does not touch    *)
(* looks the same.                                                         *)
LEMMA SeenSame ==
  ASSUME NEW r, NEW t, Spares(r, t), NEW q \in Procs, NEW v \in Pages,
         v \in Slots, q # r \/ v # t,
         frame'[q][v] = frame[q][v], swapped'[q][v] = swapped[q][v]
  PROVE  Seen(q, v)' = Seen(q, v)
  BY Zenon DEF Spares, Seen

(* The pages of q but v look the same. *)
LEMMA PagesSame ==
  ASSUME NEW q \in Procs, NEW v, Spares(q, v),
         \A u \in Pages : u # v => frame'[q][u] = frame[q][u] /\ swapped'[q][u] = swapped[q][u]
  PROVE  \A u \in Pages : u # v => Seen(q, u)' = Seen(q, u)
<1> SUFFICES ASSUME NEW u \in Pages, u # v PROVE Seen(q, u)' = Seen(q, u)
  BY Zenon
<1>1. u \in Slots BY SlotFacts
<1>2. frame'[q][u] = frame[q][u] /\ swapped'[q][u] = swapped[q][u] BY Zenon
<1> QED BY <1>1, <1>2, SeenSame

(* A step of p on itself (c = p), or on the idle process c, is not seen by *)
(* any other process.                                                      *)
LEMMA OthersKept ==
  ASSUME IInv, Copies, NEW p \in Procs, NEW c \in Procs, NEW r \in {p, c}, NEW t,
         state[p] = "LIVE", Spares(r, t),
         \A q \in Procs : q # p /\ q # c => Same(q),
         \A q \in Procs : q # p /\ pc[q] \in NpPCs => np[q] # c
  PROVE  \A q \in Procs : q # p /\ q # c => Copied(q)' /\ Mem'[q] = Mem[q]
<1> SUFFICES ASSUME NEW q \in Procs, q # p, q # c
             PROVE  Copied(q)' /\ Mem'[q] = Mem[q]
  BY Zenon
<1>1. Same(q) /\ Copied(q) /\ NpInv(q) /\ CowInv(q) /\ Bounds(q)
  BY ProcFacts, Zenon DEF Copies
<1>2. ASSUME NEW x \in Procs, x # p, x # c, NEW v \in Pages PROVE Seen(x, v)' = Seen(x, v)
  <2>1. Same(x) /\ v \in Slots /\ x # r BY <1>2, SlotFacts
  <2> QED BY <2>1, SeenSame, ZenonT(60) DEF Same
<1>3. Mem'[q] = Mem[q]
  BY <1>1, <1>2, MemSame, Zenon DEF Same
<1>4. pc'[q] = "copyuvm" => (\A v \in Pages : v < va[q] => Seen(np[q], v) = Seen(q, v))'
  <2> SUFFICES ASSUME pc[q] = "copyuvm"
               PROVE  (\A v \in Pages : v < va[q] => Seen(np[q], v) = Seen(q, v))'
    BY <1>1, Zenon DEF Same
  <2>1. PICK d \in Procs : d = np[q] /\ d # p /\ d # c
    BY <1>1, NpFacts, Zenon DEF NpInv, NpPCs
  <2>2. \A v \in Pages : v < va[q] => Seen(d, v) = Seen(q, v)
    BY <1>1, <2>1, Zenon DEF Copied
  <2>3. \A v \in Pages : v < va[q] => Seen(d, v)' = Seen(q, v)'
    BY <1>2, <2>1, <2>2, Zenon
  <2>4. d = np'[q] /\ va'[q] = va[q] BY <1>1, <2>1, Zenon DEF Same
  <2> QED BY <2>3, <2>4, Zenon DEF Seen
<1>5. pc'[q] = "cow_dec" => content'[frame'[q][MEM]] = content'[frame'[q][va'[q]]]
  <2>1. pc[q] = "cow_dec" => /\ va[q] \in Slots /\ frame[q][va[q]] # NULL
                             /\ frame[q][MEM] # NULL /\ MEM \in Slots
    BY <1>1, SlotFacts DEF CowInv, CowPCs, Bounds
  <2> SUFFICES ASSUME pc[q] = "cow_dec"
               PROVE  content'[frame'[q][MEM]] = content'[frame'[q][va'[q]]]
    BY <1>1, Zenon DEF Same
  <2>2. content'[frame[q][MEM]] = content[frame[q][MEM]] BY <2>1, Zenon DEF Spares
  <2>3. content'[frame[q][va[q]]] = content[frame[q][va[q]]] BY <2>1, Zenon DEF Spares
  <2>4. frame'[q][MEM] = frame[q][MEM] /\ frame'[q][va'[q]] = frame[q][va[q]]
    BY <1>1, <2>1, Zenon DEF Same
  <2>5. content[frame[q][MEM]] = content[frame[q][va[q]]] BY <1>1, Zenon DEF Copied
  <2> QED BY <2>2, <2>3, <2>4, <2>5, Zenon
<1> QED BY <1>1, <1>3, <1>4, <1>5, Zenon DEF Copied, Same

(* Nothing changes that a process can see. *)
LEMMA UnseenStep ==
  ASSUME IInv, Copies, NEW p \in Procs, NEW c \in Procs, NEW r \in {p, c}, NEW t,
         state[p] = "LIVE", Spares(r, t),
         \A q \in Procs : q # p /\ q # c => Same(q),
         \A q \in Procs : q # p /\ pc[q] \in NpPCs => np[q] # c,
         Copied(p)', Copied(c)', Mem'[p] = Mem[p], Mem'[c] = Mem[c]
  PROVE  Copies' /\ Mem' = Mem
<1>1. \A q \in Procs : q # p /\ q # c => Copied(q)' /\ Mem'[q] = Mem[q]
  BY OthersKept, Zenon
<1>2. \A q \in Procs : Copied(q)' /\ Mem'[q] = Mem[q] BY <1>1, Zenon
<1>3. Mem = [q \in Procs |-> Mem[q]] /\ Mem' = [q \in Procs |-> Mem'[q]]
  BY Zenon DEF Mem
<1>4. [q \in Procs |-> Mem'[q]] = [q \in Procs |-> Mem[q]] BY <1>2, Zenon
<1> QED BY <1>2, <1>3, <1>4, Zenon DEF Copies

(* A process that runs is nobody's np. *)
LEMMA NotNp ==
  ASSUME IInv, NEW p \in Procs, state[p] = "LIVE"
  PROVE  \A q \in Procs : q # p /\ pc[q] \in NpPCs => np[q] # p
  BY NpFacts

(* The same for a step of p on itself. *)
LEMMA OwnUnseen ==
  ASSUME IInv, Copies, NEW p \in Procs, NEW t, state[p] = "LIVE", Spares(p, t),
         \A q \in Procs : q # p => Same(q),
         state'[p] = "LIVE", sz'[p] = sz[p],
         \A v \in Pages : v < sz[p] => Seen(p, v)' = Seen(p, v),
         pc'[p] # "copyuvm",
         pc'[p] = "cow_dec" => content'[frame'[p][MEM]] = content'[frame'[p][va'[p]]]
  PROVE  Copies' /\ Mem' = Mem
<1>1. Mem'[p] = Mem[p] BY MemSame, Zenon
<1>2. Copied(p)' BY Zenon DEF Copies, Copied
<1> QED BY <1>1, <1>2, NotNp, UnseenStep, Zenon

(* And for a step of p on the idle process c. *)
LEMMA ChildUnseen ==
  ASSUME IInv, Copies, NEW p \in Procs, NEW c \in Procs, NEW t, c # p,
         state[p] = "LIVE", Spares(c, t),
         \A q \in Procs : q # p /\ q # c => Same(q),
         \A q \in Procs : q # p /\ pc[q] \in NpPCs => np[q] # c,
         state'[p] = state[p], sz'[p] = sz[p], swapped'[p] = swapped[p],
         \A s \in Slots : frame'[p][s] = frame[p][s],
         state[c] # "LIVE", state'[c] # "LIVE", pc'[c] = "user",
         pc'[p] # "cow_dec",
         pc'[p] = "copyuvm" =>
           np'[p] = c /\ \A v \in Pages : v < va'[p] => Seen(c, v)' = Seen(p, v)
  PROVE  Copies' /\ Mem' = Mem
<1>1. \A v \in Pages : Seen(p, v)' = Seen(p, v)
  BY SeenSame, SlotFacts, Zenon
<1>2. Mem'[p] = Mem[p] /\ Mem'[c] = Mem[c] BY <1>1, MemSame, Zenon
<1>3. Copied(c)' BY Zenon DEF Copied
<1>4. Copied(p)'
  <2>1. pc'[p] = "copyuvm" => (\A v \in Pages : v < va[p] => Seen(np[p], v) = Seen(p, v))'
    <3> SUFFICES ASSUME pc'[p] = "copyuvm"
                 PROVE  (\A v \in Pages : v < va[p] => Seen(np[p], v) = Seen(p, v))'
      BY Zenon
    <3>1. \A v \in Pages : v < va'[p] => Seen(c, v)' = Seen(p, v)' BY <1>1, Zenon
    <3>2. np'[p] = c BY Zenon
    <3> QED BY <3>1, <3>2, Zenon DEF Seen
  <2> QED BY <2>1, Zenon DEF Copies, Copied
<1> QED BY <1>2, <1>3, <1>4, UnseenStep, Zenon

----------------------------------------------------------------------------
(* swap(): the page in the swap file is the one that was resident. *)
LEMMA SwapOutUnseen ==
  ASSUME IInv, Copies, NEW p \in Procs, NEW v \in Pages, SwapOut(p, v)
  PROVE  Copies' /\ Mem' = Mem
<1>1. /\ state[p] = "LIVE" /\ pc[p] = "user" /\ frame[p][v] # NULL
      /\ Kfree(frame[p][v]) /\ UNCHANGED <<state, sz, pc, np, va>>
      /\ swapped' = Upd(swapped, p, v, content[frame[p][v]])
      /\ frame' = [frame EXCEPT ![p][v] = NULL]
  BY Zenon DEF SwapOut, Running, Upd
<1>2. v \in Slots BY SlotFacts
<1>3. Spares(p, v) BY <1>1, <1>2, FreeSpares, Zenon
<1>4. /\ \A q \in Procs : q # p => Same(q)
      /\ \A u \in Pages : u # v => frame'[p][u] = frame[p][u] /\ swapped'[p][u] = swapped[p][u]
      /\ frame'[p][v] = NULL /\ swapped'[p][v] = content[frame[p][v]]
  BY <1>1, <1>2, SlotFacts, MemFacts DEF TypeOK, Same, Upd
<1>5. ASSUME NEW u \in Pages PROVE Seen(p, u)' = Seen(p, u)
  <2>1. CASE u = v BY <1>1, <1>4, <2>1, ZenonT(60) DEF Seen
  <2>2. CASE u # v BY <1>3, <1>4, <2>2, PagesSame
  <2> QED BY <2>1, <2>2, Zenon
<1> QED BY <1>1, <1>3, <1>4, <1>5, OwnUnseen, Zenon

(* handle_pf() brings back what swap() wrote. *)
LEMMA SwapInUnseen ==
  ASSUME IInv, Copies, NEW p \in Procs, NEW v \in Pages, SwapIn(p, v)
  PROVE  Copies' /\ Mem' = Mem
<1> DEFINE K == KallocFrame
<1>1. /\ state[p] = "LIVE" /\ pc[p] = "user" /\ frame[p][v] = NULL
      /\ Kalloc /\ UNCHANGED <<state, sz, pc, np, va>>
      /\ content' = [content EXCEPT ![KallocFrame] = swapped[p][v]]
      /\ swapped' = Upd(swapped, p, v, NULL)
      /\ frame' = [frame EXCEPT ![p][v] = K]
  BY Zenon DEF SwapIn, Running, Upd
<1>2. v \in Slots BY SlotFacts
<1>3. Spares(p, v) BY <1>1, TakeSpares, Zenon
<1>4. K \in Frames /\ K # NULL
  BY <1>1, MemFacts, ConstantsAssumption DEF Kalloc, KallocFrame, KmemType
<1>5. content'[K] = swapped[p][v] BY <1>1, <1>4, MemFacts, Zenon DEF TypeOK
<1> HIDE DEF K
<1>6. /\ \A q \in Procs : q # p => Same(q)
      /\ \A u \in Pages : u # v => frame'[p][u] = frame[p][u] /\ swapped'[p][u] = swapped[p][u]
      /\ frame'[p][v] = K
  BY <1>1, <1>2, SlotFacts, MemFacts DEF TypeOK, Same, Upd
<1>7. ASSUME NEW u \in Pages PROVE Seen(p, u)' = Seen(p, u)
  <2>1. CASE u = v BY <1>1, <1>4, <1>5, <1>6, <2>1, ZenonT(60) DEF Seen
  <2>2. CASE u # v BY <1>3, <1>6, <2>2, PagesSame
  <2> QED BY <2>1, <2>2, Zenon
<1> QED BY <1>1, <1>3, <1>6, <1>7, OwnUnseen, Zenon

(* handle_cow() maps the page writable, or begins to copy it. *)
LEMMA CowFaultUnseen ==
  ASSUME IInv, Copies, NEW p \in Procs, NEW v \in Pages, CowFault(p, v)
  PROVE  Copies' /\ Mem' = Mem
<1>1. /\ state[p] = "LIVE" /\ UNCHANGED <<state, sz, np, frame, content, swapped>>
      /\ pc[p] = "user"
      /\ \/ pc' = [pc EXCEPT ![p] = "cow_kalloc"] /\ va' = [va EXCEPT ![p] = v]
         \/ UNCHANGED <<pc, va>>
  BY Zenon DEF CowFault, Running
<1>2. (\A q \in Procs : q # p => Same(q)) /\ pc'[p] \in {"user", "cow_kalloc"}
  BY <1>1, MemFacts, Zenon DEF TypeOK, Same
<1>3. Spares(p, v) /\ \A u \in Pages : Seen(p, u)' = Seen(p, u)
  BY <1>1, Zenon DEF Spares, Seen
<1> QED BY <1>1, <1>2, <1>3, OwnUnseen, Zenon

(* The new page is nobody's page yet. *)
LEMMA CowKallocUnseen ==
  ASSUME IInv, Copies, NEW p \in Procs, CowKalloc(p)
  PROVE  Copies' /\ Mem' = Mem
<1>1. /\ pc[p] = "cow_kalloc" /\ UNCHANGED <<state, sz, np, va, content, swapped>>
      /\ \/ frame' = [frame EXCEPT ![p][MEM] = KallocFrame] /\ pc' = [pc EXCEPT ![p] = "cow_copy"]
         \/ UNCHANGED <<frame, pc>>
  BY Zenon DEF CowKalloc, At
<1>2. state[p] = "LIVE" BY <1>1, ProcFacts, Zenon DEF StateInv
<1>3. /\ \A q \in Procs : q # p => Same(q)
      /\ pc'[p] \in {"cow_kalloc", "cow_copy"}
      /\ \A u \in Pages : frame'[p][u] = frame[p][u]
  BY <1>1, SlotFacts, MemFacts DEF TypeOK, Same
<1>4. Spares(p, MEM) /\ \A u \in Pages : Seen(p, u)' = Seen(p, u)
  BY <1>1, <1>3, Zenon DEF Spares, Seen
<1> QED BY <1>1, <1>2, <1>3, <1>4, OwnUnseen, Zenon

(* The copy is made in a page nobody else has. *)
LEMMA CowCopyUnseen ==
  ASSUME IInv, Copies, NEW p \in Procs, CowCopy(p)
  PROVE  Copies' /\ Mem' = Mem
<1>1. /\ pc[p] = "cow_copy" /\ UNCHANGED <<state, sz, np, va, frame, swapped>>
      /\ content' = [content EXCEPT ![frame[p][MEM]] = content[frame[p][va[p]]]]
      /\ pc' = [pc EXCEPT ![p] = "cow_dec"]
  BY Zenon DEF CowCopy, At
<1>2. StateInv(p) /\ CowInv(p) /\ Bounds(p) BY ProcFacts, Zenon
<1>3. state[p] = "LIVE" /\ frame[p][MEM] # NULL /\ va[p] < sz[p] /\ frame[p][va[p]] # NULL
  BY <1>1, <1>2, ZenonT(60) DEF StateInv, CowInv, CowPCs
<1>4. va[p] \in Pages BY <1>2, <1>3 DEF Bounds
<1>5. MEM \in Slots /\ va[p] \in Slots /\ va[p] # MEM BY <1>4, SlotFacts
<1>6. Sole(frame, p, MEM) BY <1>3, MemFacts, Zenon DEF Unshared
<1>7. Spares(p, MEM) BY <1>1, <1>5, <1>6, SoleSpares, Zenon
<1>8. (\A q \in Procs : q # p => Same(q)) /\ pc'[p] = "cow_dec"
  BY <1>1, MemFacts, Zenon DEF TypeOK, Same
<1>9. \A u \in Pages : Seen(p, u)' = Seen(p, u)
  <2>1. \A u \in Pages : u # MEM BY SlotFacts
  <2> QED BY <1>1, <1>7, <2>1, PagesSame, Zenon
<1>10. content'[frame'[p][MEM]] = content'[frame'[p][va'[p]]]
  <2>1. frame[p][MEM] \in Frames BY <1>3, <1>5, MemFacts DEF KmemType, FrameMaps
  <2>2. content'[frame[p][MEM]] = content[frame[p][va[p]]]
    BY <1>1, <2>1, MemFacts, Zenon DEF TypeOK
  <2>3. content'[frame[p][va[p]]] = content[frame[p][va[p]]]
    BY <1>3, <1>5, <1>7, Zenon DEF Spares
  <2> QED BY <1>1, <2>2, <2>3, Zenon
<1>11. pc'[p] # "copyuvm" BY <1>8, Zenon
<1> QED BY <1>1, <1>3, <1>7, <1>8, <1>9, <1>10, <1>11, OwnUnseen, ZenonT(60)

(* The page is replaced by its copy. *)
LEMMA CowDecUnseen ==
  ASSUME IInv, Copies, NEW p \in Procs, CowDec(p)
  PROVE  Copies' /\ Mem' = Mem
<1> DEFINE v == va[p]
<1>1. /\ pc[p] = "cow_dec" /\ UNCHANGED <<state, sz, np, content, swapped>>
      /\ frame' = [frame EXCEPT ![p][v] = frame[p][MEM], ![p][MEM] = NULL]
      /\ pc' = [pc EXCEPT ![p] = "user"] /\ va' = [va EXCEPT ![p] = 0]
  BY Zenon DEF CowDec, At
<1>2. StateInv(p) /\ CowInv(p) /\ Bounds(p) BY ProcFacts, Zenon
<1>3. state[p] = "LIVE" /\ frame[p][MEM] # NULL /\ v < sz[p] /\ frame[p][v] # NULL
  BY <1>1, <1>2, Zenon DEF StateInv, CowInv, CowPCs
<1>4. v \in Pages BY <1>2, <1>3 DEF Bounds
<1>5. content[frame[p][MEM]] = content[frame[p][v]] BY <1>1, ZenonT(60) DEF Copies, Copied
<1> HIDE DEF v
<1>6. /\ \A q \in Procs : q # p => Same(q)
      /\ pc'[p] = "user" /\ frame'[p][v] = frame[p][MEM]
      /\ \A u \in Pages : u # v => frame'[p][u] = frame[p][u]
  BY <1>1, <1>4, SlotFacts, MemFacts DEF TypeOK, Same
<1>7. Spares(p, v) BY <1>1, Zenon DEF Spares
<1>8. ASSUME NEW u \in Pages PROVE Seen(p, u)' = Seen(p, u)
  <2>1. CASE u = v BY <1>1, <1>3, <1>5, <1>6, <2>1, Zenon DEF Seen
  <2>2. CASE u # v
    <3>1. frame'[p][u] = frame[p][u] BY <1>6, <2>2
    <3>2. UNCHANGED <<content, swapped>> BY <1>1
    <3> QED BY <3>1, <3>2, Zenon DEF Seen
  <2> QED BY <2>1, <2>2, Zenon
<1> QED BY <1>1, <1>3, <1>6, <1>7, <1>8, OwnUnseen, Zenon

----------------------------------------------------------------------------
(* allocproc() gives the child its kernel stack. *)
LEMMA ForkAllocprocUnseen ==
  ASSUME IInv, Copies, NEW p \in Procs, NEW c \in Procs, ForkAllocproc(p, c)
  PROVE  Copies' /\ Mem' = Mem
<1>1. /\ state[p] = "LIVE" /\ pc[p] = "user" /\ state[c] = "UNUSED" /\ c # p
      /\ UNCHANGED <<content, sz, swapped, va>>
      /\ \/ /\ frame' = [frame EXCEPT ![c][KSTACK] = KallocFrame]
            /\ state' = [state EXCEPT ![c] = "EMBRYO"] /\ np' = [np EXCEPT ![p] = c]
            /\ pc' = [pc EXCEPT ![p] = "setupkvm"]
         \/ UNCHANGED <<frame, state, np, pc>>
  BY Zenon DEF ForkAllocproc, Running
<1>2. pc[c] = "user" BY <1>1, ProcFacts, Zenon DEF StateInv
<1>3. /\ \A q \in Procs : q # p /\ q # c => Same(q)
      /\ state'[p] = state[p] /\ pc'[p] \in {"user", "setupkvm"} /\ pc'[c] = "user"
      /\ state'[c] # "LIVE" /\ state[c] # "LIVE"
      /\ \A s \in Slots : frame'[p][s] = frame[p][s]
  BY <1>1, <1>2, MemFacts, ZenonT(60) DEF TypeOK, Same
<1>4. \A q \in Procs : q # p /\ pc[q] \in NpPCs => np[q] # c BY <1>1, NpFacts
<1>5. Spares(c, KSTACK) BY <1>1, Zenon DEF Spares
<1>6. sz'[p] = sz[p] /\ swapped'[p] = swapped[p] /\ pc'[p] # "cow_dec" /\ pc'[p] # "copyuvm"
  BY <1>1, <1>3, Zenon
<1> QED BY <1>1, <1>3, <1>4, <1>5, <1>6, ChildUnseen, Zenon

(* setupkvm() gives it its page directory. *)
LEMMA ForkSetupkvmUnseen ==
  ASSUME IInv, Copies, NEW p \in Procs, ForkSetupkvm(p)
  PROVE  Copies' /\ Mem' = Mem
<1>1. pc[p] = "setupkvm" /\ pc[p] \in NpPCs BY Zenon DEF ForkSetupkvm, At, NpPCs
<1>2. PICK c \in Procs :
        /\ c = np[p] /\ c # p /\ state[p] = "LIVE" /\ pc[c] = "user" /\ state[c] # "LIVE"
        /\ \A q \in Procs : q # p /\ pc[q] \in NpPCs => np[q] # c
  BY <1>1, NpFacts, Zenon
<1>3. /\ UNCHANGED <<content, state, sz, swapped, np, va>>
      /\ \/ frame' = [frame EXCEPT ![c][PGDIR] = KallocFrame] /\ pc' = [pc EXCEPT ![p] = "copyuvm"]
         \/ UNCHANGED frame /\ pc' = [pc EXCEPT ![p] = "free_kstack"]
  BY <1>2, Zenon DEF ForkSetupkvm
<1>4. /\ \A q \in Procs : q # p /\ q # c => Same(q)
      /\ pc'[p] \in {"copyuvm", "free_kstack"} /\ pc'[c] = "user"
      /\ \A s \in Slots : frame'[p][s] = frame[p][s]
  BY <1>2, <1>3, MemFacts, Zenon DEF TypeOK, Same
<1>5. Spares(c, PGDIR) BY <1>3, Zenon DEF Spares
<1>6. va'[p] = 0 BY <1>1, <1>3, ProcFacts, Zenon DEF NpInv, CowPCs
<1>7. \A v \in Pages : ~(v < va'[p]) BY <1>6, SlotFacts
<1>8. np'[p] = c /\ pc'[p] # "cow_dec" BY <1>2, <1>3, <1>4, Zenon
<1> QED BY <1>2, <1>3, <1>4, <1>5, <1>7, <1>8, ChildUnseen, Zenon

(* Pages are numbers, and slots. *)
LEMMA PageFacts ==
  /\ \A u \in Pages : u \in Slots
  /\ \A u, v \in Pages : u < v + 1 => u < v \/ u = v
  /\ \A u, v \in Pages : u < v => u # v
<1>1. \A u \in Pages : u \in Slots BY SlotFacts
<1>2. \A u \in Pages : u \in Int BY DEF Pages
<1> QED BY <1>1, <1>2

(* In the loop of copyuvm() the child is np, nobody else's, and has the    *)
(* pages below the one at hand.                                            *)
LEMMA CopierFacts ==
  ASSUME IInv, Copies, NEW p \in Procs, pc[p] = "copyuvm", va[p] < sz[p]
  PROVE  \E c \in Procs, v \in Pages :
           /\ c = np[p] /\ v = va[p] /\ c # p /\ v \in Slots /\ frame[c][v] = NULL
           /\ state[p] = "LIVE" /\ state[c] = "EMBRYO" /\ pc[c] = "user"
           /\ \A q \in Procs : q # p /\ pc[q] \in NpPCs => np[q] # c
           /\ \A u \in Pages : u < v => Seen(c, u) = Seen(p, u)
<1>1. PICK c \in Procs, v \in Pages :
        /\ c = np[p] /\ v = va[p] /\ c # p /\ v \in Slots /\ frame[c][v] = NULL
        /\ state[p] = "LIVE" /\ state[c] = "EMBRYO" /\ pc[c] = "user"
        /\ \A q \in Procs : q # p /\ pc[q] \in NpPCs => np[q] # c
  BY CopyFacts
<1>2. \A u \in Pages : u < va[p] => Seen(np[p], u) = Seen(p, u)
  BY Zenon DEF Copies, Copied
<1>3. \A u \in Pages : u < v => Seen(c, u) = Seen(p, u) BY <1>1, <1>2, Zenon
<1> QED BY <1>1, <1>3, ZenonT(60)

(* The pages of the child but v look the same. *)
LEMMA ChildPages ==
  ASSUME NEW c \in Procs, NEW v \in Pages, Spares(c, v),
         \A t \in Slots : t # v => frame'[c][t] = frame[c][t],
         \A u \in Pages : u # v => swapped'[c][u] = swapped[c][u]
  PROVE  \A u \in Pages : u # v => Seen(c, u)' = Seen(c, u)
<1> SUFFICES ASSUME NEW u \in Pages, u # v PROVE Seen(c, u)' = Seen(c, u) BY Zenon
<1>1. u \in Slots BY PageFacts, Zenon
<1>2. frame'[c][u] = frame[c][u] /\ swapped'[c][u] = swapped[c][u] BY <1>1, Zenon
<1> QED BY <1>1, <1>2, ZenonT(60) DEF Spares, Seen

(* fork() goes on to the next page, and the one it leaves is the same for  *)
(* parent and child.                                                       *)
LEMMA NextPageUnseen ==
  ASSUME IInv, Copies, NEW p \in Procs, NEW c \in Procs, NEW v \in Pages, c # p,
         state[p] = "LIVE", state[c] = "EMBRYO", pc[c] = "user", pc[p] = "copyuvm",
         \A q \in Procs : q # p /\ pc[q] \in NpPCs => np[q] # c,
         \A u \in Pages : u < v => Seen(c, u) = Seen(p, u),
         UNCHANGED <<state, sz, pc, np>>, np'[p] = c, va'[p] = v + 1, Spares(c, v),
         \A q \in Procs : q # p => va'[q] = va[q],
         \A q \in Procs : q # c => swapped'[q] = swapped[q],
         \A q \in Procs, t \in Slots : q # c => frame'[q][t] = frame[q][t],
         \A t \in Slots : t # v => frame'[c][t] = frame[c][t],
         \A u \in Pages : u # v => swapped'[c][u] = swapped[c][u],
         Seen(c, v)' = Seen(p, v)
  PROVE  Copies' /\ Mem' = Mem
<1>1. ASSUME NEW q \in Procs, q # p, q # c PROVE Same(q)
  <2>1. state'[q] = state[q] /\ pc'[q] = pc[q] /\ np'[q] = np[q] /\ sz'[q] = sz[q] BY Zenon
  <2>2. va'[q] = va[q] /\ swapped'[q] = swapped[q] BY <1>1, Zenon
  <2>3. \A t \in Slots : frame'[q][t] = frame[q][t] BY <1>1, Zenon
  <2> QED BY <2>1, <2>2, <2>3, Zenon DEF Same
<1>2. \A u \in Pages : u # v => Seen(c, u)' = Seen(c, u) BY ChildPages, ZenonT(60)
<1>3. ASSUME NEW u \in Pages, u < va'[p] PROVE Seen(c, u)' = Seen(p, u)
  <2>1. u < v \/ u = v BY <1>3, PageFacts, Zenon
  <2>2. u < v => u # v BY PageFacts, Zenon
  <2> QED BY <1>2, <2>1, <2>2, Zenon
<1>4. /\ state'[p] = state[p] /\ sz'[p] = sz[p] /\ swapped'[p] = swapped[p]
      /\ \A s \in Slots : frame'[p][s] = frame[p][s]
      /\ state[c] # "LIVE" /\ state'[c] # "LIVE" /\ pc'[c] = "user" /\ pc'[p] # "cow_dec"
  BY Zenon
<1> QED BY <1>1, <1>3, <1>4, ChildUnseen, Zenon

(* copyonwriteuvm() shares a page. *)
LEMMA ForkSharePageUnseen ==
  ASSUME IInv, Copies, NEW p \in Procs, ForkSharePage(p)
  PROVE  Copies' /\ Mem' = Mem
<1>1. pc[p] = "copyuvm" /\ va[p] < sz[p] BY Zenon DEF ForkSharePage, At
<1>2. PICK c \in Procs, v \in Pages :
        /\ c = np[p] /\ v = va[p] /\ c # p /\ v \in Slots /\ frame[c][v] = NULL
        /\ state[p] = "LIVE" /\ state[c] = "EMBRYO" /\ pc[c] = "user"
        /\ \A q \in Procs : q # p /\ pc[q] \in NpPCs => np[q] # c
        /\ \A u \in Pages : u < v => Seen(c, u) = Seen(p, u)
  BY <1>1, CopierFacts, Zenon
<1>3. /\ UNCHANGED <<content, swapped>> /\ UNCHANGED <<state, sz, pc, np>>
      /\ frame[p][v] # NULL
      /\ frame' = [frame EXCEPT ![c][v] = frame[p][v]] /\ va' = [va EXCEPT ![p] = v + 1]
  BY <1>2, Zenon DEF ForkSharePage
<1>4. /\ va'[p] = v + 1 /\ \A q \in Procs : q # p => va'[q] = va[q]
      /\ frame'[c][v] = frame[p][v]
      /\ \A q \in Procs, t \in Slots : q # c => frame'[q][t] = frame[q][t]
      /\ \A t \in Slots : t # v => frame'[c][t] = frame[c][t]
  BY <1>2, <1>3, MemFacts, Zenon DEF TypeOK
<1>5. Spares(c, v) BY <1>3, Zenon DEF Spares
<1>6. Seen(c, v)' = Seen(p, v)
  <2>1. UNCHANGED content /\ frame[p][v] # NULL BY <1>3, Zenon
  <2> QED BY <1>4, <2>1, Zenon DEF Seen
<1>7. \A q \in Procs : swapped'[q] = swapped[q] BY <1>3, Zenon
<1>8. UNCHANGED <<state, sz, pc, np>> /\ np'[p] = c BY <1>2, <1>3, Zenon
<1> QED BY <1>1, <1>2, <1>4, <1>5, <1>6, <1>7, <1>8, NextPageUnseen, ZenonT(60)

(* It copies a page in the swap file. *)
LEMMA ForkSwappedPageUnseen ==
  ASSUME IInv, Copies, NEW p \in Procs, ForkSwappedPage(p)
  PROVE  Copies' /\ Mem' = Mem
<1>1. pc[p] = "copyuvm" /\ va[p] < sz[p] BY Zenon DEF ForkSwappedPage, At
<1>2. PICK c \in Procs, v \in Pages :
        /\ c = np[p] /\ v = va[p] /\ c # p /\ v \in Slots /\ frame[c][v] = NULL
        /\ state[p] = "LIVE" /\ state[c] = "EMBRYO" /\ pc[c] = "user"
        /\ \A q \in Procs : q # p /\ pc[q] \in NpPCs => np[q] # c
        /\ \A u \in Pages : u < v => Seen(c, u) = Seen(p, u)
  BY <1>1, CopierFacts, Zenon
<1>3. /\ UNCHANGED <<content, frame>> /\ UNCHANGED <<state, sz, pc, np>>
      /\ frame[p][v] = NULL
      /\ swapped' = Upd(swapped, c, v, swapped[p][v]) /\ va' = [va EXCEPT ![p] = v + 1]
  BY <1>2, Zenon DEF ForkSwappedPage, Upd
<1>4. /\ va'[p] = v + 1 /\ \A q \in Procs : q # p => va'[q] = va[q]
      /\ swapped'[c][v] = swapped[p][v]
      /\ \A q \in Procs : q # c => swapped'[q] = swapped[q]
      /\ \A u \in Pages : u # v => swapped'[c][u] = swapped[c][u]
  BY <1>2, <1>3, MemFacts, Zenon DEF TypeOK, Upd
<1>5. Spares(c, v) BY <1>3, Zenon DEF Spares
<1>6. Seen(c, v)' = Seen(p, v)
  <2>1. frame'[c][v] = NULL /\ frame[p][v] = NULL BY <1>2, <1>3, Zenon
  <2> QED BY <1>4, <2>1, Zenon DEF Seen
<1>7. \A q \in Procs, t \in Slots : frame'[q][t] = frame[q][t] BY <1>3, Zenon
<1>8. UNCHANGED <<state, sz, pc, np>> /\ np'[p] = c BY <1>2, <1>3, Zenon
<1> QED BY <1>1, <1>2, <1>4, <1>5, <1>6, <1>7, <1>8, NextPageUnseen, ZenonT(60)

(* copyuvm() copies a page into a frame of its own, or gives up. *)
LEMMA ForkCopyPageUnseen ==
  ASSUME IInv, Copies, NEW p \in Procs, ForkCopyPage(p)
  PROVE  Copies' /\ Mem' = Mem
<1> DEFINE K == KallocFrame
<1>1. pc[p] = "copyuvm" /\ va[p] < sz[p] /\ NONE BY Zenon DEF ForkCopyPage, At
<1>2. PICK c \in Procs, v \in Pages :
        /\ c = np[p] /\ v = va[p] /\ c # p /\ v \in Slots /\ frame[c][v] = NULL
        /\ state[p] = "LIVE" /\ state[c] = "EMBRYO" /\ pc[c] = "user"
        /\ \A q \in Procs : q # p /\ pc[q] \in NpPCs => np[q] # c
        /\ \A u \in Pages : u < v => Seen(c, u) = Seen(p, u)
  BY <1>1, CopierFacts, Zenon
<1>3. UNCHANGED <<state, sz, np>> /\ UNCHANGED swapped BY Zenon DEF ForkCopyPage
<1>4. CASE freelist # {}
  <2>1. /\ Kalloc /\ UNCHANGED pc
        /\ content' = [content EXCEPT ![KallocFrame] = content[frame[p][v]]]
        /\ frame' = [frame EXCEPT ![c][v] = K] /\ va' = [va EXCEPT ![p] = v + 1]
    BY <1>2, <1>4, ZenonT(60) DEF ForkCopyPage
  <2>2. K \in Frames /\ K # NULL
    BY <2>1, MemFacts, ConstantsAssumption DEF Kalloc, KallocFrame, KmemType
  <2>3. content'[K] = content[frame[p][v]] BY <2>1, <2>2, MemFacts, Zenon DEF TypeOK
  <2>4. Spares(c, v) BY <2>1, TakeSpares, Zenon
  <2> HIDE DEF K
  <2>5. /\ va'[p] = v + 1 /\ \A q \in Procs : q # p => va'[q] = va[q]
        /\ frame'[c][v] = K
        /\ \A q \in Procs, t \in Slots : q # c => frame'[q][t] = frame[q][t]
        /\ \A t \in Slots : t # v => frame'[c][t] = frame[c][t]
    BY <1>2, <2>1, MemFacts, Zenon DEF TypeOK
  <2>6. frame[p][v] # NULL BY <1>1, <1>2, ProcFacts, Zenon DEF StateInv
  <2>7. Seen(c, v)' = Seen(p, v) BY <2>2, <2>3, <2>5, <2>6, Zenon DEF Seen
  <2>8. UNCHANGED <<state, sz, pc, np>> /\ np'[p] = c BY <1>2, <1>3, <2>1, Zenon
  <2>9. \A q \in Procs : swapped'[q] = swapped[q] BY <1>3, Zenon
  <2> QED BY <1>1, <1>2, <2>4, <2>5, <2>7, <2>8, <2>9, NextPageUnseen, ZenonT(60)
<1>5. CASE freelist = {}
  <2>1. UNCHANGED <<content, frame>> /\ pc' = [pc EXCEPT ![p] = "freevm"]
        /\ va' = [va EXCEPT ![p] = 0]
    BY <1>5, Zenon DEF ForkCopyPage, Kalloc
  <2>2. /\ \A q \in Procs : q # p /\ q # c => Same(q)
        /\ pc'[p] = "freevm" /\ pc'[c] = "user"
    BY <1>2, <1>3, <2>1, MemFacts, Zenon DEF TypeOK, Same
  <2>3. Spares(c, v) BY <2>1, Zenon DEF Spares
  <2>4. /\ state'[p] = state[p] /\ sz'[p] = sz[p] /\ swapped'[p] = swapped[p]
        /\ \A s \in Slots : frame'[p][s] = frame[p][s]
        /\ state[c] # "LIVE" /\ state'[c] # "LIVE"
        /\ pc'[p] # "cow_dec" /\ pc'[p] # "copyuvm"
    BY <1>2, <1>3, <2>1, <2>2, Zenon
  <2> QED BY <1>2, <2>2, <2>3, <2>4, ChildUnseen, Zenon
<1> QED BY <1>4, <1>5, Zenon

(* fork() gives up: the kernel stack of the child goes. *)
LEMMA FreeKstackUnseen ==
  ASSUME IInv, Copies, NEW p \in Procs, FreeKstack(p)
  PROVE  Copies' /\ Mem' = Mem
<1>1. pc[p] = "free_kstack" /\ pc[p] \in NpPCs BY Zenon DEF FreeKstack, At, NpPCs
<1>2. PICK c \in Procs :
        /\ c = np[p] /\ c # p /\ state[p] = "LIVE" /\ pc[c] = "user"
        /\ state[c] = "EMBRYO" /\ frame[c][KSTACK] # NULL
        /\ \A q \in Procs : q # p /\ pc[q] \in NpPCs => np[q] # c
  BY <1>1, NpFacts, Zenon
<1>3. /\ Kfree(frame[c][KSTACK]) /\ UNCHANGED <<sz, swapped, va>>
      /\ frame' = [frame EXCEPT ![c][KSTACK] = NULL] /\ state' = [state EXCEPT ![c] = "UNUSED"]
      /\ pc' = [pc EXCEPT ![p] = "user"] /\ np' = [np EXCEPT ![p] = NULL]
  BY <1>2, Zenon DEF FreeKstack
<1>4. /\ \A q \in Procs : q # p /\ q # c => Same(q)
      /\ state'[p] = state[p] /\ pc'[p] = "user" /\ pc'[c] = "user" /\ state'[c] = "UNUSED"
      /\ \A s \in Slots : frame'[p][s] = frame[p][s]
  BY <1>2, <1>3, MemFacts, Zenon DEF TypeOK, Same
<1>5. Spares(c, KSTACK) BY <1>2, <1>3, SlotFacts, FreeSpares, Zenon
<1>6. /\ sz'[p] = sz[p] /\ swapped'[p] = swapped[p]
      /\ state[c] # "LIVE" /\ state'[c] # "LIVE" /\ pc'[p] # "cow_dec" /\ pc'[p] # "copyuvm"
  BY <1>2, <1>3, <1>4, Zenon
<1> QED BY <1>2, <1>4, <1>5, <1>6, ChildUnseen, Zenon

(* wait() frees the kernel stack of a zombie. *)
LEMMA WaitReapUnseen ==
  ASSUME IInv, Copies, NEW p \in Procs, NEW c \in Procs, WaitReap(p, c)
  PROVE  Copies' /\ Mem' = Mem
<1>1. /\ state[p] = "LIVE" /\ state[c] = "ZOMBIE" /\ c # p
      /\ PtableLockFree /\ Kfree(frame[c][KSTACK])
      /\ frame' = [frame EXCEPT ![c][KSTACK] = NULL]
      /\ np' = [np EXCEPT ![p] = c] /\ pc' = [pc EXCEPT ![p] = "freevm"]
      /\ UNCHANGED <<state, sz, swapped, va>>
  BY Zenon DEF WaitReap, Running
<1>2. \A q \in Procs : pc[q] \in NpPCs => np[q] # c
  BY <1>1, NpFacts DEF PtableLockFree
<1>3. frame[c][KSTACK] # NULL /\ pc[c] = "user"
  BY <1>1, <1>2, ProcFacts, Zenon DEF StateInv, NpPCs
<1>4. /\ \A q \in Procs : q # p /\ q # c => Same(q)
      /\ pc'[p] = "freevm" /\ pc'[c] = "user"
      /\ \A s \in Slots : frame'[p][s] = frame[p][s]
  BY <1>1, <1>3, MemFacts, Zenon DEF TypeOK, Same
<1>5. Spares(c, KSTACK) BY <1>1, <1>3, SlotFacts, FreeSpares, Zenon
<1>6. /\ sz'[p] = sz[p] /\ swapped'[p] = swapped[p] /\ state'[p] = state[p]
      /\ state[c] # "LIVE" /\ state'[c] # "LIVE" /\ pc'[p] # "cow_dec" /\ pc'[p] # "copyuvm"
  BY <1>1, <1>4, Zenon
<1> QED BY <1>1, <1>2, <1>4, <1>5, <1>6, ChildUnseen, Zenon

(* freevm() frees a page of a process that does not run. *)
LEMMA FreevmPageUnseen ==
  ASSUME IInv, Copies, NEW p \in Procs, NEW v \in Pages, FreevmPage(p, v)
  PROVE  Copies' /\ Mem' = Mem
<1>1. pc[p] = "freevm" /\ pc[p] \in NpPCs BY Zenon DEF FreevmPage, At, NpPCs
<1>2. PICK c \in Procs :
        /\ c = np[p] /\ c # p /\ state[p] = "LIVE" /\ pc[c] = "user" /\ state[c] # "LIVE"
        /\ \A q \in Procs : q # p /\ pc[q] \in NpPCs => np[q] # c
  BY <1>1, NpFacts, Zenon
<1>3. /\ frame[c][v] # NULL /\ Kfree(frame[c][v])
      /\ UNCHANGED <<state, sz, swapped, va, pc, np>>
      /\ frame' = [frame EXCEPT ![c][v] = NULL]
  BY <1>2, Zenon DEF FreevmPage
<1>4. v \in Slots BY SlotFacts
<1>5. /\ \A q \in Procs : q # p /\ q # c => Same(q)
      /\ \A s \in Slots : frame'[p][s] = frame[p][s]
  BY <1>2, <1>3, <1>4, MemFacts, Zenon DEF TypeOK, Same
<1>6. Spares(c, v) BY <1>3, <1>4, FreeSpares, Zenon
<1>7. /\ state'[p] = state[p] /\ sz'[p] = sz[p] /\ swapped'[p] = swapped[p] /\ pc'[c] = "user"
      /\ state'[c] # "LIVE" /\ pc'[p] # "cow_dec" /\ pc'[p] # "copyuvm"
  BY <1>1, <1>2, <1>3, Zenon
<1> QED BY <1>2, <1>5, <1>6, <1>7, ChildUnseen, Zenon

(* It frees the page directory; wait() then frees the slot. *)
LEMMA FreevmPgdirUnseen ==
  ASSUME IInv, Copies, NEW p \in Procs, FreevmPgdir(p)
  PROVE  Copies' /\ Mem' = Mem
<1>1. pc[p] = "freevm" /\ pc[p] \in NpPCs BY Zenon DEF FreevmPgdir, At, NpPCs
<1>2. PICK c \in Procs :
        /\ c = np[p] /\ c # p /\ state[p] = "LIVE" /\ pc[c] = "user" /\ state[c] # "LIVE"
        /\ \A q \in Procs : q # p /\ pc[q] \in NpPCs => np[q] # c
  BY <1>1, NpFacts, ZenonT(60)
<1>3. frame[c][PGDIR] # NULL BY <1>1, <1>2, ProcFacts, Zenon DEF NpInv
<1>4. /\ Kfree(frame[c][PGDIR]) /\ UNCHANGED <<sz, swapped, va>>
      /\ frame' = [frame EXCEPT ![c][PGDIR] = NULL]
      /\ \/ /\ state' = [state EXCEPT ![c] = "UNUSED"]
            /\ pc' = [pc EXCEPT ![p] = "user"] /\ np' = [np EXCEPT ![p] = NULL]
         \/ pc' = [pc EXCEPT ![p] = "free_kstack"] /\ UNCHANGED <<state, np>>
  BY <1>2, Zenon DEF FreevmPgdir
<1>5. /\ \A q \in Procs : q # p /\ q # c => Same(q)
      /\ state'[p] = state[p] /\ pc'[p] \in {"user", "free_kstack"} /\ pc'[c] = "user"
      /\ state'[c] # "LIVE"
      /\ \A s \in Slots : frame'[p][s] = frame[p][s]
  BY <1>2, <1>4, MemFacts, ZenonT(60) DEF TypeOK, Same
<1>6. Spares(c, PGDIR) BY <1>3, <1>4, SlotFacts, FreeSpares, Zenon
<1>7. /\ sz'[p] = sz[p] /\ swapped'[p] = swapped[p] /\ pc'[p] # "cow_dec" /\ pc'[p] # "copyuvm"
  BY <1>4, <1>5, Zenon
<1> QED BY <1>2, <1>5, <1>6, <1>7, ChildUnseen, ZenonT(60)

----------------------------------------------------------------------------
(* The memory of q, page by page. *)
LEMMA MemAt ==
  ASSUME NEW q \in Procs, NEW v \in Pages
  PROVE  /\ Mem[q][v] = IF state[q] = "LIVE" /\ v < sz[q] THEN Seen(q, v) ELSE NULL
         /\ Mem'[q][v] = IF state'[q] = "LIVE" /\ v < sz'[q] THEN Seen(q, v)' ELSE NULL
  BY DEF Mem, Seen

(* A process has every page below sz, and at least one. *)
LEMMA MemPresent ==
  ASSUME IInv, Copies, NEW p \in Procs, state[p] = "LIVE"
  PROVE  /\ \A v \in Pages : v < sz[p] => Mem[p][v] # NULL
         /\ \A v \in Pages : ~(v < sz[p]) => Mem[p][v] = NULL
         /\ Mem[p] # Private!Absent
<1>1. ASSUME NEW v \in Pages, v < sz[p] PROVE Mem[p][v] # NULL
  <2>1. Mem[p][v] = Seen(p, v) BY <1>1, MemAt, Zenon
  <2>2. CASE frame[p][v] # NULL
    <3>1. v \in Slots BY SlotFacts
    <3>2. frame[p][v] \in Frames BY <2>2, <3>1, MemFacts DEF KmemType, FrameMaps
    <3>3. content[frame[p][v]] \in Vals \cup {Junk} BY <3>2, MemFacts, Zenon DEF TypeOK
    <3>4. content[frame[p][v]] # NULL BY <3>3, ConstantsAssumption
    <3> QED BY <2>1, <2>2, <3>4, Zenon DEF Seen
  <2>3. CASE frame[p][v] = NULL
    <3>1. swapped[p][v] # NULL BY <1>1, <2>3, ProcFacts, Zenon DEF StateInv
    <3> QED BY <2>1, <2>3, <3>1, Zenon DEF Seen
  <2> QED BY <2>2, <2>3, Zenon
<1>2. \A v \in Pages : ~(v < sz[p]) => Mem[p][v] = NULL BY MemAt, Zenon
<1>3. Mem[p] # Private!Absent
  <2>1. 0 \in Pages BY ConstantsAssumption DEF Pages
  <2>2. 0 < sz[p] BY ProcFacts DEF Copies, Copied, Bounds
  <2>3. Private!Absent[0] = NULL BY <2>1 DEF Private!Absent, Private!Pages, Pages
  <2> QED BY <1>1, <2>1, <2>2, <2>3, Zenon
<1> QED BY <1>1, <1>2, <1>3, Zenon

(* A process that does not run has no memory. *)
LEMMA MemAbsent ==
  ASSUME NEW q \in Procs
  PROVE  /\ state[q] # "LIVE" => Mem[q] = Private!Absent
         /\ state'[q] # "LIVE" => Mem'[q] = Private!Absent
  BY DEF Mem, Private!Absent, Private!Pages, Pages

(* One page of one process changes. *)
LEMMA MemPage ==
  ASSUME NEW p \in Procs, NEW v \in Pages, NEW x,
         \A q \in Procs : q # p => Mem'[q] = Mem[q],
         \A u \in Pages : u # v => Mem'[p][u] = Mem[p][u], Mem'[p][v] = x
  PROVE  Mem' = [Mem EXCEPT ![p][v] = x]
<1>1. Mem[p] = [u \in Pages |-> Mem[p][u]] /\ Mem'[p] = [u \in Pages |-> Mem'[p][u]]
  BY DEF Mem
<1>2. Mem = [q \in Procs |-> Mem[q]] /\ Mem' = [q \in Procs |-> Mem'[q]]
  BY DEF Mem
<1> DEFINE m == Mem
           n == Mem'
<1> HIDE DEF m, n
<1>3. n[p] = [m[p] EXCEPT ![v] = x] BY <1>1 DEF m, n
<1>4. n = [m EXCEPT ![p] = n[p]] BY <1>2 DEF m, n
<1> QED BY <1>3, <1>4 DEF m, n

(* The memory of one process changes. *)
LEMMA MemProc ==
  ASSUME NEW p \in Procs, \A q \in Procs : q # p => Mem'[q] = Mem[q]
  PROVE  Mem' = [Mem EXCEPT ![p] = Mem'[p]]
<1>1. Mem = [q \in Procs |-> Mem[q]] /\ Mem' = [q \in Procs |-> Mem'[q]]
  BY DEF Mem
<1> DEFINE m == Mem
           n == Mem'
<1> HIDE DEF m, n
<1>2. n = [m EXCEPT ![p] = n[p]] BY <1>1 DEF m, n
<1> QED BY <1>2 DEF m, n

(* A step of p on itself that changes its memory. *)
LEMMA OwnSeen ==
  ASSUME IInv, Copies, NEW p \in Procs, NEW t, state[p] = "LIVE", Spares(p, t),
         \A q \in Procs : q # p => Same(q),
         pc'[p] = "user", state'[p] = "LIVE" => sz'[p] > 0
  PROVE  Copies' /\ \A q \in Procs : q # p => Mem'[q] = Mem[q]
<1>1. \A q \in Procs : q # p => Copied(q)' /\ Mem'[q] = Mem[q]
  BY NotNp, OthersKept, Zenon
<1>2. Copied(p)' BY Zenon DEF Copied
<1> QED BY <1>1, <1>2, Zenon DEF Copies

(* A store changes one page of one process. *)
LEMMA StoreSeen ==
  ASSUME IInv, Copies, NEW p \in Procs, NEW v \in Pages, NEW x \in Vals, Store(p, v, x)
  PROVE  Copies' /\ Private!Next
<1>1. /\ state[p] = "LIVE" /\ pc[p] = "user" /\ v < sz[p] /\ writable[p][v]
      /\ UNCHANGED <<state, sz, frame, swapped, pc, np, va>>
      /\ content' = [content EXCEPT ![frame[p][v]] = x]
  BY Zenon DEF Store, Running
<1>2. v \in Slots BY SlotFacts
<1>3. Sole(frame, p, v) BY <1>1, MemFacts, Zenon DEF Unshared
<1>4. Spares(p, v) BY <1>1, <1>2, <1>3, SoleSpares, Zenon
<1>5. (\A q \in Procs : q # p => Same(q)) /\ pc'[p] = "user" /\ sz'[p] > 0
  BY <1>1, Zenon DEF Same, Copies, Copied
<1>6. Copies' /\ \A q \in Procs : q # p => Mem'[q] = Mem[q]
  BY <1>1, <1>4, <1>5, OwnSeen, ZenonT(60)
<1>7. \A u \in Pages : u # v => Mem'[p][u] = Mem[p][u]
  <2>1. \A u \in Pages : frame'[p][u] = frame[p][u] /\ swapped'[p][u] = swapped[p][u]
    BY <1>1, ZenonT(60)
  <2>2. \A u \in Pages : u # v => Seen(p, u)' = Seen(p, u) BY <1>4, <2>1, PagesSame
  <2>3. state'[p] = state[p] /\ sz'[p] = sz[p] BY <1>1, Zenon
  <2> QED BY <2>2, <2>3, MemAt
<1>8. Mem'[p][v] = x
  <2>1. frame[p][v] \in Frames BY <1>2, <1>3, MemFacts DEF Sole, KmemType, FrameMaps
  <2>2. content'[frame[p][v]] = x BY <1>1, <2>1, MemFacts, Zenon DEF TypeOK
  <2>3. Seen(p, v)' = x BY <1>1, <1>3, <2>2, Zenon DEF Seen, Sole
  <2> QED BY <1>1, <2>3, MemAt, Zenon
<1>9. Mem' = [Mem EXCEPT ![p][v] = x] BY <1>6, <1>7, <1>8, MemPage
<1>10. Mem[p][v] # NULL BY <1>1, MemPresent, Zenon
<1>11. Private!Store(p, v, x) BY <1>9, <1>10, Zenon DEF Private!Store
<1> QED BY <1>6, <1>11, Zenon DEF Private!Next, Private!Pages, Pages

(* sbrk() adds a page of zeroes. *)
LEMMA GrowSeen ==
  ASSUME IInv, Copies, NEW p \in Procs, Grow(p)
  PROVE  Copies' /\ Private!Next
<1> DEFINE K == KallocFrame
<1>1. PICK v : v = sz[p] BY Zenon
<1>2. /\ state[p] = "LIVE" /\ pc[p] = "user" /\ v < NPages /\ Kalloc
      /\ content' = [content EXCEPT ![KallocFrame] = Zero]
      /\ frame' = [frame EXCEPT ![p][v] = K] /\ sz' = [sz EXCEPT ![p] = v + 1]
      /\ UNCHANGED <<state, swapped, pc, np, va>>
  BY <1>1, Zenon DEF Grow, Running
<1>3. v \in Pages /\ v \in Int BY <1>1, <1>2, ProcFacts DEF Bounds
<1>4. v \in Slots BY <1>3, SlotFacts
<1>5. Spares(p, v) BY <1>2, TakeSpares, Zenon
<1>6. K \in Frames /\ K # NULL
  BY <1>2, MemFacts, ConstantsAssumption DEF Kalloc, KallocFrame, KmemType
<1>7. content'[K] = Zero BY <1>2, <1>6, MemFacts, ZenonT(60) DEF TypeOK
<1> HIDE DEF K
<1>8. /\ \A q \in Procs : q # p => Same(q)
      /\ pc'[p] = "user" /\ sz'[p] = v + 1 /\ frame'[p][v] = K
      /\ \A u \in Pages : u # v => frame'[p][u] = frame[p][u] /\ swapped'[p][u] = swapped[p][u]
  BY <1>2, <1>4, SlotFacts, MemFacts DEF TypeOK, Same
<1>9. v > 0 BY <1>1, <1>2 DEF Copies, Copied
<1>20. sz'[p] > 0 BY <1>3, <1>8, <1>9
<1>21. Copies' /\ \A q \in Procs : q # p => Mem'[q] = Mem[q]
  BY <1>2, <1>5, <1>8, <1>20, OwnSeen, ZenonT(60)
<1>22. \A u \in Pages : u # v => Mem'[p][u] = Mem[p][u]
  <2>1. \A u \in Pages : u # v => Seen(p, u)' = Seen(p, u) BY <1>5, <1>8, PagesSame, Zenon
  <2>2. \A u \in Pages : u # v => (u < sz'[p] <=> u < v) BY <1>3, <1>8, SlotFacts
  <2>3. state'[p] = state[p] BY <1>2, Zenon
  <2> QED BY <1>1, <2>1, <2>2, <2>3, MemAt
<1>23. Mem'[p][v] = Zero
  <2>1. Seen(p, v)' = Zero BY <1>6, <1>7, <1>8, Zenon DEF Seen
  <2>2. v < sz'[p] BY <1>3, <1>8
  <2>3. state'[p] = "LIVE" BY <1>2, Zenon
  <2> QED BY <1>3, <2>1, <2>2, <2>3, MemAt
<1>24. (\A u \in Pages : u < v => Mem[p][u] # NULL) /\ (\A u \in Pages : u >= v => Mem[p][u] = NULL)
  <2>1. \A u \in Pages : u >= v => ~(u < v) BY <1>3, SlotFacts
  <2> QED BY <1>1, <1>2, <2>1, MemPresent, Zenon
<1>25. Mem[p] # Private!Absent BY <1>2, MemPresent, Zenon
<1>26. Mem' = [Mem EXCEPT ![p][v] = Zero] BY <1>3, <1>21, <1>22, <1>23, MemPage
<1>27. Private!Break(p, v) BY <1>24, Zenon DEF Private!Break, Private!Pages, Pages
<1>28. Private!Grow(p, v) BY <1>25, <1>26, <1>27, Zenon DEF Private!Grow
<1>29. v \in Private!Pages BY <1>3, Zenon DEF Private!Pages, Pages
<1> QED BY <1>21, <1>28, <1>29, Zenon DEF Private!Next

(* sbrk() takes the last page away. *)
LEMMA ShrinkSeen ==
  ASSUME IInv, Copies, NEW p \in Procs, Shrink(p)
  PROVE  Copies' /\ Private!Next
<1>1. PICK v : v = sz[p] - 1 BY Zenon
<1>2. /\ state[p] = "LIVE" /\ pc[p] = "user" /\ sz[p] > 1 /\ frame[p][v] # NULL
      /\ Kfree(frame[p][v])
      /\ frame' = [frame EXCEPT ![p][v] = NULL] /\ sz' = [sz EXCEPT ![p] = v]
      /\ UNCHANGED <<state, swapped, pc, np, va>>
  BY <1>1, Zenon DEF Shrink, Running
<1>3. v \in Pages /\ v \in Int /\ v > 0 /\ sz[p] = v + 1
  BY <1>1, <1>2, ProcFacts, ConstantsAssumption DEF Bounds, Pages
<1>4. v \in Slots BY <1>3, SlotFacts
<1>5. Spares(p, v) BY <1>2, <1>4, FreeSpares, Zenon
<1>6. /\ \A q \in Procs : q # p => Same(q)
      /\ pc'[p] = "user" /\ sz'[p] = v
      /\ \A u \in Pages : u # v => frame'[p][u] = frame[p][u] /\ swapped'[p][u] = swapped[p][u]
  BY <1>2, <1>4, SlotFacts, MemFacts DEF TypeOK, Same
<1>7. Copies' /\ \A q \in Procs : q # p => Mem'[q] = Mem[q]
  BY <1>2, <1>3, <1>5, <1>6, OwnSeen, ZenonT(60)
<1>8. \A u \in Pages : u # v => Mem'[p][u] = Mem[p][u]
  <2>1. \A u \in Pages : u # v => Seen(p, u)' = Seen(p, u) BY <1>5, <1>6, PagesSame, Zenon
  <2>2. \A u \in Pages : u # v => (u < sz'[p] <=> u < sz[p]) BY <1>3, <1>6, SlotFacts
  <2>3. state'[p] = state[p] BY <1>2, Zenon
  <2> QED BY <2>1, <2>2, <2>3, MemAt
<1>9. Mem'[p][v] = NULL
  <2>1. ~(v < sz'[p]) BY <1>3, <1>6
  <2> QED BY <1>3, <2>1, MemAt
<1>20. /\ \A u \in Pages : u < v + 1 => Mem[p][u] # NULL
      /\ \A u \in Pages : u >= v + 1 => Mem[p][u] = NULL
  <2>1. \A u \in Pages : u >= v + 1 => ~(u < v + 1) BY <1>3, SlotFacts
  <2> QED BY <1>2, <1>3, <2>1, MemPresent
<1>21. Mem[p][v] # NULL BY <1>3, <1>20
<1>22. Mem' = [Mem EXCEPT ![p][v] = NULL] BY <1>3, <1>7, <1>8, <1>9, MemPage
<1>23. Private!Break(p, v + 1) BY <1>20, Zenon DEF Private!Break, Private!Pages, Pages
<1>24. Private!Shrink(p, v) BY <1>3, <1>21, <1>22, <1>23, Zenon DEF Private!Shrink
<1>25. v \in Private!Pages BY <1>3, Zenon DEF Private!Pages, Pages
<1> QED BY <1>7, <1>24, <1>25, Zenon DEF Private!Next

(* exit() takes the memory of a process away. *)
LEMMA ExitSeen ==
  ASSUME IInv, Copies, NEW p \in Procs, Exit(p)
  PROVE  Copies' /\ Private!Next
<1>1. /\ state[p] = "LIVE" /\ pc[p] = "user"
      /\ state' = [state EXCEPT ![p] = "ZOMBIE"]
      /\ swapped' = [swapped EXCEPT ![p] = [v \in Pages |-> NULL]]
      /\ UNCHANGED <<content, sz, frame, pc, np, va>>
  BY Zenon DEF Exit, Running
<1>2. (\A q \in Procs : q # p => Same(q)) /\ pc'[p] = "user" /\ state'[p] = "ZOMBIE"
  BY <1>1, MemFacts, Zenon DEF TypeOK, Same
<1>3. Spares(p, MEM) BY <1>1, Zenon DEF Spares
<1>4. Copies' /\ \A q \in Procs : q # p => Mem'[q] = Mem[q]
  BY <1>1, <1>2, <1>3, OwnSeen, Zenon
<1>5. Mem'[p] = Private!Absent BY <1>2, MemAbsent, Zenon
<1>6. Mem' = [Mem EXCEPT ![p] = Mem'[p]] BY <1>4, MemProc, Zenon
<1>7. Private!Exit(p) BY <1>5, <1>6, Zenon DEF Private!Exit
<1> QED BY <1>4, <1>7, Zenon DEF Private!Next

(* The end of fork(): the child has a copy of its parent's memory. *)
LEMMA ForkDoneSeen ==
  ASSUME IInv, Copies, NEW p \in Procs, ForkDone(p)
  PROVE  Copies' /\ Private!Next
<1>1. pc[p] = "copyuvm" /\ pc[p] \in NpPCs /\ va[p] = sz[p] BY Zenon DEF ForkDone, At, NpPCs
<1>2. PICK c \in Procs :
        /\ c = np[p] /\ c # p /\ state[p] = "LIVE" /\ pc[c] = "user" /\ state[c] = "EMBRYO"
        /\ \A q \in Procs : q # p /\ pc[q] \in NpPCs => np[q] # c
  BY <1>1, NpFacts, Zenon
<1>3. /\ sz' = [sz EXCEPT ![c] = sz[p]] /\ state' = [state EXCEPT ![c] = "LIVE"]
      /\ pc' = [pc EXCEPT ![p] = "user"] /\ np' = [np EXCEPT ![p] = NULL]
      /\ va' = [va EXCEPT ![p] = 0] /\ UNCHANGED <<content, frame, swapped>>
  BY <1>2, Zenon DEF ForkDone
<1>4. UNCHANGED <<content, frame, swapped>> BY <1>3, Zenon
<1>5. /\ \A q \in Procs : q # p /\ q # c => Same(q)
      /\ state'[p] = "LIVE" /\ state'[c] = "LIVE" /\ pc'[p] = "user" /\ pc'[c] = "user"
      /\ sz'[c] = sz[p] /\ sz'[p] = sz[p]
  BY <1>2, <1>3, MemFacts, Zenon DEF TypeOK, Same
<1>6. Spares(c, MEM) BY <1>4, Zenon DEF Spares
<1>7. \A q \in Procs : q # p /\ q # c => Copied(q)' /\ Mem'[q] = Mem[q]
  BY <1>2, <1>5, <1>6, OthersKept, Zenon
<1>8. sz[p] > 0 BY <1>2, Zenon DEF Copies, Copied
<1>9. Copied(p)' /\ Copied(c)' BY <1>5, <1>8, Zenon DEF Copied
<1>10. \A q \in Procs, v \in Pages : Seen(q, v)' = Seen(q, v) BY <1>4, Zenon DEF Seen
<1>11. Mem'[p] = Mem[p] BY <1>2, <1>5, <1>10, MemSame, Zenon
<1>12. Mem'[c] = Mem[p]
  <2>1. \A v \in Pages : v < sz[p] => Seen(c, v) = Seen(p, v)
    BY <1>1, <1>2, ZenonT(60) DEF Copies, Copied
  <2>2. \A v \in Pages : Mem'[c][v] = Mem[p][v]
    BY <1>2, <1>5, <1>10, <2>1, MemAt
  <2>3. Mem[p] = [v \in Pages |-> Mem[p][v]] /\ Mem'[c] = [v \in Pages |-> Mem'[c][v]]
    BY DEF Mem
  <2> QED BY <2>2, <2>3, Zenon
<1>13. \A q \in Procs : q # c => Mem'[q] = Mem[q] BY <1>7, <1>11, Zenon
<1>14. Mem' = [Mem EXCEPT ![c] = Mem'[c]] BY <1>13, MemProc, Zenon
<1>15. Mem[p] # Private!Absent /\ Mem[c] = Private!Absent
  BY <1>2, MemPresent, MemAbsent, Zenon
<1>16. Private!Fork(p, c) BY <1>12, <1>14, <1>15, Zenon DEF Private!Fork
<1>17. Copies' BY <1>7, <1>9, Zenon DEF Copies
<1> QED BY <1>16, <1>17, Zenon DEF Private!Next

----------------------------------------------------------------------------
(* Every step is one of the private memories, or is not seen. *)
LEMMA NextSeen == IInv /\ Copies /\ [Next]_vars => Copies' /\ [Private!Next]_Mem
<1> SUFFICES ASSUME IInv, Copies, [Next]_vars PROVE Copies' /\ [Private!Next]_Mem
  BY Zenon
<1>1. CASE UNCHANGED vars
  <2>1. Copies' BY <1>1, Zenon DEF Copies, Copied, Seen, vars
  <2>2. Mem' = Mem BY <1>1, Zenon DEF Mem, vars
  <2> QED BY <2>1, <2>2, Zenon
<1>2. CASE Next
  <2>1. PICK p \in Procs : ProcNext(p) BY <1>2, Zenon DEF Next
  <2>2. CASE \/ \E v \in Pages, x \in Vals : Store(p, v, x)
             \/ Grow(p) \/ Shrink(p) \/ ForkDone(p) \/ Exit(p)
    BY <2>2, StoreSeen, GrowSeen, ShrinkSeen, ForkDoneSeen, ExitSeen, Zenon
  <2>3. CASE \E v \in Pages : SwapOut(p, v) \/ SwapIn(p, v) \/ CowFault(p, v) \/ FreevmPage(p, v)
    BY <2>3, SwapOutUnseen, SwapInUnseen, CowFaultUnseen, FreevmPageUnseen, Zenon
  <2>4. CASE CowKalloc(p) \/ CowCopy(p) \/ CowDec(p)
    BY <2>4, CowKallocUnseen, CowCopyUnseen, CowDecUnseen, Zenon
  <2>5. CASE \E c \in Procs : ForkAllocproc(p, c) \/ WaitReap(p, c)
    BY <2>5, ForkAllocprocUnseen, WaitReapUnseen, Zenon
  <2>6. CASE ForkSetupkvm(p) \/ ForkSharePage(p) \/ ForkSwappedPage(p) \/ ForkCopyPage(p)
    BY <2>6, ForkSetupkvmUnseen, ForkSharePageUnseen, ForkSwappedPageUnseen,
       ForkCopyPageUnseen, Zenon
  <2>7. CASE FreeKstack(p) \/ FreevmPgdir(p)
    BY <2>7, FreeKstackUnseen, FreevmPgdirUnseen, Zenon
  <2> QED BY <2>1, <2>2, <2>3, <2>4, <2>5, <2>6, <2>7, Zenon DEF ProcNext
<1> QED BY <1>1, <1>2, Zenon

(* The first process has one page, of zeroes. *)
LEMMA InitSeen == Init => Copies /\ Private!Init
<1> SUFFICES ASSUME Init PROVE Copies /\ Private!Init
  BY Zenon
<1> DEFINE text == BootFrames[3]
<1>1. text \in Frames
  <2>1. \E t \in Frames \X Frames \X Frames : t[1] # t[2] /\ t[1] # t[3] /\ t[2] # t[3]
    <3>1. PICK a \in Frames, b \in Frames, c \in Frames : a # b /\ a # c /\ b # c
      BY ConstantsAssumption, Zenon
    <3>2. <<a, b, c>> \in Frames \X Frames \X Frames OBVIOUS
    <3> QED BY <3>1, <3>2
  <2>2. BootFrames \in Frames \X Frames \X Frames BY <2>1, Zenon DEF BootFrames
  <2> QED BY <2>2
<1>2. text # NULL BY <1>1, ConstantsAssumption
<1>3. content[text] = Zero BY <1>1 DEF Init
<1> HIDE DEF text
<1>4. /\ state = [p \in Procs |-> IF p = initproc THEN "LIVE" ELSE "UNUSED"]
      /\ sz = [p \in Procs |-> IF p = initproc THEN 1 ELSE 0]
      /\ pc = [p \in Procs |-> "user"]
      /\ frame[initproc][0] = text
  BY ConstantsAssumption DEF Init, text, Slots, Pages, KSTACK, PGDIR
<1>5. Copies BY <1>4 DEF Copies, Copied
<1>6. ASSUME NEW q \in Procs, NEW v \in Pages
      PROVE  Mem[q][v] = IF q = initproc /\ v = 0 THEN Zero ELSE NULL
  <2>1. v \in Int /\ v >= 0 BY SlotFacts
  <2>2. state[q] = "LIVE" /\ v < sz[q] <=> q = initproc /\ v = 0 BY <1>4, <2>1
  <2>3. Seen(initproc, 0) = Zero BY <1>2, <1>3, <1>4 DEF Seen
  <2> QED BY <2>2, <2>3, MemAt, Zenon
<1>7. Mem = [q \in Procs |-> [v \in Pages |-> Mem[q][v]]] BY DEF Mem
<1>8. Mem = [q \in Procs |-> [v \in Pages |-> IF q = initproc /\ v = 0 THEN Zero ELSE NULL]]
  BY <1>6, <1>7
<1> QED BY <1>5, <1>8, ConstantsAssumption DEF Private!Init, Private!Pages, Pages
============================================================================
