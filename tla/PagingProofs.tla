---------------------------- MODULE PagingProofs ----------------------------
(***************************************************************************)
(* For any number of slots and pages, and every policy but AQ: a program   *)
(* that touches and grows its own memory finds what it stored there, in    *)
(* tables that agree with its page table, and the kernel always finds a    *)
(* page to swap out.                                                       *)
(***************************************************************************)
EXTENDS PagingSteps, FiniteSetTheorems

USE SMTT(30), ZenonT(60), SMTT(120)

(* A nonempty set of numbers has a least member. *)
LEMMA Least ==
  ASSUME NEW S \in SUBSET Nat, S # {}
  PROVE  \E x \in S : \A y \in S : x <= y
<1> DEFINE less == {t \in Nat \X Nat : t[1] < t[2]}
<1>1. IsWellFoundedOn(less, Nat) BY NatLessThanWellFounded, Zenon DEF OpToRel
<1>2. PICK x \in S : \A y \in S : ~(<<y, x>> \in less)
  <2> HIDE DEF less
  <2> QED BY <1>1, WFMin, Zenon
<1>3. \A y \in S : x <= y
  <2> SUFFICES ASSUME NEW y \in S PROVE x <= y BY Zenon
  <2>1. ~(<<y, x>> \in less) BY <1>2, Zenon
  <2> QED BY <2>1
<1> QED BY <1>3, Zenon

(* Lowest() returns the least member of a set of slots. *)
LEMMA LowestIn ==
  ASSUME NEW S \in SUBSET Slots, S # {}
  PROVE  Lowest(S) \in S /\ \A j \in S : Lowest(S) <= j
<1>1. S \subseteq Nat BY Sizes, Zenon
<1>2. \E x \in S : \A y \in S : x <= y BY <1>1, Least, Zenon
<1> QED BY <1>2, Zenon DEF Lowest

(* Some member of a set of slots has the least key. *)
LEMMA LeastKey ==
  ASSUME NEW S, S # {}, NEW K, \A i \in S : K[i] \in Nat
  PROVE  \E i \in S : \A j \in S : K[i] <= K[j]
<1> DEFINE T == {K[i] : i \in S}
<1>1. T \in SUBSET Nat /\ T # {} BY Zenon
<1>2. \E x \in T : \A y \in T : x <= y
  <2> HIDE DEF T
  <2> QED BY <1>1, Least, Zenon
<1> QED BY <1>2, Zenon

(* A policy's scan of slots S for the least key K finds one. *)
LEMMA FirstLeastIn ==
  ASSUME NEW S \in SUBSET Slots, S # {}, NEW K, \A i \in S : K[i] \in Nat
  PROVE  Lowest({i \in S : \A j \in S : K[i] <= K[j]}) \in S
<1> DEFINE T == {i \in S : \A j \in S : K[i] <= K[j]}
<1>1. T # {} BY LeastKey, Zenon
<1>2. T \in SUBSET Slots BY Zenon
<1>3. Lowest(T) \in T
  <2> HIDE DEF T
  <2> QED BY <1>1, <1>2, LowestIn, Zenon
<1> QED BY <1>3, Zenon

(* While a victim is looked for memory is full; SCFIFO and LAPA find the   *)
(* least of all entries, NFUA one of those whose age is not full.          *)
LEMMA Candidates ==
  ASSUME Modest, IInv, pc \in {"swap", "handle_pf"}
  PROVE  /\ SCFIFO_oldest \in Slots /\ LAPA_next \in Slots
         /\ POLICY = "NFUA" => NFUA_next \in Slots
<1>1. Entered - Len(file) = M BY Full, Zenon
<1>2. \A i \in Slots : mp[i].used BY Full, Zenon
<1>3. Used = Slots /\ Slots \in SUBSET Slots /\ Slots # {}
  <2>1. 0 \in Slots BY Sizes
  <2> QED BY <2>1, <1>2, Zenon DEF Used
<1>4. mp \in [Slots -> MemEntry] BY Zenon DEF IInv, TypeOK
<1>5. SCFIFO_oldest \in Slots
  <2> DEFINE K == [i \in Slots |-> mp[i].time]
  <2>1. \A i \in Slots : K[i] \in Nat BY <1>4, Zenon DEF MemEntry
  <2>2. SCFIFO_oldest = Lowest({i \in Slots : \A j \in Slots : K[i] <= K[j]})
    BY <1>3, Zenon DEF SCFIFO_oldest, FirstLeast
  <2> HIDE DEF K
  <2> QED BY <1>3, <2>1, <2>2, FirstLeastIn, Zenon
<1>6. LAPA_next \in Slots
  <2> DEFINE K == [i \in Slots |-> Ones(mp[i].age) * (AllOnes + 1) + mp[i].age]
  <2>1. ASSUME NEW i \in Slots PROVE K[i] \in Nat
    <3>1. Ones(mp[i].age) \in Nat
      <4>1. IsFiniteSet(0 .. AGEBITS - 1)
        <5>1. AGEBITS \in Nat BY ConstantsAssumption, Zenon
        <5>2. 0 \in Int /\ AGEBITS - 1 \in Int BY <5>1
        <5> QED BY <5>2, FS_Interval, Zenon
      <4>2. IsFiniteSet({j \in 0 .. AGEBITS - 1 : (mp[i].age \div 2 ^ j) % 2 = 1}) BY <4>1, FS_Subset, Zenon
      <4> QED BY <4>2, FS_CardinalityType, Zenon DEF Ones
    <3>2. mp[i].age \in Nat BY <1>4, Sizes DEF MemEntry
    <3>3. AllOnes + 1 \in Nat BY Sizes
    <3>4. \A a, b \in Nat : a * b \in Nat OBVIOUS
    <3>5. Ones(mp[i].age) * (AllOnes + 1) \in Nat BY <3>1, <3>3, <3>4, Zenon
    <3> QED BY <3>2, <3>5
  <2>2. LAPA_next = Lowest({i \in Slots : \A j \in Slots : K[i] <= K[j]})
    BY <1>3, Zenon DEF LAPA_next, FirstLeast
  <2> HIDE DEF K
  <2> QED BY <1>3, <2>1, <2>2, FirstLeastIn, Zenon
<1>7. ASSUME POLICY = "NFUA" PROVE NFUA_next \in Slots
  <2> DEFINE K == [i \in Slots |-> mp[i].age]
             S == {i \in Used : mp[i].age < AllOnes}
  <2>1. \A i \in Slots : K[i] \in Nat BY <1>4, Sizes DEF MemEntry
  <2>2. Entered > 0 BY SMTT(30), <1>1, Counts, Sizes DEF IInv
  <2>3. PICK i \in Slots : mp[i].age = 0 \/ mp[i].age = NFUA_MSB BY <1>7, <2>2, Zenon DEF IInv, Ages
  <2>4. i \in S BY SMTT(30), <2>3, <1>3, Sizes DEF Modest
  <2>5. S \in SUBSET Slots /\ S # {} BY <1>3, <2>4, Zenon
  <2>6. NFUA_next = Lowest({x \in S : \A j \in S : K[x] <= K[j]})
    BY <1>3, Zenon DEF NFUA_next, FirstLeast
  <2> HIDE DEF K, S
  <2> QED BY <2>1, <2>5, <2>6, FirstLeastIn, Zenon
<1> QED BY <1>5, <1>6, <1>7, Zenon

(* Every policy but SCFIFO has a victim, and SCFIFO has one or gives a     *)
(* second chance.                                                          *)
LEMMA HasVictim ==
  ASSUME Modest, IInv, pc \in {"swap", "handle_pf"}
  PROVE  Choosing
<1>1. POLICY \in {"SCFIFO", "NFUA", "LAPA"} BY Plain, Zenon DEF IInv
<1>2. POLICY = "NFUA" => Victim \in Slots BY Candidates, Zenon DEF Victim
<1>3. POLICY = "LAPA" => Victim \in Slots BY Candidates, Zenon DEF Victim
<1>4. POLICY = "SCFIFO" => Victim \in Slots \/ (SecondChance /\ Victim = -1)
  BY Candidates, Zenon DEF Victim
<1> QED BY <1>1, <1>2, <1>3, <1>4, Candidates, Zenon DEF Choosing

----------------------------------------------------------------------------
(* Every step keeps the invariant; a program that asks for nothing more    *)
(* takes none of the others.                                               *)
LEMMA NextInv == ASSUME Modest, IInv, [Next]_vars PROVE IInv'
<1>1. CASE Next
  <2>0. may = {} /\ UNCHANGED <<POLICY, may>> BY <1>1, Plain, Zenon DEF Next, IInv
  <2>1. ASSUME NEW v \in Pages, NEW write \in BOOLEAN,
               Touch(v, write) \/ PageFault(v, write) \/ CowFault(v, write)
               \/ SegmentationFault(v, write)
        PROVE  IInv'
    <3>1. ~CowFault(v, write) /\ ~SegmentationFault(v, write)
      BY OnlyPagedOut, Zenon DEF CowFault, SegmentationFault
    <3> QED BY <2>0, <2>1, <3>1, TouchInv, PageFaultInv, Zenon
  <2>2. ASSUME NEW n \in 1 .. NPages, Sbrk(n) \/ Shrink(n) PROVE IInv'
    <3>1. ~Shrink(n) BY <2>0, Zenon DEF Shrink
    <3> QED BY <2>0, <2>2, <3>1, SbrkInv, Zenon
  <2>3. ~AllocFail /\ ~ForkParent /\ ~ForkChild /\ ~ForkPanic
    BY <2>0, Zenon DEF AllocFail, ForkParent, ForkChild, ForkPanic
  <2>4. HandlePf \/ GiveSecondChance \/ Swap => Choosing
    BY HasVictim, Zenon DEF HandlePf, GiveSecondChance, Swap
  <2>5. CASE HandlePf BY <2>0, <2>4, <2>5, HandlePfInv, Zenon
  <2>6. CASE GiveSecondChance BY <2>0, <2>4, <2>6, GiveSecondChanceInv, Zenon
  <2>7. CASE AllocPage BY <2>0, <2>7, AllocPageInv, Zenon
  <2>8. CASE Swap BY <2>0, <2>4, <2>8, SwapInv, Zenon
  <2>9. CASE AllocDone BY <2>0, <2>9, AllocDoneInv
  <2>10. CASE ExecStart BY SMTT(30), <2>0, <2>10, ExecStartInv
  <2>11. CASE ExecLoad BY <2>0, <2>11, ExecLoadInv
  <2>12. CASE ExecEnd BY <2>0, <2>12, ExecEndInv
  <2> QED BY <1>1, <2>1, <2>2, <2>3, <2>5, <2>6, <2>7, <2>8, <2>9, <2>10, <2>11, <2>12, ZenonT(60) DEF Next
<1>2. CASE UNCHANGED vars
  <2>1. UNCHANGED <<POLICY, may, cur, sz, pte, data, mp, fp, timestamp, file, expected, guard,
                    pc, loc, spins, execs, halt>>
    BY <1>2, Zenon DEF vars
  <2>2. TypeOK' BY <2>1, Zenon DEF IInv, TypeOK
  <2>3. Entered' = Entered BY <2>1, Zenon DEF Entered
  <2>4. Tables(mp', fp', pte'[1], Entered', Len(file')) BY <2>1, <2>3, Zenon DEF IInv
  <2>5. Above' /\ Ages' /\ Chances' BY <2>1, <2>3, Zenon DEF IInv, Above, Ages, Chances
  <2>6. Running => Running' BY <2>1, <2>3, Zenon DEF Running
  <2>7. Loading => Loading' BY <2>1, <2>3, Zenon DEF Loading
  <2> QED BY <2>1, <2>2, <2>4, <2>5, <2>6, <2>7, ZenonT(60) DEF IInv
<1> QED BY <1>1, <1>2, Zenon

(* The invariant holds in every reachable state. *)
LEMMA Invariance == ASSUME Modest PROVE Spec => []IInv
<1>1. Init => IInv BY InitInv, Zenon
<1>2. IInv /\ [Next]_vars => IInv' BY NextInv, Zenon
<1> QED BY <1>1, <1>2, PTL DEF Spec

----------------------------------------------------------------------------
(* memory_pages has MAX_PSYC_PAGES slots. *)
LEMMA SlotCount == IsFiniteSet(Slots) /\ Cardinality(Slots) = M
<1>1. 0 \in Int /\ M - 1 \in Int /\ ~(0 > M - 1) /\ (M - 1) - 0 + 1 = M BY Sizes
<1>2. IsFiniteSet(0 .. M - 1) /\ Cardinality(0 .. M - 1) = M BY <1>1, FS_Interval, Zenon
<1> QED BY <1>2, Sizes, Zenon

(* A resident page has its slot of memory_pages. *)
LEMMA Resident ==
  ASSUME IInv, pc = "user", execs > 0
  PROVE  \A v \in Pages : "P" \in pte[1][v] =>
           v < sz /\ \E i \in Slots : mp[i].used /\ mp[i].va = v
<1> SUFFICES ASSUME NEW v \in Pages, "P" \in pte[1][v]
             PROVE  v < sz /\ \E i \in Slots : mp[i].used /\ mp[i].va = v
  BY Zenon
<1>1. Entered = sz BY AtUser, Zenon
<1>2. ~(v >= sz) BY <1>1, Zenon DEF IInv, Above
<1>3. v < sz BY <1>2, Sizes DEF IInv, TypeOK
<1> QED BY <1>1, <1>3, Zenon DEF IInv, Tables, Covered, InFile

(* NoPanic: a program that only touches and grows its own memory never     *)
(* meets a panic() of the paging code, a fault inside swap() or            *)
(* handle_pf(), or a segmentation fault.                                   *)
THEOREM Unpanicked == ASSUME Modest PROVE Spec => []NoPanic
<1>1. IInv => NoPanic BY Zenon DEF IInv, NoPanic
<1> QED BY <1>1, Invariance, PTL

(* ContentsKept: the program finds in every page what it last stored       *)
(* there, however often allocuvm() and handle_pf() have moved the page.    *)
THEOREM Kept == ASSUME Modest PROVE Spec => []ContentsKept
<1>1. IInv => ContentsKept
  <2> SUFFICES ASSUME IInv, AtRest, NEW v \in 0 .. sz - 1
               PROVE  IF "P" \in pte[cur][v] THEN data[cur][v] = expected[v]
                      ELSE LET k == get_i_of_va_in_file(fp, v) IN
                           k # -1 /\ fp[k].used /\ k < Len(file) /\ file[k + 1] = expected[v]
    BY Zenon DEF ContentsKept
  <2>1. cur = 1 /\ Running /\ Entered = sz BY AtUser, Zenon DEF AtRest
  <2>2. v \in Pages /\ v < sz BY Sizes DEF IInv, TypeOK
  <2>3. Contents(fp, pte[1], data[1], file, expected, sz) BY <2>1, Zenon DEF Running
  <2>4. CASE "P" \in pte[1][v] BY <2>1, <2>2, <2>3, <2>4, Zenon DEF Contents
  <2>5. CASE "P" \notin pte[1][v]
    <3>1. PICK h \in Slots : fp[h].used /\ fp[h].va = v
      BY <2>1, <2>2, <2>5, Zenon DEF IInv, Tables, Covered, InMem
    <3>2. /\ Len(file) \in Nat /\ \A i \in Slots : fp[i].used <=> i < Len(file)
          /\ \A i, j \in Slots : fp[i].used /\ fp[j].used /\ fp[i].va = fp[j].va => i = j
      BY Counts, Zenon DEF IInv, Tables, Front, Distinct
    <3>3. get_i_of_va_in_file(fp, fp[h].va) = h BY <3>1, <3>2, Lookup, Zenon
    <3>4. h < Len(file) /\ file[h + 1] = expected[v] /\ h # -1
      BY SMTT(30), <2>3, <3>1, <3>2, Sizes DEF Contents
    <3> QED BY <2>1, <2>5, <3>1, <3>3, <3>4, ZenonT(60)
  <2> QED BY <2>1, <2>4, <2>5, Zenon
<1> QED BY <1>1, Invariance, PTL

(* TablesMatchPtes: between calls every page of the process has exactly    *)
(* one entry, in the table its PTE_P and PTE_PG bits say.                  *)
THEOREM Matched == ASSUME Modest PROVE Spec => []TablesMatchPtes
<1>1. IInv => TablesMatchPtes
  <2> SUFFICES ASSUME IInv, AtRest, NEW v \in Pages
               PROVE  LET inMem == {i \in Slots : mp[i].used /\ mp[i].dir = cur /\ mp[i].va = v}
                          inFile == {i \in Slots : fp[i].used /\ fp[i].dir = cur /\ fp[i].va = v}
                      IN  /\ Cardinality(inMem) = IF "P" \in pte[cur][v] THEN 1 ELSE 0
                          /\ Cardinality(inFile) = IF "PG" \in pte[cur][v] THEN 1 ELSE 0
                          /\ v < sz <=> inMem \cup inFile # {}
    BY Zenon DEF TablesMatchPtes
  <2> DEFINE inMem == {i \in Slots : mp[i].used /\ mp[i].dir = cur /\ mp[i].va = v}
             inFile == {i \in Slots : fp[i].used /\ fp[i].dir = cur /\ fp[i].va = v}
  <2>1. cur = 1 /\ Entered = sz /\ pc = "user" BY AtUser, Zenon DEF AtRest
  <2>2. /\ \A i \in Slots : mp[i].used => mp[i].dir = 1 /\ mp[i].va < sz
                              /\ "P" \in pte[1][mp[i].va] /\ "PG" \notin pte[1][mp[i].va]
        /\ \A i \in Slots : fp[i].used => fp[i].dir = 1 /\ fp[i].va < sz
                              /\ "P" \notin pte[1][fp[i].va] /\ "PG" \in pte[1][fp[i].va]
    BY <2>1, Zenon DEF IInv, Tables, InMem, InFile
  <2>3. Distinct(mp) /\ Distinct(fp) BY Zenon DEF IInv, Tables
  <2>4. v < sz => \/ \E i \in Slots : mp[i].used /\ mp[i].va = v
                  \/ \E i \in Slots : fp[i].used /\ fp[i].va = v
    BY <2>1, Zenon DEF IInv, Tables, Covered
  <2>5. ~(v < sz) => pte[1][v] = {}
    <3>1. v \in Int /\ sz \in Int BY Sizes DEF IInv, TypeOK
    <3>2. \A w \in Pages : w >= sz => pte[1][w] = {} BY <2>1, Zenon DEF IInv, Above
    <3> QED BY <3>1, <3>2
  <2>6. Cardinality({}) = 0 BY FS_EmptySet, Zenon
  <2>7. inMem # {} => \E i \in Slots : inMem = {i} BY <2>3, Zenon DEF Distinct
  <2>8. inFile # {} => \E i \in Slots : inFile = {i} BY <2>3, Zenon DEF Distinct
  <2>9. inMem # {} <=> "P" \in pte[1][v] BY SMTT(30), <2>1, <2>2, <2>4, <2>5
  <2>10. inFile # {} <=> "PG" \in pte[1][v] BY SMTT(30), <2>1, <2>2, <2>4, <2>5
  <2>11. v < sz <=> inMem \cup inFile # {} BY <2>1, <2>2, <2>4
  <2> HIDE DEF inMem, inFile
  <2>12. Cardinality(inMem) = IF "P" \in pte[1][v] THEN 1 ELSE 0 BY <2>6, <2>7, <2>9, FS_Singleton, ZenonT(60)
  <2>13. Cardinality(inFile) = IF "PG" \in pte[1][v] THEN 1 ELSE 0 BY <2>6, <2>8, <2>10, FS_Singleton, ZenonT(60)
  <2> USE DEF inMem, inFile
  <2> QED BY <2>1, <2>11, <2>12, <2>13, Zenon
<1> QED BY <1>1, Invariance, PTL

(* ResidentBound: at most MAX_PSYC_PAGES pages are in physical memory.     *)
THEOREM Bounded == ASSUME Modest PROVE Spec => []ResidentBound
<1>1. IInv => ResidentBound
  <2> SUFFICES ASSUME IInv, AtRest
               PROVE  Cardinality({v \in Pages : "P" \in pte[cur][v]}) <= MAX_PSYC_PAGES
    BY Zenon DEF ResidentBound
  <2> DEFINE R == {v \in Pages : "P" \in pte[1][v]}
             slot == [v \in R |-> CHOOSE i \in Slots : mp[i].used /\ mp[i].va = v]
  <2>1. cur = 1 /\ pc = "user" /\ execs > 0 BY AtUser, Zenon DEF AtRest
  <2>2. \A v \in R : slot[v] \in Slots /\ mp[slot[v]].va = v BY <2>1, Resident, Zenon
  <2>3. slot \in Injection(R, Slots)
    <3>1. slot \in [R -> Slots] BY <2>2, Zenon
    <3> HIDE DEF R, slot
    <3> QED BY <2>2, <3>1 DEF Injection, IsInjective
  <2> HIDE DEF R, slot
  <2>4. Cardinality(R) <= Cardinality(Slots) BY <2>3, SlotCount, FS_Injection, Zenon
  <2> QED BY <2>1, <2>4, SlotCount, Zenon DEF R, M
<1> QED BY <1>1, Invariance, PTL

(* VictimFound: the loop of next_i_in_mem_to_remove() ends: NFUA and LAPA  *)
(* have a victim, and SCFIFO gives each resident page at most one second   *)
(* chance before it has one.                                               *)
THEOREM Found == ASSUME Modest PROVE Spec => []VictimFound
<1>1. IInv => VictimFound
  <2> SUFFICES ASSUME IInv, pc \in {"swap", "handle_pf"}
               PROVE  (Victim # -1 \/ SecondChance) /\ spins <= MAX_PSYC_PAGES
    BY Zenon DEF VictimFound
  <2>1. Victim # -1 \/ SecondChance
    <3>1. \A i \in Slots : i # -1 BY Sizes
    <3> QED BY <3>1, HasVictim, Zenon DEF Choosing
  <2> DEFINE Chosen(s) == CHOOSE i \in Slots : mp[i].time = timestamp - s
             slot == [s \in 1 .. spins |-> Chosen(s)]
  <2>2. spins \in Nat /\ timestamp \in Nat BY Zenon DEF IInv, TypeOK
  <2>3. \A s \in 1 .. spins : slot[s] \in Slots /\ mp[slot[s]].time = timestamp - s
    BY Zenon DEF IInv, Chances
  <2>4. \A s, t \in 1 .. spins : slot[s] = slot[t] => s = t
    <3> HIDE DEF slot
    <3> SUFFICES ASSUME NEW s \in 1 .. spins, NEW t \in 1 .. spins, slot[s] = slot[t] PROVE s = t
      BY Zenon
    <3>1. timestamp - s = timestamp - t BY <2>3, Zenon
    <3> QED BY <3>1, <2>2
  <2>5. slot \in Injection(1 .. spins, Slots) BY <2>3, <2>4, Zenon DEF Injection, IsInjective
  <2>6. Cardinality(1 .. spins) = spins BY <2>2, FS_Interval
  <2> HIDE DEF slot
  <2>7. Cardinality(1 .. spins) <= Cardinality(Slots) BY <2>5, SlotCount, FS_Injection, Zenon
  <2> QED BY <2>1, <2>6, <2>7, SlotCount, Zenon DEF M
<1> QED BY <1>1, Invariance, PTL
============================================================================
