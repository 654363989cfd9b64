---------------------------- MODULE PagingSteps -----------------------------
(***************************************************************************)
(* The inductive invariant of module Paging, for any number of slots and   *)
(* pages and every policy but AQ: what holds of the tables, the flags, the *)
(* frames and the swap file at every point of exec(), sbrk() and a page    *)
(* fault; and the steps that keep it.  That a policy has a victim is the   *)
(* hypothesis Choosing here: module PagingProofs proves it.                *)
(***************************************************************************)
EXTENDS Paging, TLAPS

USE SMTT(30), ZenonT(60), SMTT(120)

M == MAX_PSYC_PAGES

(* The programs and sizes the theorems are about: a program that fits      *)
(* memory when exec() loads it, and memory and swap file when it has grown.*)
Modest ==
  /\ Programs = {{}} /\ MaxExecs <= 1
  /\ "AQ" \notin Policies
  /\ NFUA_MSB >= 2
  /\ ImagePages + 2 <= M
  /\ NPages <= 2 * M

----------------------------------------------------------------------------
(* The tables m and f hold the first n pages of the directory pt, k of     *)
(* them in the file: both are filled from the front, f only when m is      *)
(* full; entries say what the flags say; no page has two entries.          *)
Front(m, f, n, k) ==
  /\ n - k <= M /\ (k # 0 => n - k = M)
  /\ \A i \in Slots : (m[i].used <=> i < n - k) /\ (f[i].used <=> i < k)
InMem(m, pt, n) ==
  \A i \in Slots : m[i].used => /\ m[i].dir = 1 /\ m[i].va < n
                                /\ "P" \in pt[m[i].va] /\ "PG" \notin pt[m[i].va]
InFile(f, pt, n) ==
  \A i \in Slots : f[i].used => /\ f[i].dir = 1 /\ f[i].va < n
                                /\ "P" \notin pt[f[i].va] /\ "PG" \in pt[f[i].va]
Distinct(t) ==
  \A i, j \in Slots : t[i].used /\ t[j].used /\ t[i].va = t[j].va => i = j
Covered(m, f, n) ==
  \A v \in Pages : v < n => \/ \E i \in Slots : m[i].used /\ m[i].va = v
                            \/ \E i \in Slots : f[i].used /\ f[i].va = v
Tables(m, f, pt, n, k) ==
  /\ Front(m, f, n, k) /\ InMem(m, pt, n) /\ InFile(f, pt, n)
  /\ Distinct(m) /\ Distinct(f) /\ Covered(m, f, n)

(* The frames dt and the file fl hold what the program stored. *)
Contents(f, pt, dt, fl, ex, n) ==
  /\ \A v \in Pages : v < n /\ "P" \in pt[v] => dt[v] = ex[v]
  /\ \A i \in Slots : f[i].used => fl[i + 1] = ex[f[i].va]

(* Of the first n pages of pt the program may touch all but its guard g. *)
Accessible(pt, g, n) ==
  \A v \in Pages : v < n /\ v # g /\ "P" \in pt[v] => {"U", "W"} \subseteq pt[v]

(* Pages that have been allocated and entered in a table. *)
Entered == IF execs = 0 THEN 0 ELSE IF pc \in {"user", "handle_pf"} THEN sz ELSE loc.a

(* Before exec(), and in it. *)
Loading ==
  /\ cur = 0 /\ file = <<>> /\ spins = 0
  /\ pc \in {"user", "exec_text", "exec_load", "exec_stack", "exec_end"}
  /\ pc = "user" <=> execs = 0
  /\ pc # "user" => loc.dir = 1 /\ loc.a <= loc.newsz
  /\ pc = "exec_text" => loc.newsz = ImagePages
  /\ pc = "exec_load" => loc.a = ImagePages
  /\ pc = "exec_stack" => loc.newsz = ImagePages + 2 /\ ImagePages <= loc.a
  /\ pc = "exec_end" => loc.a = ImagePages + 2
  /\ pc \in {"exec_stack", "exec_end"} => \A v \in Pages : v < loc.a =>
       data[1][v] = IF v < ImagePages THEN Mark(v) ELSE 0
  /\ \A v \in Pages : v < Entered => {"P", "W", "U"} \subseteq pte[1][v]

(* After exec(). *)
Running ==
  /\ execs = 1 /\ guard = ImagePages
  /\ pc \in {"user", "sbrk", "swap", "handle_pf"}
  /\ pc \in {"sbrk", "swap"} => /\ loc.dir = 1 /\ loc.caller = "sbrk"
                                /\ sz <= loc.a /\ loc.a <= loc.newsz
  /\ pc \in {"swap", "handle_pf"} => Entered - Len(file) = M
  /\ pc = "swap" => /\ loc.a < loc.newsz
                    /\ "PG" \notin pte[1][loc.a] /\ {"P", "U", "W"} \subseteq pte[1][loc.a]
                    /\ data[1][loc.a] = expected[loc.a]
  /\ pc = "handle_pf" => /\ loc.a < sz /\ loc.a # guard
                         /\ "P" \notin pte[1][loc.a]
  /\ Accessible(pte[1], guard, Entered)
  /\ Contents(fp, pte[1], data[1], file, expected, Entered)

(* Above the pages entered the directory is empty. *)
Above ==
  \A v \in Pages : v >= Entered /\ ~(pc = "swap" /\ v = loc.a) => pte[1][v] = {}

(* What NFUA's choice of a victim relies on: the page that came last has   *)
(* been aged once at most.                                                 *)
Ages ==
  POLICY = "NFUA" /\ Entered > 0 => \E i \in Slots :
    mp[i].used /\ (mp[i].age = 0 \/ (pc = "handle_pf" /\ mp[i].age = NFUA_MSB))

(* And SCFIFO's: the pages that had their second chance in this search     *)
(* have the latest times, and are not marked accessed.                     *)
Chances ==
  /\ pc \notin {"swap", "handle_pf"} => spins = 0
  /\ \A s \in 1 .. spins : \E i \in Slots :
       mp[i].used /\ mp[i].time = timestamp - s /\ "A" \notin pte[1][mp[i].va]

(* The inductive invariant. *)
IInv ==
  /\ TypeOK /\ halt = "no"
  /\ Tables(mp, fp, pte[1], Entered, Len(file)) /\ Above
  /\ (cur = 0 => Loading) /\ (cur = 1 => Running)
  /\ Ages /\ Chances

----------------------------------------------------------------------------
(* The scans of the tables. *)

(* Constants and sets of the model. *)
LEMMA Sizes ==
  /\ M \in Nat \ {0} /\ NPages \in Nat /\ ImagePages \in Nat \ {0}
  /\ ImagePages + 2 <= NPages /\ MaxExecs \in Nat
  /\ Slots \subseteq Nat /\ Slots = 0 .. M - 1 /\ Pages = 0 .. NPages - 1
  /\ NFUA_MSB \in Nat \ {0} /\ AllOnes = 2 * NFUA_MSB - 1
<1>1. /\ M \in Nat \ {0} /\ NPages \in Nat /\ ImagePages \in Nat \ {0}
      /\ ImagePages + 2 <= NPages /\ MaxExecs \in Nat
  BY ConstantsAssumption, Zenon DEF M
<1>2. Slots = 0 .. M - 1 /\ Pages = 0 .. NPages - 1 BY Zenon DEF M, Slots, Pages
<1>3. Slots \subseteq Nat BY <1>1, <1>2
<1> QED BY <1>1, <1>2, <1>3, AgeAssumption, Zenon

(* The swap file as a sequence. *)
LEMMA SeqElements ==
  ASSUME NEW S, NEW q \in Seq(S)
  PROVE  Len(q) \in Nat /\ \A x \in 1 .. Len(q) : q[x] \in S
OBVIOUS

(* A function on 1 .. c is a sequence of length c. *)
LEMMA SeqOf ==
  ASSUME NEW S, NEW c \in Nat, NEW g \in [1 .. c -> S]
  PROVE  g \in Seq(S) /\ Len(g) = c
OBVIOUS

(* Lowest() returns the least member of a set of slots. *)
LEMMA LowestIs ==
  ASSUME NEW S \in SUBSET Slots, NEW x \in S, \A j \in S : x <= j
  PROVE  Lowest(S) = x
<1>1. Lowest(S) \in S /\ Lowest(S) <= x BY Zenon DEF Lowest
<1>2. x <= Lowest(S) /\ Lowest(S) \in Nat /\ x \in Nat BY <1>1, Sizes, Zenon
<1> QED BY <1>1, <1>2

(* next_free_i_in_mem() and next_free_i_in_file() on a table that is       *)
(* filled from the front: the first entry above, or -1.                    *)
LEMMA FreeSlot ==
  ASSUME NEW t, NEW c \in Nat, c <= M, \A i \in Slots : t[i].used <=> i < c
  PROVE  /\ next_free_i_in_mem(t) = IF c = M THEN -1 ELSE c
         /\ next_free_i_in_file(t) = IF c = M THEN -1 ELSE c
<1> DEFINE S == {i \in Slots : ~t[i].used}
<1>1. CASE c = M
  <2>1. S = {} BY <1>1, Sizes
  <2> QED BY <1>1, <2>1, Zenon DEF next_free_i_in_mem, next_free_i_in_file, Lowest
<1>2. CASE c # M
  <2>1. c \in S /\ S \in SUBSET Slots BY <1>2, Sizes
  <2>2. \A j \in S : c <= j BY Sizes
  <2>3. Lowest(S) = c
    <3> HIDE DEF S
    <3> QED BY <2>1, <2>2, LowestIs, Zenon
  <2> QED BY <1>2, <2>3, Zenon DEF next_free_i_in_mem, next_free_i_in_file
<1> QED BY <1>1, <1>2, Zenon

(* get_i_of_va_in_file() finds a page that is in the file, although it     *)
(* does not look at used: entries that are not used lie above.             *)
LEMMA Lookup ==
  ASSUME NEW f, NEW c \in Nat, \A i \in Slots : f[i].used <=> i < c,
         \A i, j \in Slots : f[i].used /\ f[j].used /\ f[i].va = f[j].va => i = j,
         NEW h \in Slots, f[h].used
  PROVE  get_i_of_va_in_file(f, f[h].va) = h
<1> DEFINE S == {i \in Slots : f[i].va = f[h].va}
<1>1. h \in S /\ S \in SUBSET Slots BY Zenon
<1>2. ASSUME NEW j \in S PROVE h <= j
  <2>1. h < c /\ h \in Nat /\ j \in Nat BY Sizes, Zenon
  <2>2. CASE j < c
    <3>1. f[j].used BY <2>2, Zenon
    <3>2. j = h BY <3>1, Zenon
    <3> QED BY <3>2, <2>1
  <2>3. CASE ~(j < c) BY <2>1, <2>3
  <2> QED BY <2>2, <2>3, Zenon
<1>3. Lowest(S) = h
  <2> HIDE DEF S
  <2> QED BY <1>1, <1>2, LowestIs, Zenon
<1> QED BY <1>3, Zenon DEF get_i_of_va_in_file
----------------------------------------------------------------------------
(* What the operations on the tables keep.                                 *)

(* Flags and times may change, as long as no page moves. *)
LEMMA TablesKeep ==
  ASSUME NEW m, NEW f, NEW pt, NEW n \in Nat, NEW k \in Nat, Tables(m, f, pt, n, k),
         \A i \in Slots : m[i].va \in Pages /\ f[i].va \in Pages,
         NEW m2, \A i \in Slots : m2[i].used = m[i].used /\ m2[i].va = m[i].va /\ m2[i].dir = m[i].dir,
         NEW pt2, \A v \in Pages : v < n => /\ "P" \in pt2[v] <=> "P" \in pt[v]
                                            /\ "PG" \in pt2[v] <=> "PG" \in pt[v]
  PROVE  Tables(m2, f, pt2, n, k)
<1>1. Front(m2, f, n, k) BY Zenon DEF Tables, Front
<1>2. InMem(m2, pt2, n) BY DEF Tables, InMem
<1>3. InFile(f, pt2, n) BY Zenon DEF Tables, InFile
<1>4. Distinct(m2) /\ Distinct(f) BY DEF Tables, Distinct
<1>5. Covered(m2, f, n) BY DEF Tables, Covered
<1> QED BY <1>1, <1>2, <1>3, <1>4, <1>5, Zenon DEF Tables

(* allocuvm() enters page n, memory not being full. *)
Added(m, f, pt, n, m2, pt2) ==
  /\ n \in Nat /\ n < M
  /\ \A i \in Slots : m[i].va \in Pages /\ f[i].va \in Pages
  /\ m2[n].used /\ m2[n].va = n /\ m2[n].dir = 1
  /\ \A i \in Slots : i # n => m2[i] = m[i]
  /\ "P" \in pt2[n] /\ "PG" \notin pt2[n]
  /\ \A v \in Pages : v < n => pt2[v] = pt[v]

(* The tables hold one page more. *)
LEMMA TablesAdd ==
  ASSUME NEW m, NEW f, NEW pt, NEW n, NEW m2, NEW pt2,
         Tables(m, f, pt, n, 0), Added(m, f, pt, n, m2, pt2)
  PROVE  Tables(m2, f, pt2, n + 1, 0)
<1> USE DEF Added
<1>0. /\ n \in Slots /\ M \in Nat /\ n + 1 \in Nat /\ \A i \in Slots : i \in Nat
      /\ \A v \in Pages : v \in Nat
  BY Sizes
<1>1. Front(m2, f, n + 1, 0) BY <1>0 DEF Tables, Front
<1>2. \A i \in Slots : ~f[i].used BY <1>0, <1>1 DEF Front
<1>3. \A i \in Slots : i # n /\ m2[i].used =>
        /\ m2[i].dir = 1 /\ m2[i].va < n
        /\ "P" \in pt2[m2[i].va] /\ "PG" \notin pt2[m2[i].va]
  BY DEF Tables, InMem
<1>4. InMem(m2, pt2, n + 1)
  <2>1. \A v \in Pages : v < n => v < n + 1 BY <1>0
  <2>2. n < n + 1 OBVIOUS
  <2> QED BY <1>3, <2>1, <2>2 DEF InMem
<1>5. InFile(f, pt2, n + 1) BY <1>2, Zenon DEF InFile
<1>6. Distinct(m2)
  <2>1. \A i \in Slots : i # n /\ m2[i].used => m2[i].va # n BY <1>3
  <2> QED BY <2>1 DEF Tables, Distinct
<1>7. Distinct(f) BY Zenon DEF Tables
<1>8. Covered(m2, f, n + 1)
  <2> SUFFICES ASSUME NEW v \in Pages, v < n + 1 PROVE \E i \in Slots : m2[i].used /\ m2[i].va = v
    BY Zenon DEF Covered
  <2>1. CASE v = n BY <2>1, <1>0, Zenon
  <2>2. CASE v # n
    <3>1. v < n BY <2>2, <1>0
    <3>2. PICK i \in Slots : m[i].used /\ m[i].va = v BY <3>1, <1>2, Zenon DEF Tables, Covered
    <3>3. i # n BY <1>0, <3>2 DEF Tables, Front
    <3> QED BY <3>2, <3>3, Zenon
  <2> QED BY <2>1, <2>2, Zenon
<1> QED BY <1>1, <1>4, <1>5, <1>6, <1>7, <1>8, Zenon DEF Tables

(* handle_pf() exchanges the page of slot i0 for the one of slot h of the  *)
(* file.                                                                   *)
Exchanged(m, f, pt, i0, h, m2, f2, pt2) ==
  /\ \A i \in Slots : m[i].va \in Pages /\ f[i].va \in Pages
  /\ i0 \in Slots /\ m[i0].used /\ h \in Slots /\ f[h].used
  /\ m2[i0].used /\ m2[i0].va = f[h].va /\ m2[i0].dir = 1
  /\ \A i \in Slots : i # i0 => m2[i] = m[i]
  /\ f2[h].used /\ f2[h].va = m[i0].va /\ f2[h].dir = 1
  /\ \A i \in Slots : i # h => f2[i] = f[i]
  /\ "PG" \in pt2[m[i0].va] /\ "P" \notin pt2[m[i0].va]
  /\ "P" \in pt2[f[h].va] /\ "PG" \notin pt2[f[h].va]
  /\ \A v \in Pages : v # m[i0].va /\ v # f[h].va => pt2[v] = pt[v]

(* The tables stay in order. *)
LEMMA TablesExchange ==
  ASSUME NEW m, NEW f, NEW pt, NEW n \in Nat, NEW k \in Nat, NEW i0, NEW h, NEW m2, NEW f2,
         NEW pt2, Tables(m, f, pt, n, k), Exchanged(m, f, pt, i0, h, m2, f2, pt2)
  PROVE  Tables(m2, f2, pt2, n, k)
<1> USE DEF Exchanged
<1>0. /\ m[i0].va < n /\ f[h].va < n
      /\ \A i \in Slots : m[i].used => m[i].va # f[h].va
      /\ \A i \in Slots : f[i].used => f[i].va # m[i0].va
  BY DEF Tables, InMem, InFile
<1>1. /\ \A i \in Slots : m[i].used /\ i # i0 => m[i].va # m[i0].va
      /\ \A i \in Slots : f[i].used /\ i # h => f[i].va # f[h].va
  BY Zenon DEF Tables, Distinct
<1>2. Front(m2, f2, n, k) BY DEF Tables, Front
<1>3. InMem(m2, pt2, n) BY <1>0, <1>1 DEF Tables, InMem
<1>4. InFile(f2, pt2, n) BY <1>0, <1>1 DEF Tables, InFile
<1>5. Distinct(m2) BY <1>0 DEF Tables, Distinct
<1>6. Distinct(f2) BY <1>0 DEF Tables, Distinct
<1>7. Covered(m2, f2, n)
  <2> SUFFICES ASSUME NEW v \in Pages, v < n
               PROVE  \/ \E i \in Slots : m2[i].used /\ m2[i].va = v
                      \/ \E i \in Slots : f2[i].used /\ f2[i].va = v
    BY Zenon DEF Covered
  <2>1. CASE v = f[h].va \/ v = m[i0].va BY <2>1
  <2>2. CASE ~(v = f[h].va \/ v = m[i0].va)
    <3>1. CASE \E i \in Slots : m[i].used /\ m[i].va = v BY <3>1, <2>2
    <3>2. CASE \E i \in Slots : f[i].used /\ f[i].va = v BY <3>2, <2>2
    <3> QED BY <3>1, <3>2, Zenon DEF Tables, Covered
  <2> QED BY <2>1, <2>2, Zenon
<1> QED BY <1>2, <1>3, <1>4, <1>5, <1>6, <1>7, Zenon DEF Tables

(* swap() moves the page of slot i0 to the end of the file, and page n     *)
(* takes its slot.                                                         *)
Swapped(m, f, pt, n, k, i0, m2, f2, pt2) ==
  /\ n \in Nat /\ k \in Nat /\ n - k = M /\ k < M
  /\ \A i \in Slots : m[i].va \in Pages /\ f[i].va \in Pages
  /\ i0 \in Slots /\ m[i0].used
  /\ m2[i0].used /\ m2[i0].va = n /\ m2[i0].dir = 1
  /\ \A i \in Slots : i # i0 => m2[i] = m[i]
  /\ f2[k].used /\ f2[k].va = m[i0].va /\ f2[k].dir = 1
  /\ \A i \in Slots : i # k => f2[i] = f[i]
  /\ "PG" \in pt2[m[i0].va] /\ "P" \notin pt2[m[i0].va]
  /\ "P" \in pt2[n] /\ "PG" \notin pt2[n]
  /\ \A v \in Pages : v # m[i0].va /\ v # n => pt2[v] = pt[v]

(* The tables stay in order: memory is full and the file one page longer. *)
LEMMA TablesSwap ==
  ASSUME NEW m, NEW f, NEW pt, NEW n, NEW k, NEW i0, NEW m2, NEW f2, NEW pt2,
         Tables(m, f, pt, n, k), Swapped(m, f, pt, n, k, i0, m2, f2, pt2)
  PROVE  Tables(m2, f2, pt2, n + 1, k + 1)
<1> USE DEF Swapped
<1>0. /\ k \in Slots /\ M \in Nat /\ n + 1 \in Nat /\ \A i \in Slots : i \in Nat
      /\ \A v \in Pages : v \in Nat /\ (v < n => v < n + 1 /\ v # n)
  BY Sizes
<1>1. /\ m[i0].va < n
      /\ \A i \in Slots : m[i].used => m[i].va # n
      /\ \A i \in Slots : f[i].used => f[i].va # n /\ f[i].va # m[i0].va
  BY <1>0 DEF Tables, InMem, InFile
<1>2. \A i \in Slots : m[i].used /\ i # i0 => m[i].va # m[i0].va
  BY Zenon DEF Tables, Distinct
<1>3. ~f[k].used BY <1>0 DEF Tables, Front
<1>4. Front(m2, f2, n + 1, k + 1)
  <2>1. \A i \in Slots : m2[i].used <=> i < n - k BY DEF Tables, Front
  <2>2. \A i \in Slots : f2[i].used <=> i < k + 1 BY <1>0 DEF Tables, Front
  <2>3. (n + 1) - (k + 1) = n - k OBVIOUS
  <2> QED BY <2>1, <2>2, <2>3, <1>0 DEF Front
<1>5. InMem(m2, pt2, n + 1) BY <1>0, <1>1, <1>2 DEF Tables, InMem
<1>6. InFile(f2, pt2, n + 1)
  <2> SUFFICES ASSUME NEW i \in Slots, f2[i].used
               PROVE  /\ f2[i].dir = 1 /\ f2[i].va < n + 1
                      /\ "P" \notin pt2[f2[i].va] /\ "PG" \in pt2[f2[i].va]
    BY Zenon DEF InFile
  <2>1. CASE i = k BY <2>1, <1>0, <1>1, Zenon
  <2>2. CASE i # k BY <2>2, <1>0, <1>1 DEF Tables, InFile
  <2> QED BY <2>1, <2>2, Zenon
<1>7. Distinct(m2) BY <1>1 DEF Tables, Distinct
<1>8. Distinct(f2) BY <1>0, <1>1 DEF Tables, Distinct
<1>9. Covered(m2, f2, n + 1)
  <2> SUFFICES ASSUME NEW v \in Pages, v < n + 1
               PROVE  \/ \E i \in Slots : m2[i].used /\ m2[i].va = v
                      \/ \E i \in Slots : f2[i].used /\ f2[i].va = v
    BY Zenon DEF Covered
  <2>1. CASE v = n \/ v = m[i0].va BY <2>1, <1>0, Zenon
  <2>2. CASE ~(v = n \/ v = m[i0].va)
    <3>0. v < n BY <2>2, <1>0
    <3>1. CASE \E i \in Slots : m[i].used /\ m[i].va = v BY <3>1, <2>2
    <3>2. CASE \E i \in Slots : f[i].used /\ f[i].va = v BY <3>2, <1>3
    <3> QED BY <3>0, <3>1, <3>2, Zenon DEF Tables, Covered
  <2> QED BY <2>1, <2>2, Zenon
<1> QED BY <1>4, <1>5, <1>6, <1>7, <1>8, <1>9, Zenon DEF Tables

----------------------------------------------------------------------------
(* What the inductive invariant says of the sizes: n pages are entered, k  *)
(* of them in the file, and the scans of the tables return accordingly.    *)
LEMMA Counts ==
  ASSUME TypeOK, Tables(mp, fp, pte[1], Entered, Len(file))
  PROVE  /\ Entered \in Nat /\ Len(file) \in Nat /\ Entered <= NPages
         /\ Entered - Len(file) \in Nat /\ Entered - Len(file) <= M /\ Len(file) <= M
         /\ next_free_i_in_mem(mp) = IF Entered - Len(file) = M THEN -1 ELSE Entered - Len(file)
         /\ next_free_i_in_file(fp) = IF Len(file) = M THEN -1 ELSE Len(file)
         /\ \A i \in Slots : mp[i].va \in Pages /\ fp[i].va \in Pages
<1>1. Len(file) \in Nat /\ Len(file) <= M BY DEF TypeOK, M
<1>2. Entered \in Nat /\ Entered <= NPages BY Sizes DEF TypeOK, Entered
<1>3. Entered - Len(file) \in Nat /\ Entered - Len(file) <= M
  <2>1. Entered - Len(file) <= M /\ (Len(file) # 0 => Entered - Len(file) = M)
    BY Zenon DEF Tables, Front
  <2> QED BY <1>1, <1>2, <2>1, Sizes
<1>4. /\ \A i \in Slots : mp[i].used <=> i < Entered - Len(file)
      /\ \A i \in Slots : fp[i].used <=> i < Len(file)
  BY Zenon DEF Tables, Front
<1>5. \A i \in Slots : mp[i].va \in Pages /\ fp[i].va \in Pages
  BY Zenon DEF TypeOK, MemEntry, FileEntry
<1>6. next_free_i_in_mem(mp) = IF Entered - Len(file) = M THEN -1 ELSE Entered - Len(file)
  BY <1>3, <1>4, FreeSlot, Zenon
<1>7. next_free_i_in_file(fp) = IF Len(file) = M THEN -1 ELSE Len(file)
  BY <1>1, <1>4, FreeSlot, Zenon
<1> QED BY <1>1, <1>2, <1>3, <1>5, <1>6, <1>7, Zenon

(* What Modest says of a state. *)
LEMMA Plain ==
  ASSUME Modest, TypeOK
  PROVE  /\ may = {} /\ POLICY \in {"SCFIFO", "NFUA", "LAPA"} /\ POLICY # "AQ"
         /\ execs \in {0, 1} /\ MaxExecs <= 1
<1>1. may = {} BY Zenon DEF Modest, TypeOK
<1>2. POLICY \in {"SCFIFO", "NFUA", "LAPA"} /\ POLICY # "AQ"
  BY ConstantsAssumption DEF Modest, TypeOK
<1>3. execs \in {0, 1} /\ MaxExecs <= 1 BY ConstantsAssumption DEF Modest, TypeOK
<1> QED BY <1>1, <1>2, <1>3, Zenon

(* The invariant holds before the first exec(). *)
LEMMA InitInv == ASSUME Modest, Init PROVE IInv
<1>1. TypeOK
  <2>0. 0 \in Pages /\ 0 \in 0 .. AllOnes /\ 0 \in 0 .. NPages /\ 1 \in 0 .. NPages BY Sizes
  <2>1. mp \in [Slots -> MemEntry] BY <2>0, Zenon DEF Init, MemEntry, Dirs
  <2>2. fp \in [Slots -> FileEntry] BY ConstantsAssumption, Zenon DEF Init, FileEntry, Pages, Dirs
  <2>3. pte \in [Dirs -> [Pages -> SUBSET Flags]] BY Zenon DEF Init, Flags
  <2>4. data \in [Dirs -> [Pages -> 0 .. NPages]] /\ expected \in [Pages -> 0 .. NPages]
    BY Sizes DEF Init
  <2>5. file \in Seq(0 .. NPages) /\ Len(file) <= MAX_PSYC_PAGES BY Sizes DEF Init, M
  <2>6. loc \in [dir : Dirs, a : 0 .. NPages, newsz : 0 .. NPages, oldsz : 0 .. NPages,
                 caller : Callers]
    BY Sizes DEF Init, Dirs, Callers
  <2>7. sz \in 0 .. NPages /\ guard \in Pages \cup {NoGuard} /\ execs \in 0 .. MaxExecs /\ spins \in Nat
    BY <2>0, Sizes DEF Init, NoGuard
  <2> QED BY <2>1, <2>2, <2>3, <2>4, <2>5, <2>6, <2>7, Zenon DEF Init, TypeOK, PCs, Dirs
<1>2. Entered = 0 /\ Len(file) = 0 BY Zenon DEF Init, Entered
<1>3. \A i \in Slots : ~mp[i].used /\ ~fp[i].used BY Zenon DEF Init
<1>4. Tables(mp, fp, pte[1], 0, 0)
  BY SMTT(30), <1>3, Sizes DEF Tables, Front, InMem, InFile, Distinct, Covered
<1>5. Above BY DEF Init, Above, Dirs
<1>6. cur = 0 /\ Loading BY <1>2, Sizes DEF Init, Loading
<1>7. Ages /\ Chances BY <1>2 DEF Init, Ages, Chances
<1> QED BY <1>1, <1>2, <1>4, <1>5, <1>6, <1>7 DEF Init, IInv

----------------------------------------------------------------------------
(* The program at its own instructions, after exec(). *)
LEMMA AtUser ==
  ASSUME IInv, pc = "user", execs > 0
  PROVE  cur = 1 /\ Running /\ Entered = sz /\ spins = 0 /\ execs # 0
<1>1. execs # 0 OBVIOUS
<1>2. cur = 1 /\ Running BY <1>1, Zenon DEF IInv, TypeOK, Dirs, Loading
<1> QED BY <1>1, <1>2, Zenon DEF IInv, Entered, Chances

(* A load or a store of the program. *)
LEMMA TouchInv ==
  ASSUME Modest, IInv, NEW v \in Pages, NEW write \in BOOLEAN, Touch(v, write),
         UNCHANGED <<POLICY, may>>
  PROVE  IInv'
<1>0. /\ pc = "user" /\ execs > 0 /\ v < sz /\ "P" \in pte[cur][v]
      /\ UNCHANGED <<cur, sz, mp, fp, timestamp, file, guard, pc, loc, spins, execs, halt>>
  BY Zenon DEF Touch, Legal, Allows
<1>1. cur = 1 /\ Running /\ Entered = sz /\ spins = 0 BY <1>0, AtUser, Zenon
<1>2. /\ pte' = [pte EXCEPT ![1][v] = @ \cup {"A"}]
      /\ data' = IF write THEN [data EXCEPT ![1][v] = Mark(v)] ELSE data
      /\ expected' = IF write THEN [expected EXCEPT ![v] = Mark(v)] ELSE expected
  BY <1>1, Zenon DEF Touch
<1>3. Mark(v) \in 0 .. NPages BY Sizes DEF Mark
<1>4. /\ pte' \in [Dirs -> [Pages -> SUBSET Flags]]
      /\ data' \in [Dirs -> [Pages -> 0 .. NPages]] /\ expected' \in [Pages -> 0 .. NPages]
  BY <1>2, <1>3, Zenon DEF IInv, TypeOK, Flags, Dirs
<1>5. TypeOK' BY <1>0, <1>4, Zenon DEF IInv, TypeOK
<1>6. Entered' = Entered BY <1>0, Zenon DEF Entered
<1>7. /\ pte'[1][v] = pte[1][v] \cup {"A"} /\ (data[1][v] = expected[v] => data'[1][v] = expected'[v])
      /\ \A w \in Pages : w # v => /\ pte'[1][w] = pte[1][w]
                                   /\ data'[1][w] = data[1][w] /\ expected'[w] = expected[w]
  BY <1>2, Zenon DEF IInv, TypeOK, Dirs
<1>8. Tables(mp', fp', pte'[1], Entered', Len(file'))
  <2>1. \A w \in Pages : /\ "P" \in pte'[1][w] <=> "P" \in pte[1][w]
                         /\ "PG" \in pte'[1][w] <=> "PG" \in pte[1][w]
    BY <1>7
  <2> QED BY <2>1, <1>0, <1>6, Counts, TablesKeep, Zenon DEF IInv
<1>9. Above'
  <2>1. \A w \in Pages : w >= Entered => w # v BY <1>0, <1>1, Sizes DEF IInv, TypeOK
  <2>2. \A w \in Pages : w >= Entered => pte[1][w] = {} BY <1>0, Zenon DEF IInv, Above
  <2> QED BY <2>1, <2>2, <1>6, <1>7, Zenon DEF Above
<1>10. Contents(fp', pte'[1], data'[1], file', expected', Entered')
  <2>0. Contents(fp, pte[1], data[1], file, expected, Entered) BY <1>1, Zenon DEF Running
  <2>1. \A w \in Pages : w < Entered /\ "P" \in pte'[1][w] => data'[1][w] = expected'[w]
    BY <2>0, <1>0, <1>1, <1>7 DEF Contents
  <2>2. \A i \in Slots : fp[i].used => fp[i].va # v /\ fp[i].va \in Pages
    BY <1>0, <1>1, Counts, Zenon DEF IInv, Tables, InFile
  <2>3. \A i \in Slots : fp[i].used => file[i + 1] = expected'[fp[i].va]
    BY <2>0, <1>7, <2>2 DEF Contents
  <2> QED BY <2>1, <2>3, <1>0, <1>6, Zenon DEF Contents
<1>11. Running'
  <2>1. Accessible(pte[1], guard, Entered) BY <1>1, Zenon DEF Running
  <2>2. Accessible(pte'[1], guard', Entered') BY <2>1, <1>0, <1>6, <1>7 DEF Accessible
  <2> QED BY <2>2, <1>0, <1>1, <1>6, <1>10, Zenon DEF Running
<1>12. Ages' BY <1>0, <1>6, Zenon DEF IInv, Ages
<1>13. Chances' BY <1>0, <1>1 DEF IInv, Chances
<1> QED BY <1>0, <1>1, <1>5, <1>8, <1>9, <1>11, <1>12, <1>13 DEF IInv

(* sbrk() enters growproc() and allocuvm(). *)
LEMMA SbrkInv ==
  ASSUME Modest, IInv, NEW n \in 1 .. NPages, Sbrk(n), UNCHANGED <<POLICY, may>>
  PROVE  IInv'
<1>0. /\ pc = "user" /\ execs > 0 /\ sz + n <= NPages /\ pc' = "sbrk"
      /\ loc' = [dir |-> cur, a |-> sz, newsz |-> sz + n, oldsz |-> sz, caller |-> "sbrk"]
      /\ UNCHANGED <<cur, sz, pte, data, mp, fp, timestamp, file, expected, guard, spins,
                     execs, halt>>
  BY Zenon DEF Sbrk
<1>1. cur = 1 /\ Running /\ Entered = sz /\ spins = 0 /\ execs # 0 BY <1>0, AtUser, Zenon
<1>2. /\ loc'.dir = 1 /\ loc'.a = sz /\ loc'.caller = "sbrk" /\ loc'.a <= loc'.newsz
      /\ loc' \in [dir : Dirs, a : 0 .. NPages, newsz : 0 .. NPages, oldsz : 0 .. NPages,
                   caller : Callers]
  BY <1>0, <1>1, Sizes DEF IInv, TypeOK, Dirs, Callers
<1>3. TypeOK' BY <1>0, <1>2, Zenon DEF IInv, TypeOK, PCs
<1>4. Entered' = Entered BY <1>0, <1>1, <1>2, Zenon DEF Entered
<1>5. Tables(mp', fp', pte'[1], Entered', Len(file')) BY <1>0, <1>4, Zenon DEF IInv
<1>6. Above' BY <1>0, <1>4, ZenonT(60) DEF IInv, Above
<1>7. Running' BY <1>0, <1>1, <1>2, <1>4, Sizes DEF Running, IInv, TypeOK
<1>8. Ages' /\ Chances' BY <1>0, <1>1, <1>4, Zenon DEF IInv, Ages, Chances
<1> QED BY <1>0, <1>1, <1>3, <1>5, <1>6, <1>7, <1>8 DEF IInv

(* exec() starts: the new directory is empty. *)
LEMMA ExecStartInv ==
  ASSUME Modest, IInv, ExecStart, UNCHANGED <<POLICY, may>>
  PROVE  IInv'
<1>0. /\ pc = "user" /\ execs < MaxExecs /\ execs' = execs + 1 /\ pc' = "exec_text"
      /\ loc' = [dir |-> 1 - cur, a |-> 0, newsz |-> ImagePages, oldsz |-> 0,
                 caller |-> "exec_text"]
      /\ UNCHANGED <<cur, sz, pte, data, mp, fp, timestamp, file, expected, guard, spins,
                     halt>>
  BY Zenon DEF ExecStart
<1>1. execs = 0 /\ MaxExecs = 1 BY <1>0, Plain, Sizes DEF IInv
<1>2. cur = 0 /\ Loading BY <1>1, Zenon DEF IInv, TypeOK, Dirs, Running
<1>3. /\ loc'.dir = 1 /\ loc'.a = 0 /\ loc'.newsz = ImagePages
      /\ loc' \in [dir : Dirs, a : 0 .. NPages, newsz : 0 .. NPages, oldsz : 0 .. NPages,
                   caller : Callers]
  BY SMTT(30), <1>0, <1>2, Sizes DEF Dirs, Callers
<1>4. TypeOK' BY SMTT(30), <1>0, <1>1, <1>3 DEF IInv, TypeOK, PCs
<1>5. Entered' = 0 /\ Entered = 0 BY <1>0, <1>1, <1>3, Zenon DEF Entered
<1>6. Tables(mp', fp', pte'[1], Entered', Len(file')) BY <1>0, <1>5, Zenon DEF IInv
<1>7. Above' BY <1>0, <1>5, Zenon DEF IInv, Above
<1>8. Loading' BY <1>0, <1>1, <1>2, <1>3, <1>5, Sizes DEF Loading
<1>9. Ages' /\ Chances' BY <1>0, <1>2, <1>5, Zenon DEF IInv, Ages, Chances, Loading
<1> QED BY <1>0, <1>2, <1>4, <1>6, <1>7, <1>8, <1>9 DEF IInv

(* loaduvm() fills the pages of the image, all of which are in memory. *)
LEMMA ExecLoadInv ==
  ASSUME Modest, IInv, ExecLoad, UNCHANGED <<POLICY, may>>
  PROVE  IInv'
<1>0. /\ pc = "exec_load" /\ pc' = "exec_stack"
      /\ loc' = [loc EXCEPT !.newsz = ImagePages + 2, !.oldsz = ImagePages,
                            !.caller = "exec_stack"]
      /\ UNCHANGED <<cur, sz, pte, mp, fp, timestamp, file, expected, guard, spins, execs,
                     halt>>
  BY Zenon DEF ExecLoad
<1>1. cur = 0 /\ Loading BY <1>0, Zenon DEF IInv, TypeOK, Dirs, Running
<1>2. /\ loc.dir = 1 /\ loc.a = ImagePages /\ execs # 0 /\ Entered = ImagePages
  BY <1>0, <1>1, Zenon DEF Loading, Entered
<1>3. /\ loc'.dir = 1 /\ loc'.a = ImagePages /\ loc'.newsz = ImagePages + 2
      /\ loc' \in [dir : Dirs, a : 0 .. NPages, newsz : 0 .. NPages, oldsz : 0 .. NPages,
                   caller : Callers]
  <2>1. ImagePages \in 0 .. NPages /\ ImagePages + 2 \in 0 .. NPages /\ "exec_stack" \in Callers
    BY Sizes DEF Callers
  <2>2. loc \in [dir : Dirs, a : 0 .. NPages, newsz : 0 .. NPages, oldsz : 0 .. NPages,
                 caller : Callers]
    BY Zenon DEF IInv, TypeOK
  <2> QED BY <1>0, <1>2, <2>1, <2>2, Zenon
<1>4. \A v \in Pages : Mark(v) \in 0 .. NPages BY Sizes DEF Mark
<1>5. data' = [data EXCEPT ![1] = [v \in Pages |->
                IF v < ImagePages /\ "P" \in pte[1][v] THEN Mark(v) ELSE @[v]]]
  BY <1>2, Zenon DEF ExecLoad
<1>6. data' \in [Dirs -> [Pages -> 0 .. NPages]] BY <1>4, <1>5, Zenon DEF IInv, TypeOK, Dirs
<1>7. TypeOK' BY <1>0, <1>3, <1>6, Zenon DEF IInv, TypeOK, PCs
<1>8. Entered' = ImagePages BY <1>0, <1>2, <1>3, Zenon DEF Entered
<1>9. Tables(mp', fp', pte'[1], Entered', Len(file')) BY <1>0, <1>2, <1>8, Zenon DEF IInv
<1>10. Above' BY <1>0, <1>2, <1>8, Zenon DEF IInv, Above
<1>11. \A v \in Pages : v < ImagePages => "P" \in pte[1][v] BY <1>1, <1>2, Zenon DEF Loading
<1>12. \A v \in Pages : v < ImagePages => data'[1][v] = Mark(v)
  BY <1>5, <1>11, Zenon DEF IInv, TypeOK, Dirs
<1>13. Loading' BY SMTT(30), <1>0, <1>1, <1>2, <1>3, <1>8, <1>12, Sizes DEF Loading
<1>14. Ages' /\ Chances' BY <1>0, <1>2, <1>8, Zenon DEF IInv, Ages, Chances
<1> QED BY <1>0, <1>1, <1>7, <1>9, <1>10, <1>13, <1>14 DEF IInv

(* allocuvm() returns; growproc() sets sz. *)
LEMMA AllocDoneInv ==
  ASSUME Modest, IInv, AllocDone, UNCHANGED <<POLICY, may>>
  PROVE  IInv'
<1>0. /\ pc \in Callers /\ loc.a = loc.newsz
      /\ pc = "sbrk" => pc' = "user" /\ sz' = loc.newsz
      /\ pc = "exec_text" => pc' = "exec_load" /\ sz' = sz
      /\ pc = "exec_stack" => pc' = "exec_end" /\ sz' = sz
      /\ UNCHANGED <<cur, pte, data, mp, fp, timestamp, file, expected, guard, loc, spins,
                     execs, halt>>
  BY Zenon DEF AllocDone, Callers
<1>1. execs # 0 /\ Entered = loc.a
  BY <1>0, Plain, Zenon DEF IInv, TypeOK, Dirs, Loading, Running, Entered, Callers
<1>2. TypeOK' BY <1>0, Zenon DEF IInv, TypeOK, PCs, Callers
<1>3. Entered' = Entered BY <1>0, <1>1, Zenon DEF Entered, Callers
<1>4. Tables(mp', fp', pte'[1], Entered', Len(file')) BY <1>0, <1>3, Zenon DEF IInv
<1>5. Above' BY <1>0, <1>3, Zenon DEF IInv, Above, Callers
<1>6. cur = 0 => Loading'
  <2>1. cur = 0 => Loading BY Zenon DEF IInv
  <2>2. cur = 0 => pc \in {"exec_text", "exec_stack"} BY <1>0, <2>1, Zenon DEF Loading, Callers
  <2>3. loc.a \in Nat BY Sizes DEF IInv, TypeOK
  <2> QED BY <1>0, <1>3, <2>1, <2>2, <2>3, Zenon DEF Loading
<1>7. cur = 1 => Running'
  <2>1. cur = 1 => Running /\ pc = "sbrk" BY <1>0, Zenon DEF IInv, Running, Callers
  <2> QED BY <1>0, <1>3, <2>1, Zenon DEF Running
<1>8. Ages' /\ Chances' BY <1>0, <1>3, Zenon DEF IInv, Ages, Chances, Callers
<1> QED BY <1>0, <1>2, <1>4, <1>5, <1>6, <1>7, <1>8, Zenon DEF IInv

----------------------------------------------------------------------------
(* The program never meets a fault that is not a page in the file. *)
LEMMA OnlyPagedOut ==
  ASSUME Modest, IInv, NEW v \in Pages, NEW write \in BOOLEAN, Faults(v, write)
  PROVE  PagedOut(pte[cur][v])
<1>1. pc = "user" /\ execs > 0 /\ v < sz /\ ~Allows(pte[cur][v], write) BY Zenon DEF Faults, Legal
<1>2. v # guard BY Plain, Zenon DEF Faults, Legal, IInv
<1>3. cur = 1 /\ Running /\ Entered = sz BY <1>1, AtUser, Zenon
<1>4. "P" \notin pte[1][v]
  <2>1. Accessible(pte[1], guard, sz) BY <1>3, Zenon DEF Running
  <2>2. "P" \in pte[1][v] => {"P", "U", "W"} \subseteq pte[1][v]
    BY <1>1, <1>2, <2>1, Zenon DEF Accessible
  <2> QED BY <1>1, <1>3, <2>2, Zenon DEF Allows
<1>5. "PG" \in pte[1][v]
  BY <1>1, <1>3, <1>4, Zenon DEF IInv, Tables, Covered, InMem, InFile
<1> QED BY <1>3, <1>4, <1>5, Zenon DEF PagedOut

(* What trap() leaves of the tables and of the flags: no page moves, ages  *)
(* stay within 32 bits, and NFUA has a page aged once at most.             *)
LEMMA Trapped ==
  ASSUME Modest, IInv, pc = "user", execs > 0
  PROVE  /\ TrapTables \in [Slots -> MemEntry]
         /\ \A i \in Slots : /\ TrapTables[i].used = mp[i].used /\ TrapTables[i].va = mp[i].va
                             /\ TrapTables[i].dir = mp[i].dir /\ TrapTables[i].time = mp[i].time
         /\ TrapPte \in [Dirs -> [Pages -> SUBSET Flags]]
         /\ \A w \in Pages : TrapPte[1][w] = pte[1][w] \/ TrapPte[1][w] = pte[1][w] \ {"A"}
         /\ POLICY = "NFUA" => \A i \in Slots : mp[i].used /\ mp[i].age = 0 =>
              TrapTables[i].age \in {0, NFUA_MSB}
<1>0. cur = 1 /\ POLICY \in {"SCFIFO", "NFUA", "LAPA"} BY AtUser, Plain, Zenon DEF IInv
<1>1. mp \in [Slots -> MemEntry] /\ pte \in [Dirs -> [Pages -> SUBSET Flags]] BY Zenon DEF IInv, TypeOK
<1>2. ASSUME NEW i \in Slots
      PROVE  /\ mp[i].age \div 2 + NFUA_MSB \in 0 .. AllOnes /\ mp[i].age \div 2 \in 0 .. AllOnes
             /\ mp[i].age = 0 => mp[i].age \div 2 = 0
  <2>1. mp[i].age \in Nat /\ mp[i].age <= 2 * NFUA_MSB - 1 BY <1>1, Sizes DEF MemEntry
  <2> QED BY SMTT(30), <2>1, Sizes
<1>3. CASE POLICY \in {"NFUA", "LAPA"}
  <2>1. TrapTables = NFUA_update_age(mp) BY <1>3, Zenon DEF TrapTables
  <2>2. /\ NFUA_update_age(mp) \in [Slots -> MemEntry]
        /\ \A i \in Slots :
             /\ NFUA_update_age(mp)[i].used = mp[i].used /\ NFUA_update_age(mp)[i].va = mp[i].va
             /\ NFUA_update_age(mp)[i].dir = mp[i].dir /\ NFUA_update_age(mp)[i].time = mp[i].time
             /\ mp[i].used /\ mp[i].age = 0 => NFUA_update_age(mp)[i].age \in {0, NFUA_MSB}
    <3> SUFFICES ASSUME NEW i \in Slots
                 PROVE  /\ NFUA_update_age(mp)[i] \in MemEntry
                        /\ NFUA_update_age(mp)[i].used = mp[i].used /\ NFUA_update_age(mp)[i].va = mp[i].va
                        /\ NFUA_update_age(mp)[i].dir = mp[i].dir /\ NFUA_update_age(mp)[i].time = mp[i].time
                        /\ mp[i].used /\ mp[i].age = 0 => NFUA_update_age(mp)[i].age \in {0, NFUA_MSB}
      BY Zenon DEF NFUA_update_age
    <3>1. CASE ~mp[i].used BY <3>1, <1>1, Zenon DEF NFUA_update_age
    <3>2. CASE mp[i].used
      <4> DEFINE aged == mp[i].age \div 2 + (IF "A" \in pte[cur][mp[i].va] THEN NFUA_MSB ELSE 0)
      <4>1. aged \in 0 .. AllOnes /\ (mp[i].age = 0 => aged \in {0, NFUA_MSB})
        <5>1. CASE "A" \in pte[cur][mp[i].va]
          <6>1. aged = mp[i].age \div 2 + NFUA_MSB BY <5>1, Zenon
          <6>2. mp[i].age = 0 => mp[i].age \div 2 + NFUA_MSB = NFUA_MSB BY <1>2, Sizes
          <6> QED BY <6>1, <6>2, <1>2, Zenon
        <5>2. CASE "A" \notin pte[cur][mp[i].va]
          <6>1. aged = mp[i].age \div 2 BY <5>2, <1>2, Sizes
          <6> QED BY <6>1, <1>2, Zenon
        <5> QED BY <5>1, <5>2, Zenon
      <4>2. NFUA_update_age(mp)[i] = [mp[i] EXCEPT !.age = aged] BY <3>2, Zenon DEF NFUA_update_age
      <4> HIDE DEF aged
      <4> QED BY <4>1, <4>2, <1>1 DEF MemEntry
    <3> QED BY <3>1, <3>2, Zenon
  <2>3. /\ TrapPte \in [Dirs -> [Pages -> SUBSET Flags]]
        /\ \A w \in Pages : TrapPte[1][w] = pte[1][w] \/ TrapPte[1][w] = pte[1][w] \ {"A"}
    BY <1>0, <1>1, <1>3 DEF TrapPte, Dirs
  <2> QED BY <2>1, <2>2, <2>3, Zenon
<1>4. CASE POLICY = "SCFIFO" BY <1>1, <1>4, Zenon DEF TrapTables, TrapPte
<1> QED BY <1>0, <1>3, <1>4, Zenon

(* A fault on a page in the file: memory is full, so handle_pf() goes on   *)
(* to look for a victim.                                                   *)
LEMMA PageFaultInv ==
  ASSUME Modest, IInv, NEW v \in Pages, NEW write \in BOOLEAN, PageFault(v, write),
         UNCHANGED <<POLICY, may>>
  PROVE  IInv'
<1>0. /\ pc = "user" /\ execs > 0 /\ v < sz /\ v # guard /\ "P" \notin pte[cur][v]
      /\ "run out" \notin may
  BY Plain, Zenon DEF PageFault, Faults, Legal, PagedOut, IInv
<1>1. cur = 1 /\ Running /\ Entered = sz /\ spins = 0 /\ execs # 0 BY <1>0, AtUser, Zenon
<1>2. Entered - Len(file) = M
  <2>1. PICK i \in Slots : fp[i].used BY <1>0, <1>1, Zenon DEF IInv, Tables, Covered, InMem
  <2>2. i < Len(file) BY <2>1, Zenon DEF IInv, Tables, Front
  <2>3. Len(file) # 0 BY <2>2, Sizes
  <2> QED BY <2>3, Zenon DEF IInv, Tables, Front
<1>3. next_free_i_in_mem(TrapTables) = -1
  <2>1. \A i \in Slots : TrapTables[i].used <=> i < M BY <1>0, <1>2, Trapped, Zenon DEF IInv, Tables, Front
  <2>2. M \in Nat /\ M <= M BY Sizes
  <2> QED BY <2>1, <2>2, FreeSlot, Zenon
<1>4. /\ mp' = TrapTables /\ pte' = TrapPte /\ pc' = "handle_pf" /\ loc' = [loc EXCEPT !.a = v]
      /\ UNCHANGED <<cur, sz, data, fp, timestamp, file, expected, guard, spins, execs, halt>>
  BY <1>0, <1>3, Zenon DEF PageFault
<1>5. /\ loc'.a = v
      /\ loc' \in [dir : Dirs, a : 0 .. NPages, newsz : 0 .. NPages, oldsz : 0 .. NPages,
                   caller : Callers]
  <2>1. v \in 0 .. NPages BY Sizes
  <2> QED BY <2>1, <1>4, Zenon DEF IInv, TypeOK
<1>6. TypeOK' BY <1>0, <1>4, <1>5, Trapped, Zenon DEF IInv, TypeOK, PCs
<1>7. Entered' = Entered BY <1>1, <1>4, Zenon DEF Entered
<1>8. \A w \in Pages : /\ pte'[1][w] = pte[1][w] \/ pte'[1][w] = pte[1][w] \ {"A"}
                       /\ "P" \in pte'[1][w] <=> "P" \in pte[1][w]
                       /\ "PG" \in pte'[1][w] <=> "PG" \in pte[1][w]
  BY <1>0, <1>4, Trapped, Zenon
<1>9. Tables(mp', fp', pte'[1], Entered', Len(file'))
  <2>1. \A i \in Slots : mp'[i].used = mp[i].used /\ mp'[i].va = mp[i].va /\ mp'[i].dir = mp[i].dir
    BY <1>0, <1>4, Trapped, Zenon
  <2>2. /\ Entered \in Nat /\ Len(file) \in Nat /\ Tables(mp, fp, pte[1], Entered, Len(file))
        /\ \A i \in Slots : mp[i].va \in Pages /\ fp[i].va \in Pages
    BY Counts, Zenon DEF IInv
  <2>3. Tables(mp', fp, pte'[1], Entered, Len(file))
    <3> HIDE DEF Tables
    <3> QED BY <2>1, <2>2, <1>8, TablesKeep, ZenonT(60)
  <2> QED BY <2>3, <1>4, <1>7, Zenon
<1>10. Above'
  <2>1. \A w \in Pages : w >= Entered => pte[1][w] = {} BY <1>0, Zenon DEF IInv, Above
  <2> QED BY <2>1, <1>4, <1>7, <1>8, Zenon DEF Above
<1>11. Running'
  <2>1. Accessible(pte[1], guard, Entered) /\ Contents(fp, pte[1], data[1], file, expected, Entered)
        /\ guard = ImagePages
    BY <1>1, Zenon DEF Running
  <2>2. Accessible(pte'[1], guard', Entered') BY <2>1, <1>4, <1>7, <1>8 DEF Accessible
  <2>3. Contents(fp', pte'[1], data'[1], file', expected', Entered')
    BY <2>1, <1>4, <1>7, <1>8, Zenon DEF Contents
  <2>4. "P" \notin pte'[1][loc'.a] BY <1>0, <1>1, <1>5, <1>8, Zenon
  <2> QED BY <2>1, <2>2, <2>3, <2>4, <1>0, <1>1, <1>2, <1>4, <1>5, <1>7, Zenon DEF Running
<1>12. Ages'
  BY <1>0, <1>4, <1>7, Trapped, Zenon DEF IInv, Ages
<1>13. Chances' BY <1>1, <1>4 DEF Chances
<1> QED BY <1>1, <1>4, <1>6, <1>9, <1>10, <1>11, <1>12, <1>13 DEF IInv
----------------------------------------------------------------------------
(* The choice of a victim. *)

(* What next_i_in_mem_to_remove() returns.  Module PagingProofs shows that *)
(* it does whenever it is called.                                          *)
Choosing ==
  /\ POLICY = "SCFIFO" => SCFIFO_oldest \in Slots
  /\ Victim \in Slots \/ (SecondChance /\ Victim = -1)

(* It is called when memory is full. *)
LEMMA Full ==
  ASSUME Modest, IInv, pc \in {"swap", "handle_pf"}
  PROVE  /\ cur = 1 /\ Running /\ Entered - Len(file) = M
         /\ \A i \in Slots : mp[i].used /\ mp[i].dir = 1
         /\ VictimTable = mp
<1>1. cur = 1 /\ Running /\ Entered - Len(file) = M BY Zenon DEF IInv, TypeOK, Dirs, Loading, Running
<1>2. \A i \in Slots : mp[i].used BY <1>1, Sizes DEF IInv, Tables, Front
<1>3. \A i \in Slots : mp[i].dir = 1 BY <1>2, Zenon DEF IInv, Tables, InMem
<1>4. VictimTable = mp BY Plain, Zenon DEF IInv, VictimTable
<1> QED BY <1>1, <1>2, <1>3, <1>4, Zenon

(* SCFIFO gives the oldest page a second chance: it becomes the youngest,  *)
(* and no other page that had one is the oldest.                           *)
LEMMA GiveSecondChanceInv ==
  ASSUME Modest, IInv, Choosing, GiveSecondChance, UNCHANGED <<POLICY, may>>
  PROVE  IInv'
<1> DEFINE o == SCFIFO_oldest
<1>0. /\ pc \in {"swap", "handle_pf"} /\ POLICY = "SCFIFO"
      /\ timestamp' = timestamp + 1 /\ spins' = spins + 1
      /\ UNCHANGED <<cur, sz, data, fp, file, expected, guard, pc, loc, execs, halt>>
  BY Zenon DEF GiveSecondChance, SecondChance
<1>1. /\ cur = 1 /\ Running /\ o \in Slots /\ Entered - Len(file) = M
      /\ \A i \in Slots : mp[i].used /\ mp[i].dir = 1
  BY <1>0, Full, Zenon DEF Choosing
<1>2. /\ "A" \in pte[1][mp[o].va] /\ mp' = [mp EXCEPT ![o].time = timestamp]
      /\ pte' = [pte EXCEPT ![1][mp[o].va] = @ \ {"A"}]
  BY <1>1, Zenon DEF GiveSecondChance, SecondChance
<1> HIDE DEF o
<1>3. /\ mp \in [Slots -> MemEntry] /\ pte \in [Dirs -> [Pages -> SUBSET Flags]]
      /\ timestamp \in Nat /\ spins \in Nat
  BY Zenon DEF IInv, TypeOK
<1>4. \A i \in Slots : mp[i].va \in Pages BY <1>3, Zenon DEF MemEntry
<1>5. /\ mp' \in [Slots -> MemEntry]
      /\ \A i \in Slots : /\ mp'[i].used = mp[i].used /\ mp'[i].va = mp[i].va
                          /\ mp'[i].dir = mp[i].dir
                          /\ mp'[i].time = IF i = o THEN timestamp ELSE mp[i].time
  BY <1>2, <1>3, ZenonT(60) DEF MemEntry
<1>6. /\ pte' \in [Dirs -> [Pages -> SUBSET Flags]]
      /\ pte'[1][mp[o].va] = pte[1][mp[o].va] \ {"A"}
      /\ \A w \in Pages : w # mp[o].va => pte'[1][w] = pte[1][w]
  BY <1>1, <1>2, <1>3, <1>4, Zenon DEF Dirs
<1>7. TypeOK' BY SMTT(30), <1>0, <1>3, <1>5, <1>6 DEF IInv, TypeOK
<1>8. Entered' = Entered BY <1>0, Zenon DEF Entered
<1>9. \A w \in Pages : /\ "P" \in pte'[1][w] <=> "P" \in pte[1][w]
                       /\ "PG" \in pte'[1][w] <=> "PG" \in pte[1][w]
                       /\ pte[1][w] = {} => pte'[1][w] = {}
                       /\ {"U", "W"} \subseteq pte[1][w] => {"U", "W"} \subseteq pte'[1][w]
  BY <1>6, Zenon
<1>10. Tables(mp', fp', pte'[1], Entered', Len(file'))
  <2>1. /\ Entered \in Nat /\ Len(file) \in Nat /\ Tables(mp, fp, pte[1], Entered, Len(file))
        /\ \A i \in Slots : mp[i].va \in Pages /\ fp[i].va \in Pages
    BY Counts, Zenon DEF IInv
  <2>2. \A i \in Slots : mp'[i].used = mp[i].used /\ mp'[i].va = mp[i].va /\ mp'[i].dir = mp[i].dir
    BY <1>5, Zenon
  <2>3. \A w \in Pages : /\ "P" \in pte'[1][w] <=> "P" \in pte[1][w]
                         /\ "PG" \in pte'[1][w] <=> "PG" \in pte[1][w]
    BY <1>9, Zenon
  <2>4. Tables(mp', fp, pte'[1], Entered, Len(file)) BY <2>1, <2>2, <2>3, TablesKeep, Zenon
  <2> QED BY <2>4, <1>0, <1>8, Zenon
<1>11. Above' BY <1>0, <1>8, <1>9, Zenon DEF IInv, Above
<1>12. Running'
  <2>1. /\ Accessible(pte[1], guard, Entered)
        /\ Contents(fp, pte[1], data[1], file, expected, Entered)
    BY <1>1, Zenon DEF Running
  <2>2. Accessible(pte'[1], guard', Entered') BY <2>1, <1>0, <1>8, <1>9, Zenon DEF Accessible
  <2>3. Contents(fp', pte'[1], data'[1], file', expected', Entered')
    BY <2>1, <1>0, <1>8, <1>9, ZenonT(60) DEF Contents
  <2>4. pc = "swap" => /\ "PG" \notin pte'[1][loc'.a] /\ {"P", "U", "W"} \subseteq pte'[1][loc'.a]
    <3>1. pc = "swap" => loc.a \in Pages BY SMTT(30), <1>1, Sizes DEF Running, IInv, TypeOK
    <3> QED BY SMTT(30), <3>1, <1>0, <1>1, <1>9 DEF Running
  <2>5. pc = "handle_pf" => "P" \notin pte'[1][loc'.a]
    <3>1. pc = "handle_pf" => loc.a \in Pages BY <1>1, Sizes DEF Running, IInv, TypeOK
    <3> QED BY <3>1, <1>0, <1>1, <1>9, ZenonT(60) DEF Running
  <2> QED BY <2>2, <2>3, <2>4, <2>5, <1>0, <1>1, <1>8, Zenon DEF Running
<1>13. Ages' BY <1>0, Zenon DEF Ages
<1>14. Chances'
  <2> SUFFICES ASSUME NEW s \in 1 .. spins'
               PROVE  \E i \in Slots : /\ mp'[i].used /\ mp'[i].time = timestamp' - s
                                       /\ "A" \notin pte'[1][mp'[i].va]
    BY <1>0, Zenon DEF Chances
  <2>1. CASE s = 1 BY <2>1, <1>0, <1>1, <1>3, <1>5, <1>6
  <2>2. CASE s # 1
    <3>1. s - 1 \in 1 .. spins /\ timestamp - (s - 1) = timestamp' - s BY <2>2, <1>0, <1>3
    <3>2. PICK i \in Slots : mp[i].time = timestamp - (s - 1) /\ "A" \notin pte[1][mp[i].va]
      BY <3>1, Zenon DEF IInv, Chances
    <3>3. i # o BY <3>2, <1>2, Zenon
    <3>4. "A" \notin pte'[1][mp[i].va] BY <3>2, <1>4, <1>6, Zenon
    <3> QED BY <3>1, <3>2, <3>3, <3>4, <1>1, <1>5, Zenon
  <2> QED BY <2>1, <2>2, Zenon
<1> QED BY <1>0, <1>1, <1>7, <1>10, <1>11, <1>12, <1>13, <1>14 DEF IInv

(* The entry allocuvm() makes for the page it has just mapped. *)
LEMMA NewEntryIs ==
  ASSUME TypeOK, loc.a \in Pages
  PROVE  /\ NewEntry \in MemEntry /\ NewEntry.used /\ NewEntry.va = loc.a /\ NewEntry.dir = loc.dir
         /\ POLICY = "NFUA" => NewEntry.age = 0
<1>1. LoadAge \in 0 .. AllOnes /\ (POLICY = "NFUA" => LoadAge = 0) BY Sizes DEF LoadAge
<1>2. loc.dir \in Dirs /\ timestamp \in Nat BY Zenon DEF TypeOK
<1> QED BY <1>1, <1>2, Zenon DEF NewEntry, MemEntry

(* swap() writes its victim at the end of the file and gives the slot to   *)
(* the new page.                                                           *)
LEMMA SwapInv ==
  ASSUME Modest, IInv, Choosing, Swap, UNCHANGED <<POLICY, may>>
  PROVE  IInv'
<1> DEFINE i0 == Victim
           k == Len(file)
           n == Entered
           o == mp[i0].va
<1>0. pc = "swap" /\ i0 # -1 BY Zenon DEF Swap
<1>1. /\ cur = 1 /\ Running /\ n - k = M /\ \A i \in Slots : mp[i].used /\ mp[i].dir = 1
      /\ VictimTable = mp /\ i0 \in Slots
  BY <1>0, Full, ZenonT(60) DEF Choosing
<1>2. /\ n = loc.a /\ loc.a < loc.newsz /\ execs = 1 /\ loc.dir = 1 /\ loc.caller = "sbrk"
      /\ sz <= loc.a /\ "PG" \notin pte[1][n] /\ {"P", "U", "W"} \subseteq pte[1][n]
      /\ data[1][n] = expected[n] /\ Accessible(pte[1], guard, n)
      /\ Contents(fp, pte[1], data[1], file, expected, n)
  BY <1>0, <1>1 DEF Running, Entered
<1>3. /\ n \in Nat /\ k \in Nat /\ n < NPages /\ n \in Pages /\ k < M /\ k \in Slots
      /\ loc.newsz \in 0 .. NPages /\ loc.a \in 0 .. NPages
  <2>1. n \in Nat /\ k \in Nat BY Counts, Zenon DEF IInv
  <2>2. loc.newsz \in 0 .. NPages /\ loc.a \in 0 .. NPages BY Zenon DEF IInv, TypeOK
  <2>3. NPages <= 2 * M /\ NPages \in Nat /\ M \in Nat BY Sizes, Zenon DEF Modest
  <2>4. n < NPages /\ k < M
    <3>1. n - k = M /\ n = loc.a /\ loc.a < loc.newsz BY <1>1, <1>2, ZenonT(60)
    <3> HIDE DEF n, k
    <3> QED BY <2>1, <2>2, <2>3, <3>1
  <2> QED BY <2>1, <2>2, <2>4, Sizes
<1>4. next_free_i_in_file(fp) = k BY <1>3, Counts DEF IInv
<1>5. /\ mp \in [Slots -> MemEntry] /\ fp \in [Slots -> FileEntry]
      /\ pte \in [Dirs -> [Pages -> SUBSET Flags]] /\ data \in [Dirs -> [Pages -> 0 .. NPages]]
      /\ file \in Seq(0 .. NPages) /\ timestamp \in Nat
      /\ loc \in [dir : Dirs, a : 0 .. NPages, newsz : 0 .. NPages, oldsz : 0 .. NPages,
                  caller : Callers]
  BY Zenon DEF IInv, TypeOK
<1>6. o \in Pages /\ o < n /\ "P" \in pte[1][o] /\ "PG" \notin pte[1][o] /\ o # n
  <2>1. o \in Pages BY <1>1, <1>5, Zenon DEF MemEntry
  <2>2. o < n /\ "P" \in pte[1][o] /\ "PG" \notin pte[1][o] BY <1>1, Zenon DEF IInv, Tables, InMem
  <2> QED BY <2>1, <2>2, <1>3, Sizes
<1>7. /\ file' = [x \in 1 .. k + 1 |-> IF x = k + 1 THEN data[1][o] ELSE file[x]]
      /\ fp' = [fp EXCEPT ![k] = [used |-> TRUE, va |-> o, dir |-> 1]]
      /\ pte' = [pte EXCEPT ![1][o] = @ \cup {"A"}, ![1][o] = set_page_flags_in_disk(@)]
      /\ mp' = [mp EXCEPT ![i0] = NewEntry]
      /\ timestamp' = timestamp + 1 /\ loc' = [loc EXCEPT !.a = @ + 1] /\ pc' = "sbrk"
      /\ spins' = 0 /\ UNCHANGED <<cur, sz, data, expected, guard, execs, halt>>
  <2>1. /\ ~(k # -1 /\ k <= Len(file) /\ "P" \notin pte[cur][mp[i0].va])
        /\ ~(k = -1 \/ k > Len(file)) /\ mp[i0].dir = 1
    BY <1>1, <1>3, <1>6
  <2>2. file' = [x \in 1 .. k + 1 |-> IF x = k + 1 THEN data[1][o] ELSE file[x]]
    <3> DEFINE j == next_free_i_in_file(fp)
               old == VictimTable[Victim]
    <3>1. ~(j # -1 /\ j <= Len(file) /\ "P" \notin pte[cur][old.va]) /\ ~(j = -1 \/ j > Len(file))
      BY <2>1, <1>1, <1>4, Zenon
    <3>2. file' = [x \in 1 .. (IF j = Len(file) THEN j + 1 ELSE Len(file)) |->
                     IF x = j + 1 THEN data[cur][old.va] ELSE file[x]]
      BY <3>1, Zenon DEF Swap
    <3>3. j = k /\ old.va = o BY <1>1, <1>4, Zenon
    <3> HIDE DEF j, old, o, k
    <3>4. k = Len(file) BY Zenon DEF k
    <3> QED BY <3>2, <3>3, <3>4, <1>1, Zenon
  <2>4. fp' = [fp EXCEPT ![k] = [used |-> TRUE, va |-> mp[i0].va, dir |-> mp[i0].dir]]
    BY <2>1, <1>1, <1>4, Zenon DEF Swap
  <2>5. pte' = [pte EXCEPT ![cur][mp[i0].va] = @ \cup {"A"},
                              ![mp[i0].dir][mp[i0].va] = set_page_flags_in_disk(@)]
    BY <2>1, <1>1, <1>4, Zenon DEF Swap
  <2>6. mp' = [mp EXCEPT ![i0] = NewEntry]
    BY <2>1, <1>1, <1>4, Zenon DEF Swap
  <2>3. /\ timestamp' = timestamp + 1 /\ loc' = [loc EXCEPT !.a = @ + 1] /\ pc' = loc.caller
        /\ spins' = 0 /\ UNCHANGED <<cur, sz, data, expected, guard, execs, halt>>
    BY <2>1, <1>1, <1>4, Zenon DEF Swap
  <2> QED BY <2>1, <2>2, <2>3, <2>4, <2>5, <2>6, <1>1, <1>2, Zenon
<1>8. k = Len(file) /\ n = Entered /\ Tables(mp, fp, pte[1], n, k) BY Zenon DEF IInv
<1>9. /\ NewEntry \in MemEntry /\ NewEntry.used /\ NewEntry.va = n /\ NewEntry.dir = 1
      /\ POLICY = "NFUA" => NewEntry.age = 0
  BY <1>2, <1>3, NewEntryIs, Zenon DEF IInv
<1> HIDE DEF i0, k, n, o
<1>10. /\ mp' \in [Slots -> MemEntry] /\ fp' \in [Slots -> FileEntry]
       /\ mp'[i0] = NewEntry /\ \A i \in Slots : i # i0 => mp'[i] = mp[i]
       /\ fp'[k].used /\ fp'[k].va = o /\ fp'[k].dir = 1
       /\ \A i \in Slots : i # k => fp'[i] = fp[i]
  BY <1>1, <1>3, <1>5, <1>6, <1>7, <1>9, Zenon DEF FileEntry, Dirs
<1>11. /\ pte' \in [Dirs -> [Pages -> SUBSET Flags]]
       /\ pte'[1][o] = (pte[1][o] \cup {"A", "PG"}) \ {"P"}
       /\ \A w \in Pages : w # o => pte'[1][w] = pte[1][w]
  BY <1>5, <1>6, <1>7 DEF set_page_flags_in_disk, Dirs, Flags
<1>12. /\ file' \in Seq(0 .. NPages) /\ Len(file') = k + 1 /\ file'[k + 1] = data[1][o]
       /\ \A x \in 1 .. k : file'[x] = file[x]
  <2>1. data[1][o] \in 0 .. NPages BY <1>5, <1>6, Zenon DEF Dirs
  <2>2. \A x \in 1 .. Len(file) : file[x] \in 0 .. NPages BY <1>5, SeqElements, Zenon
  <2>3. \A x \in 1 .. k + 1 : x # k + 1 => x \in 1 .. Len(file) BY <1>3, <1>8
  <2>4. file' \in [1 .. k + 1 -> 0 .. NPages] BY <2>1, <2>2, <2>3, <1>7, Zenon
  <2>5. file' \in Seq(0 .. NPages) /\ Len(file') = k + 1
    <3>1. k + 1 \in Nat BY <1>3
    <3> QED BY <3>1, <2>4, SeqOf, Zenon
  <2>6. file'[k + 1] = data[1][o] /\ \A x \in 1 .. k : file'[x] = file[x] BY <1>3, <1>7
  <2> QED BY <2>5, <2>6, Zenon
<1>13. /\ loc'.a = n + 1 /\ loc'.dir = 1 /\ loc'.caller = "sbrk" /\ loc'.newsz = loc.newsz
       /\ loc' \in [dir : Dirs, a : 0 .. NPages, newsz : 0 .. NPages, oldsz : 0 .. NPages,
                    caller : Callers]
  <2>1. n + 1 \in 0 .. NPages BY <1>3, Sizes
  <2>2. loc.a + 1 \in 0 .. NPages BY <2>1, <1>2, Zenon
  <2> QED BY <2>2, <1>2, <1>5, <1>7, Zenon
<1>14. TypeOK'
  <2>1. k + 1 <= MAX_PSYC_PAGES /\ timestamp + 1 \in Nat BY <1>3, <1>5, Sizes DEF M
  <2> QED BY <2>1, <1>7, <1>10, <1>11, <1>12, <1>13, Zenon DEF IInv, TypeOK, PCs
<1>15. Entered' = n + 1 BY <1>2, <1>7, <1>13 DEF Entered
<1>16. Tables(mp', fp', pte'[1], Entered', Len(file'))
  <2>1. \A i \in Slots : mp[i].va \in Pages /\ fp[i].va \in Pages
    BY <1>5, Zenon DEF MemEntry, FileEntry
  <2>2. /\ "PG" \in pte'[1][o] /\ "P" \notin pte'[1][o]
        /\ "P" \in pte'[1][n] /\ "PG" \notin pte'[1][n]
    BY <1>2, <1>3, <1>6, <1>11, Zenon
  <2>3. mp[i0].used /\ mp[i0].va = o BY <1>1, Zenon DEF o
  <2>4. mp'[i0].used /\ mp'[i0].va = n /\ mp'[i0].dir = 1 BY <1>9, <1>10, Zenon
  <2>5. Tables(mp', fp', pte'[1], Entered', Len(file'))
    <3>1. fp'[k].used /\ fp'[k].va = mp[i0].va /\ fp'[k].dir = 1 BY <2>3, <1>10, Zenon
    <3>2. \A w \in Pages : w # mp[i0].va /\ w # n => pte'[1][w] = pte[1][w] BY <2>3, <1>11, Zenon
    <3>3. "PG" \in pte'[1][mp[i0].va] /\ "P" \notin pte'[1][mp[i0].va] BY <2>2, <2>3, Zenon
    <3>4. /\ \A i \in Slots : i # i0 => mp'[i] = mp[i]
          /\ \A i \in Slots : i # k => fp'[i] = fp[i]
      BY <1>10, Zenon
    <3>5. n \in Nat /\ k \in Nat /\ n - k = M /\ k < M /\ i0 \in Slots BY <1>1, <1>3, Zenon
    <3>6. Entered' = n + 1 /\ Len(file') = k + 1 BY <1>12, <1>15, Zenon
    <3>7. Swapped(mp, fp, pte[1], n, k, i0, mp', fp', pte'[1])
      BY <3>1, <3>2, <3>3, <3>4, <3>5, <2>1, <2>2, <2>3, <2>4, Zenon DEF Swapped
    <3>8. Tables(mp', fp', pte'[1], n + 1, k + 1) BY <3>7, <1>8, TablesSwap, Zenon
    <3> QED BY <3>6, <3>8, Zenon
  <2> QED BY <2>5, Zenon
<1>17. Above'
  <2>1. \A w \in Pages : w >= n /\ w # n => pte[1][w] = {} BY <1>2, <1>8, Zenon DEF IInv, Above
  <2>2. \A w \in Pages : w >= n + 1 => w >= n /\ w # n /\ w # o BY <1>3, <1>6, Sizes
  <2> QED BY <2>1, <2>2, <1>11, <1>15, Zenon DEF Above
<1>18. Accessible(pte'[1], guard', Entered')
  <2>1. \A w \in Pages : w < n + 1 => w < n \/ w = n BY <1>3, Sizes
  <2> QED BY <2>1, <1>2, <1>6, <1>7, <1>11, <1>15 DEF Accessible
<1>19. Contents(fp', pte'[1], data'[1], file', expected', Entered')
  <2>1. \A w \in Pages : w < n + 1 /\ "P" \in pte'[1][w] => data[1][w] = expected[w]
    <3>1. \A w \in Pages : w < n + 1 => w < n \/ w = n BY <1>3, Sizes
    <3> QED BY <3>1, <1>2, <1>11, Zenon DEF Contents
  <2>2. ASSUME NEW i \in Slots, fp'[i].used PROVE file'[i + 1] = expected[fp'[i].va]
    <3>1. CASE i = k BY <3>1, <1>2, <1>6, <1>10, <1>12, Zenon DEF Contents
    <3>2. CASE i # k
      <4>1. fp[i].used /\ fp'[i] = fp[i] BY <3>2, <2>2, <1>10, Zenon
      <4>2. i + 1 \in 1 .. k BY SMTT(30), <4>1, <1>3, <1>8, Sizes DEF Tables, Front
      <4> QED BY <4>1, <4>2, <1>2, <1>12 DEF Contents
    <3> QED BY <3>1, <3>2, Zenon
  <2> QED BY <2>1, <2>2, <1>7, <1>15, Zenon DEF Contents
<1>20. Running'
  <2>1. guard = ImagePages BY <1>1, Zenon DEF Running
  <2>2. sz \in Nat BY Sizes DEF IInv, TypeOK
  <2>3. sz' <= loc'.a /\ loc'.a <= loc'.newsz
    <3>1. sz <= n /\ n < loc.newsz BY <1>2, Zenon
    <3>2. loc.newsz \in Nat BY <1>3
    <3> QED BY <3>1, <3>2, <2>2, <1>3, <1>7, <1>13
  <2> QED BY <2>1, <2>3, <1>2, <1>7, <1>13, <1>18, <1>19, Zenon DEF Running
<1>21. Ages' BY <1>1, <1>9, <1>10, Zenon DEF Ages
<1>22. Chances' BY <1>7 DEF Chances
<1>23. halt' = "no" /\ cur' = 1 BY <1>1, <1>7, Zenon DEF IInv
<1> QED BY <1>23, <1>14, <1>16, <1>17, <1>20, <1>21, <1>22 DEF IInv

(* handle_pf() with its victim: the page is where the lookup finds it, and *)
(* the victim takes its place in the file.                                 *)
LEMMA HandlePfInv ==
  ASSUME Modest, IInv, Choosing, HandlePf, UNCHANGED <<POLICY, may>>
  PROVE  IInv'
<1> DEFINE i0 == Victim
           v == loc.a
           n == Entered
           o == mp[i0].va
<1>0. pc = "handle_pf" /\ i0 # -1 BY Zenon DEF HandlePf
<1>1. /\ cur = 1 /\ Running /\ n - Len(file) = M
      /\ \A i \in Slots : mp[i].used /\ mp[i].dir = 1
      /\ VictimTable = mp /\ i0 \in Slots
  BY <1>0, Full, ZenonT(60) DEF Choosing
<1>2. /\ n = sz /\ execs = 1 /\ v < n /\ v # guard /\ "P" \notin pte[1][v] /\ guard = ImagePages
      /\ Accessible(pte[1], guard, n) /\ Contents(fp, pte[1], data[1], file, expected, n)
  BY SMTT(30), <1>0, <1>1 DEF Running, Entered
<1>3. n \in Nat /\ v \in Pages /\ n <= NPages BY <1>2, Counts, Sizes DEF IInv, TypeOK
<1>4. /\ mp \in [Slots -> MemEntry] /\ fp \in [Slots -> FileEntry]
      /\ pte \in [Dirs -> [Pages -> SUBSET Flags]] /\ data \in [Dirs -> [Pages -> 0 .. NPages]]
      /\ file \in Seq(0 .. NPages) /\ timestamp \in Nat
      /\ Tables(mp, fp, pte[1], n, Len(file))
  BY Zenon DEF IInv, TypeOK
<1>5. \A i \in Slots : mp[i].va \in Pages /\ fp[i].va \in Pages BY <1>4, Zenon DEF MemEntry, FileEntry
<1>6. o \in Pages /\ o < n /\ "P" \in pte[1][o] /\ o # v
  BY <1>1, <1>2, <1>4, <1>5, Zenon DEF Tables, InMem
<1>7. PICK h \in Slots : fp[h].used /\ fp[h].va = v
  BY <1>2, <1>3, <1>4, Zenon DEF Tables, Covered, InMem
<1>8. h < Len(file) /\ h + 1 \in 1 .. Len(file) /\ Len(file) \in Nat
  <2>1. Len(file) \in Nat BY <1>4, SeqElements, Zenon
  <2>2. h < Len(file) BY <1>4, <1>7, Zenon DEF Tables, Front
  <2> QED BY <2>1, <2>2, Sizes
<1>9. get_i_of_va_in_file(fp, v) = h
  <2>1. /\ \A i \in Slots : fp[i].used <=> i < Len(file)
        /\ \A i, j \in Slots : fp[i].used /\ fp[j].used /\ fp[i].va = fp[j].va => i = j
    BY <1>4, Zenon DEF Tables, Front, Distinct
  <2>2. get_i_of_va_in_file(fp, fp[h].va) = h BY <2>1, <1>7, <1>8, Lookup, Zenon
  <2> QED BY <2>2, <1>7, Zenon
<1>10. fp[h].dir = 1 BY <1>4, <1>7, Zenon DEF Tables, InFile
<1> DEFINE loaded == [pte EXCEPT ![1][v] = set_page_flags_in_mem(@) \cup {"A"}]
<1>11. /\ loaded \in [Dirs -> [Pages -> SUBSET Flags]]
       /\ loaded[1][v] = ((pte[1][v] \cup {"P", "W", "U"}) \ {"PG"}) \cup {"A"}
       /\ \A w \in Pages : w # v => loaded[1][w] = pte[1][w]
  BY <1>3, <1>4, Zenon DEF set_page_flags_in_mem, Dirs, Flags
<1>12. /\ mp' = [mp EXCEPT ![i0] = [used |-> fp[h].used, va |-> fp[h].va, dir |-> fp[h].dir,
                                    time |-> timestamp, age |-> LoadAge]]
       /\ fp' = [fp EXCEPT ![h] = [used |-> TRUE, va |-> o, dir |-> mp[i0].dir]]
       /\ file' = [file EXCEPT ![h + 1] = data[cur][o]]
       /\ pte' = [loaded EXCEPT ![mp[i0].dir][o] = set_page_flags_in_disk(@)]
       /\ data' = [data EXCEPT ![cur][v] = file[h + 1]]
       /\ timestamp' = timestamp + 1 /\ pc' = "user" /\ spins' = 0
       /\ UNCHANGED <<cur, sz, expected, guard, loc, execs, halt>>
  <2>1. ~(h = -1 \/ h >= Len(file)) BY SMTT(30), <1>8, Sizes
  <2>2. ~(TRUE /\ "P" \notin loaded[cur][mp[i0].va]) BY <1>1, <1>6, <1>11
  <2>3. LoadPage(mp, pte, v, i0, TRUE) BY <1>1, Zenon DEF HandlePf
  <2> QED BY <2>1, <2>2, <2>3, <1>1, <1>9, Zenon DEF LoadPage
<1>13. n = Entered /\ o = mp[i0].va /\ v = loc.a BY Zenon
<1> HIDE DEF loaded, i0, v, n, o
<1>14. LoadAge \in 0 .. AllOnes /\ (POLICY = "NFUA" => LoadAge = 0) BY Sizes DEF LoadAge
<1>15. /\ mp' \in [Slots -> MemEntry] /\ fp' \in [Slots -> FileEntry]
       /\ mp'[i0].used /\ mp'[i0].va = v /\ mp'[i0].dir = 1 /\ mp'[i0].age = LoadAge
       /\ \A i \in Slots : i # i0 => mp'[i] = mp[i]
       /\ fp'[h].used /\ fp'[h].va = o /\ fp'[h].dir = 1
       /\ \A i \in Slots : i # h => fp'[i] = fp[i]
  BY <1>1, <1>3, <1>4, <1>6, <1>7, <1>10, <1>12, <1>14, Zenon DEF MemEntry, FileEntry, Dirs
<1>16. /\ pte' \in [Dirs -> [Pages -> SUBSET Flags]]
       /\ pte'[1][o] = (pte[1][o] \cup {"PG"}) \ {"P"}
       /\ pte'[1][v] = loaded[1][v]
       /\ \A w \in Pages : w # o /\ w # v => pte'[1][w] = pte[1][w]
  BY <1>1, <1>3, <1>6, <1>11, <1>12, ZenonT(60) DEF set_page_flags_in_disk, Dirs, Flags
<1>17. data[1][o] \in 0 .. NPages /\ file[h + 1] \in 0 .. NPages
  BY <1>4, <1>6, <1>8, SeqElements, Zenon DEF Dirs
<1>18. /\ file' \in Seq(0 .. NPages) /\ Len(file') = Len(file) /\ file'[h + 1] = data[1][o]
       /\ \A x \in 1 .. Len(file) : x # h + 1 => file'[x] = file[x]
  BY <1>1, <1>4, <1>8, <1>12, <1>17
<1>19. /\ data' \in [Dirs -> [Pages -> 0 .. NPages]] /\ data'[1][v] = file[h + 1]
       /\ \A w \in Pages : w # v => data'[1][w] = data[1][w]
  BY <1>1, <1>3, <1>4, <1>12, <1>17, Zenon DEF Dirs
<1>20. TypeOK'
  <2>1. timestamp + 1 \in Nat BY SMTT(30), <1>4
  <2> QED BY <2>1, <1>12, <1>15, <1>16, <1>18, <1>19, Zenon DEF IInv, TypeOK, PCs
<1>21. Entered' = n BY <1>2, <1>12 DEF Entered
<1>22. Tables(mp', fp', pte'[1], Entered', Len(file'))
  <2>1. "PG" \in pte'[1][o] /\ "P" \notin pte'[1][o] /\ "P" \in pte'[1][v] /\ "PG" \notin pte'[1][v]
    BY <1>11, <1>16, Zenon
  <2>2. Exchanged(mp, fp, pte[1], i0, h, mp', fp', pte'[1])
    BY <2>1, <1>1, <1>5, <1>7, <1>13, <1>15, <1>16, ZenonT(60) DEF Exchanged
  <2>3. Tables(mp', fp', pte'[1], n, Len(file)) BY <2>2, <1>3, <1>4, <1>8, TablesExchange, Zenon
  <2> QED BY <2>3, <1>18, <1>21, Zenon
<1>23. Above'
  <2>1. \A w \in Pages : w >= n => pte[1][w] = {} BY <1>0, <1>13, ZenonT(60) DEF IInv, Above
  <2>2. \A w \in Pages : w >= n => w # o /\ w # v BY <1>2, <1>3, <1>6, Sizes
  <2> QED BY <2>1, <2>2, <1>16, <1>21, Zenon DEF Above
<1>24. Accessible(pte'[1], guard', Entered')
  BY <1>2, <1>11, <1>12, <1>16, <1>21, ZenonT(60) DEF Accessible
<1>25. Contents(fp', pte'[1], data'[1], file', expected', Entered')
  <2>1. ASSUME NEW w \in Pages, w < n, "P" \in pte'[1][w] PROVE data'[1][w] = expected[w]
    <3>1. CASE w = v BY <3>1, <1>2, <1>7, <1>19, Zenon DEF Contents
    <3>2. CASE w # v
      <4>1. w # o BY <2>1, <1>16, Zenon
      <4>2. "P" \in pte[1][w] BY <4>1, <3>2, <2>1, <1>16, Zenon
      <4> QED BY <4>2, <3>2, <2>1, <1>2, <1>19, Zenon DEF Contents
    <3> QED BY <3>1, <3>2, Zenon
  <2>2. ASSUME NEW i \in Slots, fp'[i].used PROVE file'[i + 1] = expected[fp'[i].va]
    <3>1. CASE i = h BY <3>1, <1>2, <1>6, <1>15, <1>18, ZenonT(60) DEF Contents
    <3>2. CASE i # h
      <4>1. fp[i].used /\ fp'[i] = fp[i] BY <3>2, <2>2, <1>15, Zenon
      <4>2. i < Len(file) BY <4>1, <1>4, Zenon DEF Tables, Front
      <4>3. i + 1 \in 1 .. Len(file) /\ i + 1 # h + 1 BY <4>2, <3>2, <1>8, Sizes
      <4> QED BY <4>1, <4>3, <1>2, <1>18 DEF Contents
    <3> QED BY <3>1, <3>2, Zenon
  <2> QED BY <2>1, <2>2, <1>12, <1>21 DEF Contents
<1>26. Running' BY <1>2, <1>12, <1>24, <1>25, Zenon DEF Running
<1>27. Ages' BY <1>1, <1>14, <1>15, ZenonT(60) DEF Ages
<1>28. Chances' BY <1>12 DEF Chances
<1>29. halt' = "no" /\ cur' = 1 BY <1>1, <1>12, Zenon DEF IInv
<1> QED BY <1>20, <1>22, <1>23, <1>26, <1>27, <1>28, <1>29 DEF IInv

(* allocuvm() maps a page and enters it in a free slot; when there is none *)
(* it calls swap(), which exec() never needs.                              *)
LEMMA AllocPageInv ==
  ASSUME Modest, IInv, AllocPage, UNCHANGED <<POLICY, may>>
  PROVE  IInv'
<1> DEFINE n == Entered
<1>0. pc \in {"exec_text", "exec_stack", "sbrk"} /\ loc.a < loc.newsz BY Zenon DEF AllocPage, Callers
<1>1. /\ execs = 1 /\ n = loc.a /\ loc.dir = 1
      /\ cur = 0 => Loading /\ pc \in {"exec_text", "exec_stack"} /\ n + 1 <= M /\ Len(file) = 0
      /\ cur = 1 => Running /\ pc = "sbrk"
      /\ cur \in {0, 1} /\ execs # 0
  <2>1. cur \in {0, 1} BY Zenon DEF IInv, TypeOK, Dirs
  <2>2. CASE cur = 0
    <3>1. Loading BY <2>2, Zenon DEF IInv
    <3>2. /\ pc \in {"exec_text", "exec_stack"} /\ execs # 0 /\ loc.dir = 1 /\ Len(file) = 0
          /\ loc.newsz = ImagePages \/ loc.newsz = ImagePages + 2
      BY <3>1, <1>0, Zenon DEF Loading
    <3>3. execs = 1 BY <3>2, Plain, Zenon DEF IInv
    <3>4. n = loc.a BY <3>2, <1>0, Zenon DEF Entered
    <3>5. loc.a \in Nat /\ loc.newsz \in Nat /\ ImagePages + 2 <= M BY Sizes DEF IInv, TypeOK, Modest
    <3>6. n + 1 <= M BY <3>2, <3>4, <3>5, <1>0, Sizes
    <3> QED BY <2>2, <3>1, <3>2, <3>3, <3>4, <3>6, Zenon
  <2>3. CASE cur = 1
    <3>1. Running BY <2>3, Zenon DEF IInv
    <3>2. pc = "sbrk" /\ execs = 1 /\ loc.dir = 1 BY <3>1, <1>0, Zenon DEF Running
    <3> QED BY <2>3, <3>1, <3>2 DEF Entered
  <2> QED BY <2>1, <2>2, <2>3, Zenon
<1>2. /\ n \in Nat /\ n \in Pages /\ n + 1 \in 0 .. NPages /\ loc.newsz \in Nat /\ sz \in Nat
  <2>1. loc.a \in 0 .. NPages /\ loc.newsz \in 0 .. NPages /\ sz \in 0 .. NPages BY Zenon DEF IInv, TypeOK
  <2> QED BY <2>1, <1>0, <1>1, Sizes
<1>3. \A w \in Pages : w >= n => pte[1][w] = {} BY <1>0, Zenon DEF IInv, Above
<1>4. pte[1][n] = {} BY <1>2, <1>3
<1>5. /\ pte' = [pte EXCEPT ![1][n] = {"P", "W", "U"}]
      /\ data' = [data EXCEPT ![1][n] = 0]
      /\ expected' = IF pc = "sbrk" THEN [expected EXCEPT ![n] = 0] ELSE expected
      /\ UNCHANGED <<cur, sz, fp, file, guard, spins, execs, halt>>
  BY <1>1, <1>4, Zenon DEF AllocPage
<1>6. /\ next_free_i_in_mem(mp) = -1 => pc' = "swap" /\ UNCHANGED <<mp, timestamp, loc>>
      /\ next_free_i_in_mem(mp) # -1 =>
           /\ mp' = [mp EXCEPT ![next_free_i_in_mem(mp)] = NewEntry]
           /\ timestamp' = timestamp + 1 /\ loc' = [loc EXCEPT !.a = @ + 1] /\ pc' = pc
  <2>1. POLICY # "AQ" BY Plain, Zenon DEF IInv
  <2> QED BY <2>1, <1>1, <1>4, Zenon DEF AllocPage
<1>7. /\ pte \in [Dirs -> [Pages -> SUBSET Flags]] /\ data \in [Dirs -> [Pages -> 0 .. NPages]]
      /\ expected \in [Pages -> 0 .. NPages] /\ mp \in [Slots -> MemEntry] /\ timestamp \in Nat
      /\ loc \in [dir : Dirs, a : 0 .. NPages, newsz : 0 .. NPages, oldsz : 0 .. NPages,
                  caller : Callers]
      /\ Tables(mp, fp, pte[1], n, Len(file)) /\ n = Entered
  BY Zenon DEF IInv, TypeOK
<1> HIDE DEF n
<1>8. /\ pte' \in [Dirs -> [Pages -> SUBSET Flags]] /\ pte'[1][n] = {"P", "W", "U"}
      /\ \A w \in Pages : w # n => pte'[1][w] = pte[1][w]
  BY <1>2, <1>5, <1>7, Zenon DEF Dirs, Flags
<1>9. /\ data' \in [Dirs -> [Pages -> 0 .. NPages]] /\ data'[1][n] = 0
      /\ \A w \in Pages : w # n => data'[1][w] = data[1][w]
  <2>1. 0 \in 0 .. NPages BY Sizes
  <2> QED BY <2>1, <1>2, <1>5, <1>7, Zenon DEF Dirs
<1>10. /\ expected' \in [Pages -> 0 .. NPages] /\ (pc = "sbrk" => expected'[n] = 0)
       /\ \A w \in Pages : w # n => expected'[w] = expected[w]
  <2>1. 0 \in 0 .. NPages BY Sizes
  <2> QED BY <2>1, <1>2, <1>5, <1>7, Zenon
<1>11. \A w \in Pages : w < n => w # n BY <1>2, Sizes
<1>12. cur = 1 => /\ Contents(fp', pte'[1], data'[1], file', expected', n)
                  /\ Accessible(pte'[1], guard', n) /\ data'[1][n] = expected'[n]
  <2> SUFFICES ASSUME cur = 1
               PROVE  /\ Contents(fp', pte'[1], data'[1], file', expected', n)
                      /\ Accessible(pte'[1], guard', n) /\ data'[1][n] = expected'[n]
    BY Zenon
  <2>1. Contents(fp, pte[1], data[1], file, expected, n) /\ Accessible(pte[1], guard, n) /\ pc = "sbrk"
    BY <1>1, <1>7, Zenon DEF Running
  <2>2. \A i \in Slots : fp[i].used => fp[i].va \in Pages /\ fp[i].va # n
    <3>1. \A i \in Slots : fp[i].va \in Pages BY Counts, ZenonT(60) DEF IInv
    <3> QED BY <3>1, <1>7, <1>11, Zenon DEF Tables, InFile
  <2>3. Contents(fp', pte'[1], data'[1], file', expected', n)
    BY SMTT(30), <2>1, <2>2, <1>5, <1>8, <1>9, <1>10, <1>11 DEF Contents
  <2>4. Accessible(pte'[1], guard', n) BY SMTT(30), <2>1, <1>5, <1>8, <1>11 DEF Accessible
  <2> QED BY <2>1, <2>3, <2>4, <1>9, <1>10, Zenon
<1>13. CASE next_free_i_in_mem(mp) = -1
  <2>1. n - Len(file) = M
    <3>1. /\ next_free_i_in_mem(mp) = IF n - Len(file) = M THEN -1 ELSE n - Len(file)
          /\ n - Len(file) \in Nat
      BY <1>7, Counts, Zenon DEF IInv
    <3> QED BY <3>1, <1>13
  <2>2. cur = 1 /\ Running /\ pc = "sbrk"
    <3>1. cur = 0 => n - Len(file) # M BY <1>1, <1>2, Sizes
    <3> QED BY <3>1, <2>1, <1>1, Zenon
  <2>3. pc' = "swap" /\ UNCHANGED <<mp, timestamp, loc>> BY <1>6, <1>13, Zenon
  <2>4. TypeOK' BY <2>3, <1>5, <1>8, <1>9, <1>10, Zenon DEF IInv, TypeOK, PCs
  <2>5. Entered' = n BY <2>3, <1>1, <1>5, Zenon DEF Entered
  <2>6. Tables(mp', fp', pte'[1], Entered', Len(file'))
    <3>1. \A w \in Pages : w < n => /\ "P" \in pte'[1][w] <=> "P" \in pte[1][w]
                                    /\ "PG" \in pte'[1][w] <=> "PG" \in pte[1][w]
      BY <1>8, <1>11, Zenon
    <3>2. Len(file) \in Nat /\ \A i \in Slots : mp[i].va \in Pages /\ fp[i].va \in Pages
      BY Counts, Zenon DEF IInv
    <3>3. Tables(mp, fp, pte'[1], n, Len(file)) BY <3>1, <3>2, <1>2, <1>7, TablesKeep, Zenon
    <3> QED BY <3>3, <2>3, <2>5, <1>5, Zenon
  <2>7. Above'
    <3>1. \A w \in Pages : w >= Entered' /\ w # loc'.a => pte'[1][w] = {}
      BY <2>3, <2>5, <1>1, <1>3, <1>7, <1>8, Zenon
    <3> QED BY <3>1, <2>3, Zenon DEF Above
  <2>8. Running'
    <3>1. guard = ImagePages /\ sz <= loc.a BY <2>2, Zenon DEF Running
    <3>2. Entered' - Len(file') = M BY <2>1, <2>5, <1>5, ZenonT(60)
    <3>3. /\ "PG" \notin pte'[1][loc'.a] /\ {"P", "U", "W"} \subseteq pte'[1][loc'.a]
          /\ data'[1][loc'.a] = expected'[loc'.a]
      BY <2>2, <2>3, <1>1, <1>8, <1>12
    <3>4. loc.caller = "sbrk" /\ loc.a <= loc.newsz BY <2>2, Zenon DEF Running
    <3>5. Contents(fp', pte'[1], data'[1], file', expected', Entered') /\ Accessible(pte'[1], guard', Entered')
      BY <2>2, <2>5, <1>12, Zenon
    <3> QED BY <3>1, <3>2, <3>3, <3>4, <3>5, <2>3, <1>0, <1>1, <1>5, Zenon DEF Running
  <2>9. Ages' BY <2>3, <2>5, <1>0, <1>7, Zenon DEF IInv, Ages
  <2>10. Chances'
    <3>1. spins' = 0 BY <1>0, <1>5, Zenon DEF IInv, Chances
    <3> QED BY <3>1 DEF Chances
  <2>11. halt' = "no" /\ cur' = 1 BY <2>2, <1>5, Zenon DEF IInv
  <2> QED BY SMTT(30), <2>4, <2>6, <2>7, <2>8, <2>9, <2>10, <2>11 DEF IInv
<1>14. CASE next_free_i_in_mem(mp) # -1
  <2>1. Len(file) = 0 /\ n < M /\ next_free_i_in_mem(mp) = n /\ n \in Slots
    <3>1. /\ next_free_i_in_mem(mp) = IF n - Len(file) = M THEN -1 ELSE n - Len(file)
          /\ n - Len(file) \in Nat /\ n - Len(file) <= M /\ Len(file) \in Nat
      BY <1>7, Counts, Zenon DEF IInv
    <3>2. n - Len(file) # M BY <3>1, <1>14, Zenon
    <3>3. Len(file) = 0 BY <3>2, <1>7, Zenon DEF Tables, Front
    <3> QED BY <3>1, <3>2, <3>3, <1>2, Sizes
  <2>2. /\ mp' = [mp EXCEPT ![n] = NewEntry] /\ timestamp' = timestamp + 1
        /\ loc' = [loc EXCEPT !.a = @ + 1] /\ pc' = pc
    BY <2>1, <1>6, <1>14, Zenon
  <2>3. /\ NewEntry \in MemEntry /\ NewEntry.used /\ NewEntry.va = n /\ NewEntry.dir = 1
        /\ POLICY = "NFUA" => NewEntry.age = 0
    BY <1>1, <1>2, NewEntryIs, Zenon DEF IInv
  <2>4. /\ mp' \in [Slots -> MemEntry] /\ mp'[n] = NewEntry
        /\ \A i \in Slots : i # n => mp'[i] = mp[i]
    BY <2>1, <2>2, <2>3, <1>7, Zenon
  <2>5. /\ loc' \in [dir : Dirs, a : 0 .. NPages, newsz : 0 .. NPages, oldsz : 0 .. NPages,
                     caller : Callers]
        /\ loc'.a = n + 1 /\ loc'.dir = 1 /\ loc'.newsz = loc.newsz /\ loc'.caller = loc.caller
    <3>1. loc.a + 1 \in 0 .. NPages BY <1>1, <1>2, Zenon
    <3> QED BY <3>1, <2>2, <1>1, <1>7, Zenon
  <2>6. TypeOK'
    <3>1. timestamp + 1 \in Nat BY <1>7
    <3> QED BY <3>1, <2>2, <2>4, <2>5, <1>5, <1>8, <1>9, <1>10, ZenonT(60) DEF IInv, TypeOK
  <2>7. Entered' = n + 1 BY <2>2, <2>5, <1>0, <1>1, <1>5, Zenon DEF Entered
  <2>8. Tables(mp', fp', pte'[1], Entered', Len(file'))
    <3>1. \A i \in Slots : mp[i].va \in Pages /\ fp[i].va \in Pages BY Counts, Zenon DEF IInv
    <3>2. /\ \A w \in Pages : w < n => pte'[1][w] = pte[1][w]
          /\ "P" \in pte'[1][n] /\ "PG" \notin pte'[1][n]
      BY <1>8, <1>11, Zenon
    <3>3. Added(mp, fp, pte[1], n, mp', pte'[1])
      BY <3>1, <3>2, <2>1, <2>3, <2>4, <1>2, Zenon DEF Added
    <3>4. Tables(mp, fp, pte[1], n, 0) BY <2>1, <1>7, Zenon
    <3>5. Tables(mp', fp, pte'[1], n + 1, 0) BY <3>3, <3>4, TablesAdd, Zenon
    <3> QED BY <3>5, <2>1, <2>7, <1>5, Zenon
  <2>9. Above'
    <3>1. \A w \in Pages : w >= n + 1 => w >= n /\ w # n BY <1>2, Sizes
    <3> QED BY <3>1, <2>7, <1>3, <1>8, Zenon DEF Above
  <2>10. \A w \in Pages : w < n + 1 => w < n \/ w = n BY <1>2, Sizes
  <2>11. loc'.a <= loc'.newsz BY <2>5, <1>0, <1>1, <1>2
  <2>12. cur = 1 => Running'
    <3> SUFFICES ASSUME cur = 1 PROVE Running' BY Zenon
    <3>1. Running /\ pc = "sbrk" BY <1>1, Zenon
    <3>2. guard = ImagePages /\ loc.caller = "sbrk" /\ sz <= loc.a BY <3>1, Zenon DEF Running
    <3>3. Contents(fp', pte'[1], data'[1], file', expected', n + 1)
      BY <2>10, <1>12, Zenon DEF Contents
    <3>4. Accessible(pte'[1], guard', n + 1) BY <2>10, <1>8, <1>12, Zenon DEF Accessible
    <3>5. sz' <= loc'.a BY <3>2, <2>5, <1>1, <1>2, <1>5
    <3> QED BY <3>1, <3>2, <3>3, <3>4, <3>5, <2>2, <2>5, <2>7, <2>11, <1>1, <1>5, Zenon DEF Running
  <2>13. cur = 0 => Loading'
    <3> SUFFICES ASSUME cur = 0 PROVE Loading' BY Zenon
    <3>1. Loading /\ pc \in {"exec_text", "exec_stack"} BY <1>1, Zenon
    <3>2. /\ file = <<>> /\ spins = 0
          /\ pc = "exec_text" => loc.newsz = ImagePages
          /\ pc = "exec_stack" => loc.newsz = ImagePages + 2 /\ ImagePages <= loc.a
      BY <3>1, Zenon DEF Loading
    <3>3. pc = "exec_stack" => \A w \in Pages : w < loc'.a =>
             data'[1][w] = IF w < ImagePages THEN Mark(w) ELSE 0
      <4>1. pc = "exec_stack" => \A w \in Pages : w < n =>
              data[1][w] = IF w < ImagePages THEN Mark(w) ELSE 0
        BY <3>1, <1>1, Zenon DEF Loading
      <4>2. pc = "exec_stack" => ~(n < ImagePages) BY <3>2, <1>1, <1>2, Sizes
      <4> QED BY <4>1, <4>2, <2>5, <2>10, <1>9, <1>11, Zenon
    <3>4. \A w \in Pages : w < Entered' => {"P", "W", "U"} \subseteq pte'[1][w]
      <4>1. \A w \in Pages : w < n => {"P", "W", "U"} \subseteq pte[1][w] BY <3>1, <1>7, Zenon DEF Loading
      <4> QED BY <4>1, <2>7, <2>10, <1>8, <1>11, Zenon
    <3>5. pc = "exec_stack" => ImagePages <= loc'.a BY SMTT(30), <3>2, <2>5, <1>1, <1>2, Sizes
    <3> QED BY <3>1, <3>2, <3>3, <3>4, <3>5, <2>2, <2>5, <2>11, <1>1, <1>5, Zenon DEF Loading
  <2>14. Ages' BY <2>1, <2>3, <2>4, Zenon DEF Ages
  <2>15. Chances'
    <3>1. spins' = 0 BY <1>0, <1>5 DEF IInv, Chances
    <3> QED BY <3>1 DEF Chances
  <2>16. halt' = "no" /\ cur' = cur BY <1>5, Zenon DEF IInv
  <2> QED BY <2>6, <2>8, <2>9, <2>12, <2>13, <2>14, <2>15, <2>16, ZenonT(60) DEF IInv
<1> QED BY <1>13, <1>14, Zenon

(* exec() commits to the new image: the tables hold its pages only, and    *)
(* all of them are in memory.                                              *)
LEMMA ExecEndInv ==
  ASSUME Modest, IInv, ExecEnd, UNCHANGED <<POLICY, may>>
  PROVE  IInv'
<1> DEFINE stack == ImagePages + 1
<1>0. pc = "exec_end" BY Zenon DEF ExecEnd
<1>1. cur = 0 /\ Loading BY <1>0, Zenon DEF IInv, TypeOK, Dirs, Running
<1>2. /\ loc.dir = 1 /\ loc.a = ImagePages + 2 /\ execs # 0 /\ file = <<>> /\ spins = 0
      /\ Entered = ImagePages + 2
      /\ \A v \in Pages : v < ImagePages + 2 => {"P", "W", "U"} \subseteq pte[1][v]
      /\ \A v \in Pages : v < ImagePages + 2 =>
           data[1][v] = IF v < ImagePages THEN Mark(v) ELSE 0
  BY <1>0, <1>1, Zenon DEF Loading, Entered
<1>3. /\ stack \in Pages /\ ImagePages \in Pages /\ stack # ImagePages /\ stack < ImagePages + 2
      /\ ImagePages + 2 \in 0 .. NPages /\ Mark(stack) \in 0 .. NPages /\ ~(stack < ImagePages)
      /\ \A v \in Pages : v < ImagePages + 2 /\ ~(v < ImagePages) /\ v # stack => v = ImagePages
      /\ \A v \in Pages : Mark(v) \in 0 .. NPages
  BY Sizes DEF Mark
<1>4. {"P", "U"} \subseteq pte[1][stack] BY <1>2, <1>3, Zenon
<1> HIDE DEF stack
<1>5. /\ pte' = [pte EXCEPT ![1][ImagePages] = @ \ {"U"}, ![0] = [v \in Pages |-> {}]]
      /\ data' = [data EXCEPT ![1][stack] = Mark(stack)]
      /\ expected' = [v \in Pages |-> IF v < ImagePages \/ v = stack THEN Mark(v) ELSE 0]
      /\ mp' = DeallocMem(0, 0, NPages)
      /\ cur' = 1 /\ sz' = ImagePages + 2 /\ guard' = ImagePages /\ pc' = "user"
      /\ UNCHANGED <<fp, timestamp, file, loc, spins, execs, halt>>
  BY <1>1, <1>2, <1>4, Zenon DEF ExecEnd, stack
<1>6. /\ pte \in [Dirs -> [Pages -> SUBSET Flags]] /\ data \in [Dirs -> [Pages -> 0 .. NPages]]
      /\ mp \in [Slots -> MemEntry]
  BY Zenon DEF IInv, TypeOK
<1>7. mp' = mp
  <2>1. \A i \in Slots : ~(mp[i].used /\ mp[i].dir = 0) BY DEF IInv, Tables, InMem
  <2>2. DeallocMem(0, 0, NPages) = [i \in Slots |-> mp[i]] BY <2>1, Zenon DEF DeallocMem
  <2> QED BY <2>2, <1>5, <1>6, ZenonT(60)
<1>8. /\ pte' \in [Dirs -> [Pages -> SUBSET Flags]] /\ pte'[1][ImagePages] = pte[1][ImagePages] \ {"U"}
      /\ \A v \in Pages : v # ImagePages => pte'[1][v] = pte[1][v]
  BY <1>3, <1>5, <1>6 DEF Dirs
<1>9. /\ data' \in [Dirs -> [Pages -> 0 .. NPages]] /\ data'[1][stack] = Mark(stack)
      /\ \A v \in Pages : v # stack => data'[1][v] = data[1][v]
  BY <1>3, <1>5, <1>6, Zenon DEF Dirs
<1>10. expected' \in [Pages -> 0 .. NPages]
  <2>1. 0 \in 0 .. NPages BY Sizes
  <2> QED BY <2>1, <1>3, <1>5, Zenon
<1>11. TypeOK' BY <1>3, <1>5, <1>7, <1>8, <1>9, <1>10, Zenon DEF IInv, TypeOK, PCs, Dirs
<1>12. Entered' = ImagePages + 2 BY <1>2, <1>5, Zenon DEF Entered
<1>13. Tables(mp', fp', pte'[1], Entered', Len(file'))
  <2>1. /\ Entered \in Nat /\ Len(file) \in Nat /\ Tables(mp, fp, pte[1], Entered, Len(file))
        /\ \A i \in Slots : mp[i].va \in Pages /\ fp[i].va \in Pages
    BY Counts, Zenon DEF IInv
  <2>2. \A v \in Pages : /\ "P" \in pte'[1][v] <=> "P" \in pte[1][v]
                         /\ "PG" \in pte'[1][v] <=> "PG" \in pte[1][v]
    BY <1>3, <1>8, Zenon
  <2>3. Tables(mp, fp, pte'[1], Entered, Len(file)) BY <2>1, <2>2, TablesKeep, Zenon
  <2> QED BY <2>3, <1>2, <1>5, <1>7, <1>12, Zenon
<1>14. Above'
  <2>1. \A v \in Pages : v >= ImagePages + 2 => pte[1][v] = {} BY <1>0, <1>2, Zenon DEF IInv, Above
  <2>2. \A v \in Pages : v >= ImagePages + 2 => v # ImagePages BY Sizes
  <2> QED BY <2>1, <2>2, <1>8, <1>12, Zenon DEF Above
<1>15. Accessible(pte'[1], guard', Entered') BY <1>2, <1>5, <1>8, <1>12, ZenonT(60) DEF Accessible
<1>16. Contents(fp', pte'[1], data'[1], file', expected', Entered')
  <2>1. \A i \in Slots : ~fp[i].used
    <3>1. Len(file) = 0 BY <1>2, Zenon
    <3>2. \A i \in Slots : fp[i].used <=> i < 0 BY <3>1, Zenon DEF IInv, Tables, Front
    <3> QED BY <3>2, Sizes
  <2>2. ASSUME NEW v \in Pages, v < ImagePages + 2 PROVE data'[1][v] = expected'[v]
    <3>1. CASE v = stack BY <3>1, <1>5, <1>9, Zenon
    <3>2. CASE v # stack /\ v < ImagePages BY <3>2, <2>2, <1>2, <1>5, <1>9, Zenon
    <3>3. CASE v # stack /\ ~(v < ImagePages) BY <3>3, <2>2, <1>2, <1>5, <1>9, Zenon
    <3> QED BY <3>1, <3>2, <3>3, Zenon
  <2> QED BY <2>1, <2>2, <1>5, <1>12, Zenon DEF Contents
<1>17. Running'
  <2>1. execs' = 1 BY <1>2, <1>5, Plain, Zenon DEF IInv
  <2> QED BY <2>1, <1>5, <1>15, <1>16, Zenon DEF Running
<1>18. Ages' BY <1>0, <1>2, <1>5, <1>7, <1>12, Zenon DEF IInv, Ages
<1>19. Chances' BY SMTT(30), <1>2, <1>5 DEF Chances
<1>20. halt' = "no" /\ cur' = 1 /\ cur' # 0 BY <1>5 DEF IInv
<1> QED BY <1>11, <1>13, <1>14, <1>17, <1>18, <1>19, <1>20, Zenon DEF IInv
============================================================================
