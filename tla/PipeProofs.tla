----------------------------- MODULE PipeProofs ----------------------------
(***************************************************************************)
(* Proofs about Pipe, for every set of processes, size of the ring and     *)
(* width of its counters: the reference counts are exact, a freed pipe is  *)
(* not in use, whoever sleeps has a reason to, and the ring implements the *)
(* queue of bytes of Fifo.                                                 *)
(***************************************************************************)
EXTENDS Pipe, FiniteSetTheorems, SequenceTheorems, TLAPS

USE SMTT(30), ZenonT(60), SMTT(120)

Openers(e) == {p \in Procs : e \in ofile[p]}
IsOpen(e) == IF e = "r" THEN readopen ELSE writeopen
CloseOf(e) == IF e = "r" THEN "close_r" ELSE "close_w"

(* What the argument needs of the types. *)
Types ==
  /\ nread \in 0 .. MODULUS - 1 /\ nwrite \in 0 .. MODULUS - 1
  /\ readopen \in BOOLEAN /\ writeopen \in BOOLEAN /\ freed \in BOOLEAN
  /\ ref \in [Ends -> Nat]
  /\ ofile \in [Procs -> SUBSET Ends]
  /\ pc \in [Procs -> {"user", "write", "read", "close_r", "close_w"}]
  /\ buf \in [Procs -> Seq(Bytes)]
  /\ n \in [Procs -> Nat]
  /\ chan \in [Procs -> {NULL, "nread", "nwrite"}]
  /\ aborted \in BOOLEAN

(* A count is the number of processes that have the end open; the end is   *)
(* open as long as there is one, and while the last one is on its way from *)
(* fileclose() to pipeclose().                                             *)
Counted(e) ==
  /\ ref[e] = Cardinality(Openers(e))
  /\ ref[e] > 0 => IsOpen(e)
  /\ \A p \in Procs : pc[p] = CloseOf(e) => ref[e] = 0 /\ IsOpen(e)
  /\ \A p, q \in Procs : pc[p] = CloseOf(e) /\ pc[q] = CloseOf(e) => p = q

(* A process in a call has its end open, asked for something, and sleeps   *)
(* on its channel only.                                                    *)
InCall(p) ==
  /\ pc[p] = "read" => "r" \in ofile[p] /\ n[p] # 0
  /\ pc[p] = "write" => "w" \in ofile[p]
  /\ chan[p] = "nread" => pc[p] = "read"
  /\ chan[p] = "nwrite" => pc[p] = "write"

(* The inductive invariant. *)
IInv ==
  /\ Types
  /\ \A e \in Ends : Counted(e)
  /\ \A p \in Procs : InCall(p)
  /\ freed => ~readopen /\ ~writeopen
  /\ Count <= PIPESIZE
  /\ SleepersHaveReason

----------------------------------------------------------------------------
(* Arithmetic modulo MODULUS. *)

(* A number below twice the modulus is reduced by at most one subtraction. *)
LEMMA ModOnce ==
  \A m \in Nat \ {0}, x \in Nat : x < 2 * m => x % m = IF x < m THEN x ELSE x - m
  OBVIOUS

(* What Count is, whichever of the two counters has wrapped. *)
LEMMA CountValue ==
  ASSUME NEW a \in 0 .. MODULUS - 1, NEW b \in 0 .. MODULUS - 1
  PROVE  (a - b + MODULUS) % MODULUS = IF a >= b THEN a - b ELSE a - b + MODULUS
<1> DEFINE x == a - b + MODULUS
<1>1. MODULUS \in Nat \ {0} BY PipeAssumption
<1>2. x \in Nat /\ x < 2 * MODULUS BY <1>1
<1>3. x < MODULUS <=> a < b BY <1>1
<1>4. x - MODULUS = a - b BY <1>1
<1> HIDE DEF x
<1>5. x % MODULUS = IF x < MODULUS THEN x ELSE x - MODULUS BY ZenonT(60), <1>1, <1>2, ModOnce
<1>6. x = a - b + MODULUS BY Zenon DEF x
<1> QED BY <1>3, <1>4, <1>5, <1>6

(* The least of two numbers. *)
LEMMA MinPair ==
  ASSUME NEW i \in Int, NEW j \in Int
  PROVE  Min({i, j}) = IF i <= j THEN i ELSE j
  BY DEF Min

(* A counter moved on by k, less than a whole turn. *)
LEMMA Advance ==
  ASSUME NEW a \in 0 .. MODULUS - 1, NEW k \in 0 .. MODULUS - 1
  PROVE  (a + k) % MODULUS = IF a + k < MODULUS THEN a + k ELSE a + k - MODULUS
<1> DEFINE x == a + k
<1>1. MODULUS \in Nat \ {0} BY PipeAssumption
<1>2. x \in Nat /\ x < 2 * MODULUS BY <1>1
<1> HIDE DEF x
<1>3. x % MODULUS = IF x < MODULUS THEN x ELSE x - MODULUS BY ZenonT(60), <1>1, <1>2, ModOnce
<1>4. x = a + k BY Zenon DEF x
<1> QED BY <1>1, <1>3, <1>4

(* k more bytes in the pipe when nwrite moves on by k. *)
LEMMA CountGrows ==
  ASSUME Types, NEW k \in Nat, Count + k <= PIPESIZE,
         nwrite' = (nwrite + k) % MODULUS, nread' = nread
  PROVE  /\ nwrite' \in 0 .. MODULUS - 1
         /\ Count' = Count + k
         /\ Count \in Nat
<1>1. MODULUS \in Nat \ {0} /\ PIPESIZE \in Nat /\ PIPESIZE < MODULUS BY PipeAssumption
<1>2. /\ Count = IF nwrite >= nread THEN nwrite - nread ELSE nwrite - nread + MODULUS
      /\ Count \in Nat
  <2>1. Count = (nwrite - nread + MODULUS) % MODULUS BY Zenon DEF Count
  <2>2. nwrite \in 0 .. MODULUS - 1 /\ nread \in 0 .. MODULUS - 1 BY Zenon DEF Types
  <2>3. Count = IF nwrite >= nread THEN nwrite - nread ELSE nwrite - nread + MODULUS
    BY <2>1, <2>2, CountValue, Zenon
  <2> QED BY <2>2, <2>3, <1>1
<1>3. k \in 0 .. MODULUS - 1 BY <1>1, <1>2
<1>4. nwrite' = IF nwrite + k < MODULUS THEN nwrite + k ELSE nwrite + k - MODULUS
  BY <1>3, Advance, Zenon DEF Types
<1>5. nwrite' \in 0 .. MODULUS - 1 BY <1>1, <1>3, <1>4 DEF Types
<1>6. Count' = IF nwrite' >= nread THEN nwrite' - nread ELSE nwrite' - nread + MODULUS
  BY SMTT(30), <1>5, CountValue DEF Count, Types
<1> QED BY <1>1, <1>2, <1>4, <1>5, <1>6 DEF Types

(* k bytes less in the pipe when nread moves on by k. *)
LEMMA CountShrinks ==
  ASSUME Types, NEW k \in Nat, k <= Count, Count <= PIPESIZE,
         nread' = (nread + k) % MODULUS, nwrite' = nwrite
  PROVE  /\ nread' \in 0 .. MODULUS - 1
         /\ Count' = Count - k
<1>1. MODULUS \in Nat \ {0} /\ PIPESIZE \in Nat /\ PIPESIZE < MODULUS BY PipeAssumption
<1>2. /\ Count = IF nwrite >= nread THEN nwrite - nread ELSE nwrite - nread + MODULUS
      /\ Count \in Nat
  <2>1. Count = (nwrite - nread + MODULUS) % MODULUS BY Zenon DEF Count
  <2>2. nwrite \in 0 .. MODULUS - 1 /\ nread \in 0 .. MODULUS - 1 BY Zenon DEF Types
  <2>3. Count = IF nwrite >= nread THEN nwrite - nread ELSE nwrite - nread + MODULUS
    BY <2>1, <2>2, CountValue, Zenon
  <2> QED BY <2>2, <2>3, <1>1
<1>3. k \in 0 .. MODULUS - 1 BY <1>1, <1>2
<1>4. nread' = IF nread + k < MODULUS THEN nread + k ELSE nread + k - MODULUS
  BY <1>3, Advance, Zenon DEF Types
<1>5. nread' \in 0 .. MODULUS - 1 BY <1>1, <1>3, <1>4 DEF Types
<1>6. Count' = IF nwrite >= nread' THEN nwrite - nread' ELSE nwrite - nread' + MODULUS
  BY SMTT(30), <1>5, CountValue DEF Count, Types
<1> QED BY <1>1, <1>2, <1>4, <1>5, <1>6 DEF Types

(* The openers of an end are finitely many. *)
LEMMA OpenersFinite ==
  ASSUME NEW e \in Ends
  PROVE  IsFiniteSet(Openers(e))
  BY PipeAssumption, FS_Subset, Zenon DEF Openers

----------------------------------------------------------------------------
(* pipealloc() establishes the invariant. *)
LEMMA InitIInv == Init => IInv
<1> SUFFICES ASSUME Init PROVE IInv
  BY Zenon
<1>1. Types
  <2>1. nread \in 0 .. MODULUS - 1 /\ nwrite \in 0 .. MODULUS - 1
    BY PipeAssumption DEF Init
  <2>2. buf \in [Procs -> Seq(Bytes)] BY DEF Init
  <2>3. ofile \in [Procs -> SUBSET Ends] BY Zenon DEF Init
  <2>4. ref \in [Ends -> Nat] /\ n \in [Procs -> Nat] BY Zenon DEF Init
  <2> QED BY ZenonT(60), <2>1, <2>2, <2>3, <2>4 DEF Init, Types
<1>2. ASSUME NEW e \in Ends PROVE Counted(e)
  <2>1. Openers(e) = {creator} BY <1>2, PipeAssumption, Zenon DEF Init, Openers
  <2>2. Cardinality(Openers(e)) = 1 BY <2>1, FS_Singleton, Zenon
  <2> QED BY <2>2, <1>2, Zenon DEF Init, Counted, IsOpen, CloseOf
<1>3. \A p \in Procs : InCall(p)
  BY PipeAssumption, Zenon DEF Init, InCall
<1>4. Count <= PIPESIZE
  <2>1. Count = 0 BY CountValue, PipeAssumption DEF Init, Count
  <2> QED BY <2>1, PipeAssumption
<1>5. SleepersHaveReason /\ (freed => ~readopen /\ ~writeopen)
  BY PipeAssumption, Zenon DEF Init, SleepersHaveReason
<1> QED BY <1>1, <1>2, <1>3, <1>4, <1>5, Zenon DEF IInv

(* fork(): each end that the parent has open has one more opener. *)
LEMMA ForkStep ==
  ASSUME IInv, NEW p \in Procs, NEW q \in Procs, Fork(p, q)
  PROVE  IInv'
<1> USE DEF IInv, Fork, pipevars
<1>1. Types'
  BY SMTT(30) DEF Types
<1>2. ASSUME NEW e \in Ends PROVE Counted(e)'
  <2>1. CASE e \in ofile[p]
    <3>1. Openers(e)' = Openers(e) \cup {q} /\ q \notin Openers(e)
      BY <2>1, Zenon DEF Openers, Types
    <3>2. Cardinality(Openers(e)') = Cardinality(Openers(e)) + 1
      BY ZenonT(60), <3>1, OpenersFinite, FS_AddElement
    <3>3. p \in Openers(e) BY <2>1, Zenon DEF Openers
    <3>4. Cardinality(Openers(e)) > 0
      BY SMTT(30), <3>3, OpenersFinite, FS_EmptySet, FS_CardinalityType
    <3> QED BY <2>1, <3>2, <3>4, <1>2 DEF Counted, IsOpen, CloseOf, Types
  <2>2. CASE e \notin ofile[p]
    <3>1. Openers(e)' = Openers(e)
      BY <2>2, Zenon DEF Openers, Types
    <3> QED BY <2>2, <3>1, <1>2 DEF Counted, IsOpen, CloseOf, Types
  <2> QED BY <2>1, <2>2, Zenon
<1>3. ASSUME NEW x \in Procs PROVE InCall(x)'
  BY Zenon DEF InCall, Types
<1>4. (Count <= PIPESIZE)' /\ SleepersHaveReason' /\ (freed => ~readopen /\ ~writeopen)'
  BY Zenon DEF Count, SleepersHaveReason
<1> QED BY <1>1, <1>2, <1>3, <1>4, Zenon

(* fileclose(): one opener less; the last one goes to pipeclose(). *)
LEMMA FilecloseStep ==
  ASSUME IInv, NEW p \in Procs, NEW c \in Ends, Fileclose(p, c)
  PROVE  IInv'
<1> USE DEF IInv, Fileclose, pipevars
<1>1. Openers(c)' = Openers(c) \ {p} /\ p \in Openers(c)
  BY Zenon DEF Openers, Types
<1>2. /\ Cardinality(Openers(c)') = Cardinality(Openers(c)) - 1
      /\ Cardinality(Openers(c)) \in Nat
      /\ Cardinality(Openers(c)') \in Nat
  BY SMTT(30), <1>1, OpenersFinite, FS_RemoveElement, FS_CardinalityType
<1>3. ref[c] = Cardinality(Openers(c)) /\ ref[c] \in Nat /\ ref[c] > 0
  BY <1>2 DEF Counted
<1>4. Types'
  BY <1>2, <1>3, Zenon DEF Types
<1>5. ASSUME NEW e \in Ends PROVE Counted(e)'
  <2>1. CASE e = c
    <3>1. ref'[e] = Cardinality(Openers(e)')
      BY <2>1, <1>2, <1>3, Zenon DEF Types
    <3>2. IsOpen(e)' BY <2>1, <1>3, Zenon DEF Counted, IsOpen
    <3>3. \A x \in Procs : pc[x] # CloseOf(e) BY <2>1, <1>3 DEF Counted
    <3>4. \A x \in Procs : pc'[x] = CloseOf(e) => x = p /\ ref'[e] = 0
      BY SMTT(30), <2>1, <1>3, <3>3 DEF Types, CloseOf, Ends
    <3> QED BY <3>1, <3>2, <3>4, Zenon DEF Counted, CloseOf
  <2>2. CASE e # c
    <3>1. Openers(e)' = Openers(e) BY <2>2, Zenon DEF Openers, Types
    <3>2. \A x \in Procs : pc'[x] = CloseOf(e) => pc[x] = CloseOf(e)
      BY <2>2, Zenon DEF Types, CloseOf, Ends
    <3> QED BY <2>2, <3>1, <3>2 DEF Counted, IsOpen, CloseOf, Types
  <2> QED BY <2>1, <2>2, Zenon
<1>6. ASSUME NEW x \in Procs PROVE InCall(x)'
  BY Zenon DEF InCall, Types
<1>7. (Count <= PIPESIZE)' /\ SleepersHaveReason' /\ (freed => ~readopen /\ ~writeopen)'
  BY Zenon DEF Count, SleepersHaveReason
<1> QED BY <1>4, <1>5, <1>6, <1>7, Zenon

(* pipeclose(): the end is marked closed and the other side woken. *)
LEMMA PipecloseStep ==
  ASSUME IInv, NEW p \in Procs, Pipeclose(p)
  PROVE  IInv'
<1> USE DEF IInv, Pipeclose
<1>1. Types'
  BY Zenon DEF Types, Wakeup
<1>2. ASSUME NEW e \in Ends PROVE Counted(e)'
  <2>1. Openers(e)' = Openers(e) BY Zenon DEF Openers
  <2>2. IsOpen(e)' <=> IsOpen(e) /\ pc[p] # CloseOf(e)
    BY Zenon DEF IsOpen, CloseOf, Ends, Types
  <2>3. \A x \in Procs : pc'[x] = CloseOf(e) => x # p /\ pc[x] = CloseOf(e)
    BY Zenon DEF CloseOf, Ends, Types
  <2>4. pc[p] = CloseOf(e) => ref[e] = 0 BY Zenon DEF Counted
  <2>5. Counted(e) BY Zenon
  <2>6. ref'[e] = Cardinality(Openers(e)') BY <2>1, <2>5, Zenon DEF Counted
  <2>7. ref'[e] > 0 => IsOpen(e)' BY <2>2, <2>4, <2>5 DEF Counted
  <2>8. \A x \in Procs : pc'[x] = CloseOf(e) => ref'[e] = 0 /\ IsOpen(e)'
    BY <2>2, <2>3, <2>5, Zenon DEF Counted
  <2>9. \A x, y \in Procs : pc'[x] = CloseOf(e) /\ pc'[y] = CloseOf(e) => x = y
    BY <2>3, <2>5, Zenon DEF Counted
  <2> QED BY <2>6, <2>7, <2>8, <2>9, Zenon DEF Counted, CloseOf
<1>3. ASSUME NEW x \in Procs PROVE InCall(x)'
  BY PipeAssumption, Zenon DEF InCall, Types, Wakeup
<1>4. (Count <= PIPESIZE)' /\ (freed => ~readopen /\ ~writeopen)'
  BY ZenonT(60) DEF Count
<1>5. SleepersHaveReason'
  BY PipeAssumption, Zenon DEF SleepersHaveReason, Count, Wakeup, Types
<1> QED BY <1>1, <1>2, <1>3, <1>4, <1>5, Zenon

(* The steps that change neither the counts nor the bytes in the pipe:     *)
(* kill(), the start of write() and of read(), and a reader that finds the *)
(* pipe empty.                                                             *)
LEMMA CallStep ==
  ASSUME IInv, NEW p \in Procs,
         \/ Kill(p)
         \/ \E s \in Messages : Write(p, s)
         \/ \E k \in ReadSizes : Read(p, k)
         \/ PipereadEmpty(p)
  PROVE  IInv'
<1> USE DEF pipevars
<1>1. UNCHANGED <<nread, nwrite, readopen, writeopen, freed, ref, ofile, aborted>>
  BY Zenon DEF Kill, Write, Read, PipereadEmpty
<1>2. Types'
  <2>1. buf' \in [Procs -> Seq(Bytes)]
    <3>1. \A s \in Messages : s \in Seq(Bytes) BY PipeAssumption, Zenon
    <3>2. buf' = buf \/ \E s \in Messages : buf' = [buf EXCEPT ![p] = s]
      BY Zenon DEF Kill, Write, Read, PipereadEmpty
    <3> QED BY ZenonT(60), <3>1, <3>2 DEF IInv, Types
  <2>2. n' \in [Procs -> Nat]
    <3>1. \A k \in ReadSizes \cup {0} : k \in Nat BY PipeAssumption
    <3>2. n' = n \/ \E k \in ReadSizes \cup {0} : n' = [n EXCEPT ![p] = k]
      BY Zenon DEF Kill, Write, Read, PipereadEmpty
    <3> QED BY ZenonT(60), <3>1, <3>2 DEF IInv, Types
  <2>3. pc' \in [Procs -> {"user", "write", "read", "close_r", "close_w"}]
    <3>1. pc' = pc \/ \E c \in {"user", "write", "read"} : pc' = [pc EXCEPT ![p] = c]
      BY Zenon DEF Kill, Write, Read, PipereadEmpty
    <3> QED BY ZenonT(60), <3>1 DEF IInv, Types
  <2>4. chan' \in [Procs -> {NULL, "nread", "nwrite"}]
    <3>1. chan' = chan \/ \E c \in {NULL, "nread"} : chan' = [chan EXCEPT ![p] = c]
      BY Zenon DEF Kill, Write, Read, PipereadEmpty
    <3> QED BY ZenonT(60), <3>1 DEF IInv, Types
  <2> QED BY <1>1, <2>1, <2>2, <2>3, <2>4, Zenon DEF IInv, Types
<1>3. ASSUME NEW x \in Procs
      PROVE  /\ \/ pc'[x] = pc[x]
                \/ pc'[x] = "user" /\ chan'[x] = NULL
                \/ pc'[x] = "read" /\ pc[x] = "user" /\ "r" \in ofile[x] /\ chan'[x] = chan[x]
                \/ pc'[x] = "write" /\ pc[x] = "user" /\ "w" \in ofile[x] /\ chan'[x] = chan[x]
             /\ \/ chan'[x] \in {chan[x], NULL}
                \/ chan'[x] = "nread" /\ pc'[x] = "read" /\ nread = nwrite /\ writeopen
  BY SMTT(30), <1>3 DEF Kill, Write, Read, PipereadEmpty, IInv, Types
<1>4. ASSUME NEW e \in Ends PROVE Counted(e)'
  <2>1. Openers(e)' = Openers(e) BY <1>1, Zenon DEF Openers
  <2>2. \A x \in Procs : pc'[x] = CloseOf(e) => pc[x] = CloseOf(e)
    BY <1>3, Zenon DEF CloseOf
  <2> QED BY <1>1, <2>1, <2>2 DEF IInv, Counted, IsOpen, CloseOf
<1>5. ASSUME NEW x \in Procs PROVE InCall(x)'
  <2>1. pc'[x] = "read" => \/ pc[x] = "read" /\ n'[x] = n[x]
                           \/ pc[x] = "user" /\ n'[x] \in ReadSizes
    BY <1>5 DEF Kill, Write, Read, PipereadEmpty, IInv, Types
  <2>2. pc'[x] = "read" => \/ pc[x] = "read" /\ n'[x] = n[x]
                           \/ pc[x] = "user" /\ n'[x] # 0
    BY <2>1, PipeAssumption, Zenon
  <2>3. pc'[x] = "read" => "r" \in ofile'[x] BY <1>1, <1>3, Zenon DEF IInv, InCall
  <2>4. pc'[x] = "write" => "w" \in ofile'[x] BY <1>1, <1>3, Zenon DEF IInv, InCall
  <2>5. pc'[x] = "read" => n'[x] # 0 BY <2>2, Zenon DEF IInv, InCall
  <2>6. /\ chan'[x] = "nread" => pc'[x] = "read"
        /\ chan'[x] = "nwrite" => pc'[x] = "write"
    BY <1>3, PipeAssumption, Zenon DEF IInv, InCall
  <2> QED BY <2>3, <2>4, <2>5, <2>6, ZenonT(60) DEF InCall
<1>6. (Count <= PIPESIZE)' /\ (freed => ~readopen /\ ~writeopen)'
  BY <1>1, Zenon DEF IInv, Count
<1>7. SleepersHaveReason'
  BY <1>1, <1>3, PipeAssumption, Zenon DEF IInv, SleepersHaveReason, Count
<1> QED BY <1>2, <1>4, <1>5, <1>6, <1>7, Zenon DEF IInv

(* pipewrite(): a writer that goes to sleep leaves the pipe full, and one  *)
(* that finds a sleeping writer has found it full.                         *)
LEMMA PipewriteStep ==
  ASSUME IInv, NEW p \in Procs, Pipewrite(p)
  PROVE  IInv'
<1> DEFINE k == Min({Len(buf[p]), PIPESIZE - Count})
           full == k < Len(buf[p])
           quits == full /\ (~readopen \/ killed[p])
           sleeps == full /\ ~quits
<1>1. /\ pc[p] = "write" /\ chan[p] = NULL
      /\ nwrite' = (nwrite + k) % MODULUS
      /\ chan' = IF quits THEN chan
                 ELSE [Wakeup("nread") EXCEPT ![p] = IF full THEN "nwrite" ELSE NULL]
      /\ buf' = [buf EXCEPT ![p] = IF sleeps THEN SubSeq(@, k + 1, Len(@)) ELSE <<>>]
      /\ pc' = [pc EXCEPT ![p] = IF sleeps THEN "write" ELSE "user"]
      /\ aborted' = (aborted \/ (quits /\ readopen))
      /\ UNCHANGED <<nread, readopen, writeopen, freed, ref, ofile, n>>
  BY Zenon DEF Pipewrite
<1>2. /\ Types /\ Count <= PIPESIZE
      /\ buf[p] \in Seq(Bytes) /\ Len(buf[p]) \in Nat
      /\ PIPESIZE \in Nat \ {0} /\ MODULUS \in Nat
  BY PipeAssumption, LenProperties, Zenon DEF IInv, Types
<1>3. Count \in Nat
  <2>1. Count = IF nwrite >= nread THEN nwrite - nread ELSE nwrite - nread + MODULUS
    BY ZenonT(60), <1>2, CountValue DEF Count, Types
  <2> QED BY <1>2, <2>1 DEF Types
<1>4. k = IF Len(buf[p]) <= PIPESIZE - Count THEN Len(buf[p]) ELSE PIPESIZE - Count
  BY SMTT(30), <1>2, <1>3, MinPair
<1> HIDE DEF k
<1>5. /\ k \in Nat /\ Count + k <= PIPESIZE
      /\ full => Count + k = PIPESIZE
      /\ Count = PIPESIZE => k = 0
  BY <1>2, <1>3, <1>4
<1>6. nwrite' \in 0 .. MODULUS - 1 /\ Count' = Count + k
  BY <1>1, <1>2, <1>5, CountGrows, Zenon
<1>7. buf' \in [Procs -> Seq(Bytes)]
  <2>1. full => SubSeq(buf[p], k + 1, Len(buf[p])) \in Seq(Bytes)
    BY <1>2, <1>5, SubSeqProperties
  <2>2. <<>> \in Seq(Bytes) OBVIOUS
  <2> QED BY <1>1, <1>2, <2>1, <2>2, Zenon DEF Types
<1>8. Types'
  BY SMTT(30), <1>1, <1>2, <1>6, <1>7 DEF Types, Wakeup
<1>9. ASSUME NEW e \in Ends PROVE Counted(e)'
  <2>1. Openers(e)' = Openers(e) BY SMTT(30), <1>1 DEF Openers
  <2>2. \A x \in Procs : pc'[x] = CloseOf(e) => pc[x] = CloseOf(e)
    BY <1>1, <1>2, Zenon DEF CloseOf, Types
  <2> QED BY SMTT(30), <1>1, <2>1, <2>2 DEF Counted, IsOpen, CloseOf, IInv
<1>10. ASSUME NEW x \in Procs PROVE InCall(x)'
  BY SMTT(30), <1>1, <1>2, PipeAssumption DEF InCall, Types, Wakeup, IInv
<1>11. SleepersHaveReason'
  <2> SUFFICES ASSUME NEW x \in Procs
               PROVE  /\ chan'[x] = "nwrite" => Count' = PIPESIZE /\ readopen'
                      /\ chan'[x] = "nread" => writeopen' /\ (nread' = nwrite' \/ aborted')
    BY Zenon DEF SleepersHaveReason
  <2>1. CASE chan'[x] = "nwrite"
    <3>1. CASE chan[x] = "nwrite"
      <4>1. Count = PIPESIZE /\ readopen BY <3>1, Zenon DEF IInv, SleepersHaveReason
      <4> QED BY SMTT(30), <4>1, <1>1, <1>2, <1>3, <1>5, <1>6, <2>1
    <3>2. CASE chan[x] # "nwrite"
      <4>1. full /\ ~quits BY <1>1, <1>2, <2>1, <3>2, PipeAssumption, Zenon DEF Types, Wakeup
      <4>2. readopen BY <4>1, Zenon
      <4> QED BY <4>1, <4>2, <1>1, <1>5, <1>6, <2>1, ZenonT(60)
    <3> QED BY <3>1, <3>2, Zenon
  <2>2. CASE chan'[x] = "nread"
    <3>1. chan[x] = "nread" /\ quits
      BY <1>1, <1>2, <2>2, PipeAssumption, Zenon DEF Types, Wakeup
    <3>2. "r" \in ofile[x] /\ writeopen
      BY <3>1, Zenon DEF IInv, InCall, SleepersHaveReason
    <3>3. Counted("r") /\ x \in Openers("r") BY <3>2, Zenon DEF IInv, Ends, Openers
    <3>4. Cardinality(Openers("r")) > 0
      BY SMTT(30), <3>3, OpenersFinite, FS_EmptySet, FS_CardinalityType DEF Ends
    <3>5. readopen BY <3>3, <3>4, Zenon DEF Counted, IsOpen
    <3> QED BY ZenonT(60), <1>1, <2>2, <3>1, <3>2, <3>5
  <2> QED BY <2>1, <2>2, Zenon
<1>12. (Count <= PIPESIZE)' /\ (freed => ~readopen /\ ~writeopen)'
  BY <1>1, <1>5, <1>6, ZenonT(60) DEF IInv
<1> QED BY <1>8, <1>9, <1>10, <1>11, <1>12, Zenon DEF IInv

(* piperead(): it wakes every writer, and no reader sleeps on bytes.       *)
LEMMA PipereadStep ==
  ASSUME IInv, NEW p \in Procs, Piperead(p)
  PROVE  IInv'
<1> DEFINE k == Min({n[p], Count})
<1>1. /\ pc[p] = "read" /\ (nread # nwrite \/ ~writeopen)
      /\ nread' = (nread + k) % MODULUS
      /\ chan' = Wakeup("nwrite")
      /\ n' = [n EXCEPT ![p] = 0]
      /\ pc' = [pc EXCEPT ![p] = "user"]
      /\ UNCHANGED <<nwrite, readopen, writeopen, freed, ref, ofile, buf, aborted>>
      /\ chan[p] = NULL
  BY Zenon DEF Piperead
<1>2. /\ Types /\ Count <= PIPESIZE /\ n[p] \in Nat
      /\ PIPESIZE \in Nat \ {0} /\ MODULUS \in Nat
  BY PipeAssumption, Zenon DEF IInv, Types
<1>3. Count \in Nat
  <2>1. Count = IF nwrite >= nread THEN nwrite - nread ELSE nwrite - nread + MODULUS
    BY ZenonT(60), <1>2, CountValue DEF Count, Types
  <2> QED BY <1>2, <2>1 DEF Types
<1>4. k = IF n[p] <= Count THEN n[p] ELSE Count
  BY <1>2, <1>3, MinPair
<1> HIDE DEF k
<1>5. k \in Nat /\ k <= Count
  BY <1>2, <1>3, <1>4
<1>6. nread' \in 0 .. MODULUS - 1 /\ Count' = Count - k
  BY <1>1, <1>2, <1>5, CountShrinks, Zenon
<1>7. Types'
  BY <1>1, <1>2, <1>6, Zenon DEF Types, Wakeup
<1>8. ASSUME NEW e \in Ends PROVE Counted(e)'
  <2>1. Openers(e)' = Openers(e) BY <1>1, Zenon DEF Openers
  <2>2. \A x \in Procs : pc'[x] = CloseOf(e) => pc[x] = CloseOf(e)
    BY <1>1, <1>2, Zenon DEF CloseOf, Types
  <2> QED BY <1>1, <2>1, <2>2 DEF Counted, IsOpen, CloseOf, IInv
<1>9. ASSUME NEW x \in Procs PROVE InCall(x)'
  BY <1>1, <1>2, PipeAssumption, Zenon DEF InCall, Types, Wakeup, IInv
<1>10. SleepersHaveReason'
  <2> SUFFICES ASSUME NEW x \in Procs
               PROVE  /\ chan'[x] = "nwrite" => Count' = PIPESIZE /\ readopen'
                      /\ chan'[x] = "nread" => writeopen' /\ (nread' = nwrite' \/ aborted')
    BY Zenon DEF SleepersHaveReason
  <2>1. chan'[x] # "nwrite" BY <1>1, <1>2, PipeAssumption, Zenon DEF Types, Wakeup
  <2>2. chan'[x] = "nread" => chan[x] = "nread"
    BY <1>1, <1>2, PipeAssumption, Zenon DEF Types, Wakeup
  <2>3. chan[x] = "nread" => writeopen /\ (nread = nwrite \/ aborted)
    BY Zenon DEF IInv, SleepersHaveReason
  <2> QED BY <1>1, <2>1, <2>2, <2>3, Zenon
<1>11. (Count <= PIPESIZE)' /\ (freed => ~readopen /\ ~writeopen)'
  BY SMTT(30), <1>1, <1>2, <1>3, <1>5, <1>6 DEF IInv
<1> QED BY <1>7, <1>8, <1>9, <1>10, <1>11, Zenon DEF IInv

----------------------------------------------------------------------------
(* Every step of every process keeps the invariant. *)
LEMMA NextIInv == IInv /\ [Next]_vars => IInv'
<1> SUFFICES ASSUME IInv, [Next]_vars PROVE IInv'
  BY Zenon
<1>1. ASSUME NEW p \in Procs, NEW q \in Procs, Fork(p, q) PROVE IInv'
  BY <1>1, ForkStep, Zenon
<1>2. ASSUME NEW p \in Procs, NEW e \in Ends, Fileclose(p, e) PROVE IInv'
  BY <1>2, FilecloseStep, Zenon
<1>3. ASSUME NEW p \in Procs, Pipeclose(p) PROVE IInv'
  BY <1>3, PipecloseStep, Zenon
<1>4. ASSUME NEW p \in Procs, Pipewrite(p) PROVE IInv'
  BY <1>4, PipewriteStep
<1>5. ASSUME NEW p \in Procs, Piperead(p) PROVE IInv'
  BY <1>5, PipereadStep
<1>6. ASSUME NEW p \in Procs,
             \/ Kill(p)
             \/ \E s \in Messages : Write(p, s)
             \/ \E k \in ReadSizes : Read(p, k)
             \/ PipereadEmpty(p)
      PROVE  IInv'
  BY <1>6, CallStep, Zenon
<1>7. CASE UNCHANGED vars
  <2> USE <1>7 DEF vars, pipevars, IInv
  <2>1. Types' BY Zenon DEF Types
  <2>2. ASSUME NEW e \in Ends PROVE Counted(e)'
    BY Zenon DEF Counted, Openers, IsOpen, CloseOf
  <2>3. ASSUME NEW p \in Procs PROVE InCall(p)'
    BY Zenon DEF InCall
  <2>4. (Count <= PIPESIZE)' /\ SleepersHaveReason' /\ (freed => ~readopen /\ ~writeopen)'
    BY Zenon DEF Count, SleepersHaveReason
  <2> QED BY <2>1, <2>2, <2>3, <2>4, Zenon
<1> QED BY <1>1, <1>2, <1>3, <1>4, <1>5, <1>6, <1>7, Zenon DEF Next

(* The invariant holds in every behaviour. *)
LEMMA Invariance == Spec => []IInv
  BY InitIInv, NextIInv, PTL DEF Spec

----------------------------------------------------------------------------
(* The pipe implements a bounded queue of bytes: the ring holds the queue  *)
(* from nread on, at the residues of the positions modulo PIPESIZE.        *)

(* Division with remainder. *)
LEMMA Division ==
  ASSUME NEW P \in Nat \ {0}, NEW x \in Nat
  PROVE  \E q \in Nat, r \in 0 .. P - 1 : x = P * q + r /\ x % P = r
<1>1. x % P \in 0 .. P - 1 /\ x \div P \in Nat OBVIOUS
<1>2. x % P = x - P * (x \div P) BY SMTT(30)
<1>3. P * (x \div P) \in Int BY <1>1
<1> DEFINE q == x \div P
           r == x % P
<1>4. q \in Nat /\ r \in 0 .. P - 1 /\ r = x - P * q BY <1>1, <1>2, Zenon
<1> HIDE DEF q, r
<1>5. x = P * q + r BY <1>4
<1> QED BY <1>4, <1>5, Zenon DEF r

(* The remainder is what is left of a multiple. *)
LEMMA Remainder ==
  ASSUME NEW P \in Nat \ {0}, NEW q \in Nat, NEW r \in 0 .. P - 1
  PROVE  (P * q + r) % P = r
OBVIOUS

(* A counter that wraps at a multiple of the size of the ring keeps its    *)
(* place in it.                                                            *)
LEMMA ModShift ==
  ASSUME NEW P \in Nat \ {0}, NEW M \in Nat, M % P = 0, NEW x \in Nat
  PROVE  (x + M) % P = x % P
<1>1. PICK q \in Nat, r \in 0 .. P - 1 : x = P * q + r /\ x % P = r BY Division, Zenon
<1>2. PICK t \in Nat : M = P * t BY SMTT(30), Division
<1>3. x + M = P * (q + t) + r /\ q + t \in Nat BY <1>1, <1>2
<1> QED BY ZenonT(60), <1>1, <1>3, Remainder

(* Less than a whole turn leads to another place. *)
LEMMA ModDistinct ==
  ASSUME NEW P \in Nat \ {0}, NEW x \in Nat, NEW y \in Nat, x <= y, y - x < P, x % P = y % P
  PROVE  x = y
<1>1. PICK q \in Nat, r \in 0 .. P - 1 : x = P * q + r /\ x % P = r BY Division, Zenon
<1>2. PICK t \in Nat, s \in 0 .. P - 1 : y = P * t + s /\ y % P = s BY Division, Zenon
<1>3. y - x = P * (t - q) BY <1>1, <1>2
<1>4. CASE t - q >= 1
  <2>1. P * (t - q) >= P BY <1>1, <1>2, <1>4
  <2> QED BY <2>1, <1>3
<1>5. CASE t - q <= 0
  <2>1. P * (t - q) <= 0 BY <1>1, <1>2, <1>5
  <2> QED BY <2>1, <1>3
<1> QED BY <1>1, <1>2, <1>4, <1>5

(* nwrite is Count places after nread, whether or not it has wrapped. *)
LEMMA WrittenSlot ==
  ASSUME Types, NEW x \in Nat
  PROVE  (nwrite + x) % PIPESIZE = (nread + Count + x) % PIPESIZE
<1>1. /\ MODULUS \in Nat \ {0} /\ PIPESIZE \in Nat \ {0} /\ MODULUS % PIPESIZE = 0
      /\ nwrite \in 0 .. MODULUS - 1 /\ nread \in 0 .. MODULUS - 1
  BY PipeAssumption DEF Types
<1>2. Count = IF nwrite >= nread THEN nwrite - nread ELSE nwrite - nread + MODULUS
  BY <1>1, CountValue, Zenon DEF Count
<1>3. CASE nwrite >= nread
  <2>1. nread + Count + x = nwrite + x BY <1>1, <1>2, <1>3
  <2> QED BY <2>1, Zenon
<1>4. CASE ~(nwrite >= nread)
  <2> DEFINE y == nwrite + x
  <2>1. nread + Count + x = y + MODULUS /\ y \in Nat BY <1>1, <1>2, <1>4
  <2> HIDE DEF y
  <2>2. (y + MODULUS) % PIPESIZE = y % PIPESIZE BY ZenonT(60), <1>1, <2>1, ModShift
  <2> QED BY <2>1, <2>2, Zenon DEF y
<1> QED BY <1>3, <1>4, Zenon

(* A counter moved on by k has moved on by k places, also when it wraps. *)
LEMMA MovedSlot ==
  ASSUME NEW a \in 0 .. MODULUS - 1, NEW k \in 0 .. MODULUS - 1, NEW x \in Nat
  PROVE  (((a + k) % MODULUS) + x) % PIPESIZE = (a + k + x) % PIPESIZE
<1>1. MODULUS \in Nat \ {0} /\ PIPESIZE \in Nat \ {0} /\ MODULUS % PIPESIZE = 0
  BY PipeAssumption
<1>2. (a + k) % MODULUS = IF a + k < MODULUS THEN a + k ELSE a + k - MODULUS BY Advance, Zenon
<1>3. CASE a + k < MODULUS BY <1>2, <1>3, Zenon
<1>4. CASE ~(a + k < MODULUS)
  <2>1. /\ (a + k) % MODULUS = a + k - MODULUS /\ a + k - MODULUS + x \in Nat
        /\ a + k + x = a + k - MODULUS + x + MODULUS
    BY <1>1, <1>2, <1>4
  <2> DEFINE y == a + k - MODULUS + x
  <2>2. y \in Nat /\ a + k + x = y + MODULUS BY <2>1, Zenon
  <2> HIDE DEF y
  <2>3. (y + MODULUS) % PIPESIZE = y % PIPESIZE BY ZenonT(60), <1>1, <2>2, ModShift
  <2> QED BY <2>1, <2>2, <2>3, Zenon DEF y
<1> QED BY <1>3, <1>4, Zenon

(* Where pipewrite() puts the x-th byte: in the place of the queue that    *)
(* follows the bytes in the pipe, and in no other.                         *)
LEMMA Landing ==
  ASSUME Types, Count \in Nat, NEW x \in Nat \ {0}, Count + x <= PIPESIZE, NEW i \in 1 .. PIPESIZE
  PROVE  (nwrite + x - 1) % PIPESIZE = (nread + i - 1) % PIPESIZE <=> i = Count + x
<1>1. PIPESIZE \in Nat \ {0} /\ nread \in Nat BY PipeAssumption DEF Types
<1>2. (nwrite + x - 1) % PIPESIZE = (nread + Count + x - 1) % PIPESIZE
  <2>1. (nwrite + (x - 1)) % PIPESIZE = (nread + Count + (x - 1)) % PIPESIZE BY WrittenSlot
  <2>2. /\ nwrite + (x - 1) = nwrite + x - 1
        /\ nread + Count + (x - 1) = nread + Count + x - 1
    BY <1>1, Zenon DEF Types
  <2> QED BY <2>1, <2>2, Zenon
<1> DEFINE a == nread + i - 1
           b == nread + Count + x - 1
<1>3. /\ a \in Nat /\ b \in Nat /\ (a = b <=> i = Count + x)
      /\ a <= b => b - a < PIPESIZE
      /\ b <= a => a - b < PIPESIZE
  BY <1>1
<1> HIDE DEF a, b
<1>4. a % PIPESIZE = b % PIPESIZE => a = b
  <2>1. CASE a <= b BY <1>1, <1>3, <2>1, ModDistinct, Zenon
  <2>2. CASE b <= a BY <1>1, <1>3, <2>2, ModDistinct, Zenon
  <2> QED BY <1>3, <2>1, <2>2
<1> QED BY <1>2, <1>3, <1>4, Zenon DEF a, b

(* A function on 1 .. m is a sequence of length m. *)
LEMMA SeqOver ==
  ASSUME NEW S, NEW m \in Nat, NEW f \in [1 .. m -> S]
  PROVE  f \in Seq(S) /\ Len(f) = m
<1>1. f \in Seq(S) BY SeqDef, Zenon
<1>2. Len(f) \in Nat /\ 1 .. Len(f) = 1 .. m BY <1>1, LenProperties, Zenon
<1> QED BY <1>1, <1>2

(* The bytes in the pipe, as a sequence. *)
LEMMA QueueSeq ==
  ASSUME NEW m \in Nat, NEW d, NEW a, NEW q, NEW S,
         q = [i \in 1 .. m |-> d[(a + i - 1) % PIPESIZE]],
         \A i \in 1 .. m : d[(a + i - 1) % PIPESIZE] \in S
  PROVE  q \in Seq(S) /\ Len(q) = m /\ \A i \in 1 .. m : q[i] = d[(a + i - 1) % PIPESIZE]
<1>1. q \in [1 .. m -> S] BY Zenon
<1> QED BY <1>1, SeqOver

(* What pipewrite() leaves at place i of the queue. *)
LEMMA Placed ==
  ASSUME Types, Count \in Nat, NEW k \in Nat, Count + k <= PIPESIZE, NEW s,
         data' = [j \in 0 .. PIPESIZE - 1 |->
           LET at == {x \in 1 .. k : (nwrite + x - 1) % PIPESIZE = j} IN
           IF at = {} THEN data[j] ELSE s[Max(at)]],
         NEW i \in 1 .. Count + k
  PROVE  data'[(nread + i - 1) % PIPESIZE] =
           IF i <= Count THEN data[(nread + i - 1) % PIPESIZE] ELSE s[i - Count]
<1> DEFINE j == (nread + i - 1) % PIPESIZE
           at == {x \in 1 .. k : (nwrite + x - 1) % PIPESIZE = j}
<1>1. PIPESIZE \in Nat \ {0} /\ nread \in Nat BY PipeAssumption DEF Types
<1>2. j \in 0 .. PIPESIZE - 1
  <2>1. nread + i - 1 \in Nat BY <1>1
  <2> QED BY <1>1, <2>1
<1>3. \A x \in 1 .. k : (nwrite + x - 1) % PIPESIZE = j <=> i = Count + x
  <2> SUFFICES ASSUME NEW x \in 1 .. k
               PROVE  (nwrite + x - 1) % PIPESIZE = j <=> i = Count + x
    BY Zenon
  <2>1. x \in Nat \ {0} /\ Count + x <= PIPESIZE /\ i \in 1 .. PIPESIZE BY <1>1
  <2> QED BY <2>1, Landing, Zenon
<1>4. data'[j] = IF at = {} THEN data[j] ELSE s[Max(at)] BY <1>2, Zenon
<1>5. CASE i <= Count
  <2>1. at = {} BY <1>3, <1>5
  <2> QED BY <1>4, <1>5, <2>1, Zenon
<1>6. CASE ~(i <= Count)
  <2>1. i - Count \in 1 .. k /\ i = Count + (i - Count) BY <1>6
  <2>2. at = {i - Count}
    <3>1. \A x \in 1 .. k : i = Count + x <=> x = i - Count BY <2>1
    <3>2. \A x \in 1 .. k : (nwrite + x - 1) % PIPESIZE = j <=> x = i - Count
      BY <1>3, <3>1, Zenon
    <3> HIDE DEF j
    <3> QED BY <2>1, <3>2, Zenon
  <2>3. Max({i - Count}) = i - Count BY <2>1 DEF Max
  <2> HIDE DEF at, j
  <2>4. data'[j] = s[i - Count] BY <1>4, <2>2, <2>3, Zenon
  <2> QED BY <1>6, <2>4, Zenon DEF j
<1> QED BY <1>5, <1>6, Zenon

(* q followed by s. *)
LEMMA Joined ==
  ASSUME NEW S, NEW q \in Seq(S), NEW s \in Seq(S), NEW r \in Seq(S),
         Len(r) = Len(q) + Len(s),
         \A i \in 1 .. Len(r) : r[i] = IF i <= Len(q) THEN q[i] ELSE s[i - Len(q)]
  PROVE  r = q \o s
<1>1. /\ q \o s \in Seq(S) /\ Len(q \o s) = Len(r)
      /\ \A i \in 1 .. Len(r) : (q \o s)[i] = r[i]
  BY ConcatProperties
<1> QED BY <1>1, SeqEqual, Zenon

(* What the invariant says of the bytes in the pipe. *)
LEMMA Counting ==
  ASSUME IInv
  PROVE  /\ Types /\ Count \in Nat /\ Count <= PIPESIZE
         /\ PIPESIZE \in Nat \ {0} /\ MODULUS \in Nat /\ PIPESIZE < MODULUS
         /\ nread \in 0 .. MODULUS - 1 /\ nwrite \in 0 .. MODULUS - 1
         /\ Count = 0 <=> nread = nwrite
<1>1. /\ Types /\ Count <= PIPESIZE /\ PIPESIZE \in Nat \ {0} /\ MODULUS \in Nat
      /\ PIPESIZE < MODULUS
      /\ nread \in 0 .. MODULUS - 1 /\ nwrite \in 0 .. MODULUS - 1
  BY PipeAssumption, Zenon DEF IInv, Types
<1>2. Count = IF nwrite >= nread THEN nwrite - nread ELSE nwrite - nread + MODULUS
  BY <1>1, CountValue, Zenon DEF Count
<1> QED BY <1>1, <1>2

(* pipewrite() puts the first k bytes of its buffer behind the others. *)
LEMMA PutMaps ==
  ASSUME IInv, NEW p \in Procs, Pipewrite(p)
  PROVE  Fifo!Put
<1> DEFINE k == Min({Len(buf[p]), PIPESIZE - Count})
           s == [i \in 1 .. k |-> buf[p][i]]
           S == Bytes \cup {data[(nread + i - 1) % PIPESIZE] : i \in 1 .. Count}
<1>1. /\ pc[p] = "write" /\ nwrite' = (nwrite + k) % MODULUS
      /\ data' = [j \in 0 .. PIPESIZE - 1 |->
           LET at == {i \in 1 .. k : (nwrite + i - 1) % PIPESIZE = j} IN
           IF at = {} THEN data[j] ELSE buf[p][Max(at)]]
      /\ UNCHANGED <<nread, writeopen, ret>>
  BY Zenon DEF Pipewrite
<1>2. /\ Types /\ Count \in Nat /\ Count <= PIPESIZE /\ PIPESIZE \in Nat BY Counting, Zenon
<1>3. buf[p] \in Seq(Bytes) /\ Len(buf[p]) \in Nat
  <2>1. buf[p] \in Seq(Bytes) BY <1>2, Zenon DEF Types
  <2> QED BY <2>1, LenProperties, Zenon
<1>4. k = IF Len(buf[p]) <= PIPESIZE - Count THEN Len(buf[p]) ELSE PIPESIZE - Count
  BY <1>2, <1>3, MinPair
<1> HIDE DEF k
<1>5. k \in Nat /\ k <= Len(buf[p]) /\ Count + k <= PIPESIZE BY <1>2, <1>3, <1>4
<1>6. Count' = Count + k BY <1>1, <1>2, <1>5, CountGrows, Zenon
<1>7. writeopen
  <2>1. "w" \in ofile[p] /\ Counted("w") BY <1>1, Zenon DEF IInv, InCall, Ends
  <2>2. p \in Openers("w") /\ "w" \in Ends BY <2>1, Zenon DEF Openers, Ends
  <2>3. Cardinality(Openers("w")) > 0
    BY SMTT(30), <2>2, OpenersFinite, FS_EmptySet, FS_CardinalityType
  <2> QED BY <2>1, <2>3, Zenon DEF Counted, IsOpen
<1>8. s \in [1 .. k -> Bytes] /\ s \in Seq(Bytes) /\ Len(s) = k
  <2>1. \A i \in 1 .. k : buf[p][i] \in Bytes BY <1>3, <1>5, ElementOfSeq
  <2>2. s \in [1 .. k -> Bytes] BY <2>1, Zenon
  <2> QED BY <2>2, <1>5, SeqOver, Zenon
<1>9. s \in Fifo!Strings BY SMTT(30), <1>2, <1>5, <1>8 DEF Fifo!Strings
<1>10. /\ Queue \in Seq(S) /\ Len(Queue) = Count
       /\ \A i \in 1 .. Count : Queue[i] = data[(nread + i - 1) % PIPESIZE]
  <2>1. \A i \in 1 .. Count : data[(nread + i - 1) % PIPESIZE] \in S BY Zenon
  <2>2. Queue = [i \in 1 .. Count |-> data[(nread + i - 1) % PIPESIZE]] BY Zenon DEF Queue
  <2> HIDE DEF S
  <2> QED BY SMTT(30), <1>2, <2>1, <2>2, QueueSeq
<1>11. \A i \in 1 .. Count + k :
         data'[(nread + i - 1) % PIPESIZE] =
           IF i <= Count THEN data[(nread + i - 1) % PIPESIZE] ELSE buf[p][i - Count]
  BY ZenonT(60), <1>1, <1>2, <1>5, Placed
<1>12. /\ Queue' \in Seq(S) /\ Len(Queue') = Count + k
       /\ \A i \in 1 .. Count + k : Queue'[i] = data'[(nread + i - 1) % PIPESIZE]
  <2>1. \A i \in 1 .. Count + k : data'[(nread + i - 1) % PIPESIZE] \in S
    <3> SUFFICES ASSUME NEW i \in 1 .. Count + k
                 PROVE  data'[(nread + i - 1) % PIPESIZE] \in S
      BY Zenon
    <3>1. CASE i <= Count
      <4>1. i \in 1 .. Count BY <1>2, <1>5, <3>1
      <4> QED BY <1>11, <3>1, <4>1, Zenon
    <3>2. CASE ~(i <= Count)
      <4>1. i - Count \in 1 .. Len(buf[p]) BY SMTT(30), <1>2, <1>3, <1>5, <3>2
      <4>2. buf[p][i - Count] \in Bytes BY <4>1, <1>3, ElementOfSeq, Zenon
      <4> QED BY <1>11, <3>2, <4>2, Zenon
    <3> QED BY <3>1, <3>2, Zenon
  <2>2. Queue' = [i \in 1 .. Count + k |-> data'[(nread + i - 1) % PIPESIZE]]
    BY <1>1, <1>6 DEF Queue
  <2>3. Count + k \in Nat BY <1>2, <1>5
  <2> HIDE DEF S
  <2> QED BY <2>1, <2>2, <2>3, QueueSeq
<1>13. Queue' = Queue \o s
  <2>1. s \in Seq(S)
    <3>1. Bytes \subseteq S BY Zenon
    <3> HIDE DEF S
    <3> QED BY <3>1, <1>8, SeqMonotonic, Zenon
  <2>2. \A i \in 1 .. Len(Queue') :
          Queue'[i] = IF i <= Len(Queue) THEN Queue[i] ELSE s[i - Len(Queue)]
    <3> SUFFICES ASSUME NEW i \in 1 .. Count + k
                 PROVE  Queue'[i] = IF i <= Count THEN Queue[i] ELSE s[i - Count]
      BY <1>10, <1>12, Zenon
    <3>1. CASE i <= Count
      <4>1. i \in 1 .. Count BY <1>2, <1>5, <3>1
      <4> QED BY <1>10, <1>11, <1>12, <3>1, <4>1, ZenonT(60)
    <3>2. CASE ~(i <= Count)
      <4>1. i - Count \in 1 .. k BY SMTT(30), <1>2, <1>5, <3>2
      <4>2. s[i - Count] = buf[p][i - Count] BY <4>1, Zenon
      <4> QED BY <1>11, <1>12, <3>2, <4>2, ZenonT(60)
    <3> QED BY <3>1, <3>2, Zenon
  <2>3. Len(Queue') = Len(Queue) + Len(s) BY <1>8, <1>10, <1>12, Zenon
  <2> HIDE DEF s, S
  <2> QED BY <1>10, <1>12, <2>1, <2>2, <2>3, Joined, ZenonT(60)
<1> HIDE DEF s
<1>14. Len(Queue) + Len(s) <= PIPESIZE BY <1>5, <1>8, <1>10, Zenon
<1> QED BY <1>1, <1>7, <1>9, <1>13, <1>14, Zenon DEF Fifo!Put

(* piperead() takes the first k bytes, or finds the pipe empty and closed. *)
LEMMA GetMaps ==
  ASSUME IInv, NEW p \in Procs, Piperead(p)
  PROVE  Fifo!Get
<1> DEFINE k == Min({n[p], Count})
           S == {data[(nread + i - 1) % PIPESIZE] : i \in 1 .. Count}
<1>1. /\ pc[p] = "read" /\ (nread # nwrite \/ ~writeopen)
      /\ ret' = [i \in 1 .. k |-> data[(nread + i - 1) % PIPESIZE]]
      /\ nread' = (nread + k) % MODULUS
      /\ UNCHANGED <<data, nwrite, writeopen>>
  BY Zenon DEF Piperead
<1>2. /\ Types /\ Count \in Nat /\ Count <= PIPESIZE /\ PIPESIZE \in Nat \ {0}
      /\ MODULUS \in Nat /\ PIPESIZE < MODULUS /\ nread \in 0 .. MODULUS - 1
      /\ Count = 0 <=> nread = nwrite
  BY Counting, Zenon
<1>3. n[p] \in Nat /\ n[p] # 0 BY <1>1, Zenon DEF IInv, Types, InCall
<1>4. k = IF n[p] <= Count THEN n[p] ELSE Count BY SMTT(30), <1>2, <1>3, MinPair
<1> HIDE DEF k
<1>5. k \in Nat /\ k <= Count /\ (Count # 0 => k # 0) /\ k \in 0 .. MODULUS - 1
  BY <1>2, <1>3, <1>4
<1>6. Count' = Count - k BY <1>1, <1>2, <1>5, CountShrinks, ZenonT(60)
<1>7. /\ Queue \in Seq(S) /\ Len(Queue) = Count
      /\ \A i \in 1 .. Count : Queue[i] = data[(nread + i - 1) % PIPESIZE]
  <2>1. \A i \in 1 .. Count : data[(nread + i - 1) % PIPESIZE] \in S BY Zenon
  <2>2. Queue = [i \in 1 .. Count |-> data[(nread + i - 1) % PIPESIZE]] BY Zenon DEF Queue
  <2> HIDE DEF S
  <2> QED BY SMTT(30), <1>2, <2>1, <2>2, QueueSeq
<1>8. ret' \in Seq(S) /\ Len(ret') = k /\ \A i \in 1 .. k : ret'[i] = Queue[i]
  <2>1. \A i \in 1 .. k : i \in 1 .. Count BY <1>2, <1>5
  <2>2. \A i \in 1 .. k : data[(nread + i - 1) % PIPESIZE] \in S BY <2>1, Zenon
  <2> HIDE DEF S
  <2>3. /\ ret' \in Seq(S) /\ Len(ret') = k
        /\ \A i \in 1 .. k : ret'[i] = data[(nread + i - 1) % PIPESIZE]
    BY SMTT(30), <1>1, <1>5, <2>2, QueueSeq
  <2> QED BY <1>7, <2>1, <2>3, Zenon
<1>9. \A i \in 1 .. Count - k : /\ k + i \in 1 .. Count
                                /\ data[(nread' + i - 1) % PIPESIZE] = Queue[k + i]
  <2> SUFFICES ASSUME NEW i \in 1 .. Count - k
               PROVE  /\ k + i \in 1 .. Count
                      /\ data[(nread' + i - 1) % PIPESIZE] = Queue[k + i]
    BY Zenon
  <2>1. k + i \in 1 .. Count /\ i - 1 \in Nat BY <1>2, <1>5
  <2>2. (nread' + (i - 1)) % PIPESIZE = (nread + k + (i - 1)) % PIPESIZE
    BY <1>1, <1>2, <1>5, <2>1, MovedSlot, ZenonT(60)
  <2>3. nread' \in Int BY SMTT(30), <1>1, <1>2, <1>5
  <2>4. nread' + (i - 1) = nread' + i - 1 /\ nread + k + (i - 1) = nread + (k + i) - 1
    BY SMTT(30), <1>2, <1>5, <2>3
  <2>5. (nread' + i - 1) % PIPESIZE = (nread + (k + i) - 1) % PIPESIZE BY <2>2, <2>4, Zenon
  <2>6. Queue[k + i] = data[(nread + (k + i) - 1) % PIPESIZE] BY <1>7, <2>1, Zenon
  <2> QED BY <2>1, <2>5, <2>6, Zenon
<1>10. /\ Queue' \in Seq(S) /\ Len(Queue') = Count - k
       /\ \A i \in 1 .. Count - k : Queue'[i] = Queue[k + i]
  <2>1. \A i \in 1 .. Count : Queue[i] \in S BY <1>7, ElementOfSeq, Zenon
  <2>2. \A i \in 1 .. Count - k : data[(nread' + i - 1) % PIPESIZE] \in S
    <3> HIDE DEF S
    <3> QED BY <1>9, <2>1, Zenon
  <2>3. Queue' = [i \in 1 .. Count - k |-> data[(nread' + i - 1) % PIPESIZE]]
    BY <1>1, <1>6, Zenon DEF Queue
  <2>4. Count - k \in Nat BY SMTT(30), <1>2, <1>5
  <2> HIDE DEF S
  <2>5. /\ Queue' \in Seq(S) /\ Len(Queue') = Count - k
        /\ \A i \in 1 .. Count - k : Queue'[i] = data[(nread' + i - 1) % PIPESIZE]
    BY SMTT(30), <2>2, <2>3, <2>4, QueueSeq
  <2> QED BY <1>9, <2>5, Zenon
<1> HIDE DEF S
<1>11. CASE Count # 0
  <2>1. k \in 1 .. Len(Queue) BY SMTT(30), <1>2, <1>5, <1>7, <1>11
  <2>2. ret' = SubSeq(Queue, 1, k)
    <3>1. \A i \in 1 .. k : Queue[i] \in S BY SMTT(30), <1>5, <1>7, ElementOfSeq
    <3>2. /\ SubSeq(Queue, 1, k) \in Seq(S) /\ Len(SubSeq(Queue, 1, k)) = k
          /\ \A i \in 1 .. k : SubSeq(Queue, 1, k)[i] = Queue[i]
      BY SMTT(30), <2>1, <3>1, <1>5, SubSeqProperties
    <3> QED BY <1>8, <3>2, SeqEqual, ZenonT(60)
  <2>3. Queue' = SubSeq(Queue, k + 1, Len(Queue))
    <3>1. \A i \in k + 1 .. Count : Queue[i] \in S BY SMTT(30), <1>5, <1>7, ElementOfSeq
    <3>2. /\ SubSeq(Queue, k + 1, Count) \in Seq(S)
          /\ Len(SubSeq(Queue, k + 1, Count)) = Count - k
          /\ \A i \in 1 .. Count - k : SubSeq(Queue, k + 1, Count)[i] = Queue[k + i]
      BY SMTT(30), <1>2, <1>5, <3>1, SubSeqProperties
    <3>3. Queue' = SubSeq(Queue, k + 1, Count) BY <1>10, <3>2, SeqEqual, Zenon
    <3> QED BY <3>3, <1>7, Zenon
  <2> QED BY <1>1, <2>1, <2>2, <2>3, ZenonT(60) DEF Fifo!Get
<1>12. CASE Count = 0
  <2>1. ~writeopen /\ k = 0 BY SMTT(30), <1>1, <1>2, <1>5, <1>12
  <2>2. Queue = <<>> /\ Queue' = <<>> /\ ret' = <<>>
    BY SMTT(30), <1>5, <1>7, <1>8, <1>10, <1>12, <2>1, EmptySeq
  <2> QED BY <1>1, <2>1, <2>2, ZenonT(60) DEF Fifo!Get
<1> QED BY <1>11, <1>12, Zenon

(* A step that leaves the bytes, ret and writeopen alone. *)
LEMMA Stutters ==
  ASSUME UNCHANGED <<data, nread, nwrite, ret, writeopen>>
  PROVE  UNCHANGED Fifo!vars
  BY Zenon DEF Fifo!vars, Queue, Count

(* Every step of the pipe is a step of the queue or leaves it alone. *)
LEMMA NextMaps == IInv /\ [Next]_vars => [Fifo!Next]_(Fifo!vars)
<1> SUFFICES ASSUME IInv, [Next]_vars PROVE [Fifo!Next]_(Fifo!vars)
  BY Zenon
<1>1. ASSUME NEW p \in Procs, Pipewrite(p) PROVE Fifo!Next
  BY <1>1, PutMaps, Zenon DEF Fifo!Next
<1>2. ASSUME NEW p \in Procs, Piperead(p) PROVE Fifo!Next
  BY <1>2, GetMaps, Zenon DEF Fifo!Next
<1>3. ASSUME NEW p \in Procs, Pipeclose(p) PROVE [Fifo!Next]_(Fifo!vars)
  <2>1. UNCHANGED <<data, nread, nwrite, ret>> BY <1>3, Zenon DEF Pipeclose
  <2>2. UNCHANGED Queue BY <2>1, Zenon DEF Queue, Count
  <2>3. writeopen' = writeopen \/ writeopen' = FALSE
    BY <1>3, Zenon DEF Pipeclose, IInv, Types
  <2>4. CASE writeopen' = writeopen BY <2>1, <2>4, Stutters, Zenon
  <2>5. CASE writeopen' = FALSE BY <2>1, <2>2, <2>5, Zenon DEF Fifo!Next, Fifo!Close
  <2> QED BY <2>3, <2>4, <2>5, Zenon
<1>4. ASSUME NEW p \in Procs,
             \/ \E q \in Procs : Fork(p, q)
             \/ \E e \in Ends : Fileclose(p, e)
             \/ Kill(p)
             \/ \E s \in Messages : Write(p, s)
             \/ \E k \in ReadSizes : Read(p, k)
             \/ PipereadEmpty(p)
      PROVE  UNCHANGED Fifo!vars
  <2>1. UNCHANGED <<data, nread, nwrite, ret, writeopen>>
    BY <1>4, Zenon DEF Fork, Fileclose, Kill, Write, Read, PipereadEmpty, pipevars
  <2> QED BY <2>1, Stutters, Zenon
<1>5. CASE UNCHANGED vars
  BY <1>5, Stutters, Zenon DEF vars, pipevars
<1> QED BY <1>1, <1>2, <1>3, <1>4, <1>5, ZenonT(60) DEF Next

(* A new pipe is an empty queue. *)
LEMMA InitMaps == Init => Fifo!Init
<1> SUFFICES ASSUME Init PROVE Fifo!Init
  BY Zenon
<1>1. Count = 0
  BY CountValue, PipeAssumption DEF Init, Count
<1>2. Queue = <<>> BY <1>1 DEF Queue
<1> QED BY <1>2, Zenon DEF Init, Fifo!Init

(* The counts of the two open files are exact in every behaviour, so       *)
(* fileclose() calls pipeclose() once for each end (file.c).               *)
THEOREM RefCounts == Spec => []RefsExact
<1>1. IInv => RefsExact
  BY Zenon DEF IInv, Counted, Openers, IsOpen, RefsExact, Ends
<1> QED BY <1>1, Invariance, PTL

(* pipeclose() frees the page of the pipe only when no process has an end  *)
(* open, is in a call on it, or sleeps on it (pipe.c).                     *)
THEOREM NoUseAfterFree == Spec => []FreedUnused
<1>1. IInv => FreedUnused
  <2> SUFFICES ASSUME IInv, freed, NEW p \in Procs
               PROVE  pc[p] = "user" /\ chan[p] = NULL /\ ofile[p] = {}
    BY Zenon DEF FreedUnused
  <2>1. ASSUME NEW e \in Ends PROVE e \notin ofile[p] /\ pc[p] # CloseOf(e)
    <3>1. Counted(e) /\ ~IsOpen(e) BY Zenon DEF IInv, IsOpen
    <3>2. ~(Cardinality(Openers(e)) > 0) BY <3>1, Zenon DEF Counted
    <3>3. Openers(e) = {}
      BY SMTT(30), <3>2, OpenersFinite, FS_EmptySet, FS_CardinalityType
    <3> QED BY <3>1, <3>3, Zenon DEF Openers, Counted
  <2>2. ofile[p] = {} /\ pc[p] \notin {"close_r", "close_w"}
    BY ZenonT(60), <2>1 DEF IInv, Types, Ends, CloseOf
  <2> QED BY ZenonT(60), <2>2 DEF IInv, InCall, Types
<1> QED BY <1>1, Invariance, PTL

(* No process sleeps in pipewrite() or piperead() without the reason that  *)
(* the code tests for before it sleeps, whatever the number of readers and *)
(* writers, the size of the ring and the width of its counters (pipe.c).   *)
THEOREM SleepOnlyWithReason == Spec => []SleepersHaveReason
<1>1. IInv => SleepersHaveReason
  BY Zenon DEF IInv
<1> QED BY <1>1, Invariance, PTL

(* The pipe implements a bounded queue, whatever the size of the ring and  *)
(* the width of its counters: pipewrite() and piperead() lose, duplicate   *)
(* and reorder no byte, and a reader sees the end of file only when the    *)
(* pipe is empty and no writer is left (pipe.c).                           *)
THEOREM FirstInFirstOut == Spec => FifoSpec
<1>1. Spec => Fifo!Init BY InitMaps, Zenon DEF Spec
<1> QED BY <1>1, NextMaps, Invariance, PTL DEF Spec, FifoSpec, Fifo!Spec

=============================================================================
