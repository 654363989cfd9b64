------------------------------ MODULE Paging ------------------------------
(***************************************************************************)
(* Demand paging of one process with pid > 2: the tables memory_pages and  *)
(* file_pages, the page-table flags, the swap file and the four            *)
(* replacement policies of vm.c, with exec(), sbrk() and fork().           *)
(*                                                                         *)
(* All of this state belongs to the process, so its system calls and       *)
(* faults run one after the other; fork() continues as the parent or as    *)
(* the child.  Addresses are page numbers.  The content of a page is one   *)
(* value, 0 or the mark v + 1 that a program leaves in page v.  Sharing of *)
(* frames is module Cow's: here a frame is the content of its page.        *)
(* The counters page_faults and paged_out are left out.  When the kernel   *)
(* reads or writes a page at its user address the processor sets PTE_A,    *)
(* as it does for the program.                                             *)
(***************************************************************************)
EXTENDS Integers, Sequences, FiniteSets

CONSTANTS
  MAX_PSYC_PAGES,   \* mmu.h
  MAX_TOTAL_PAGES,  \* mmu.h
  Policies,         \* values of the build option SELECTION
  AGEBITS,          \* width of the uint age: 32 in the code
  NPages,           \* bound: pages of the largest address space
  ImagePages,       \* pages of the program exec() loads
  MaxExecs,         \* bound: calls of exec()
  Programs,         \* what programs do beyond touching and growing memory
  LeftoverVas       \* va fields an earlier process may have left

ASSUME ConstantsAssumption ==
  /\ MAX_PSYC_PAGES \in Nat \ {0} /\ MAX_TOTAL_PAGES \in Nat
  /\ Policies \subseteq {"SCFIFO", "NFUA", "LAPA", "AQ"}
  /\ AGEBITS \in Nat \ {0}
  /\ ImagePages \in Nat \ {0} /\ NPages \in Nat /\ ImagePages + 2 <= NPages
  /\ MaxExecs \in Nat
  /\ Programs \subseteq SUBSET {"shrink", "fork", "stray", "run out"}
  /\ LeftoverVas \subseteq 0 .. NPages - 1 /\ LeftoverVas # {}

Slots == 0 .. MAX_PSYC_PAGES - 1
Pages == 0 .. NPages - 1
Dirs == {0, 1}         \* the page directory in use, and exec()'s new one
Flags == {"P", "W", "U", "A", "PG", "COW"}
AllOnes == 2 ^ AGEBITS - 1
NFUA_MSB == 2 ^ (AGEBITS - 1)
Mark(v) == v + 1
NoGuard == NPages

(* NFUA_MSB is the top bit of an age. *)
ASSUME AgeAssumption == NFUA_MSB \in Nat \ {0} /\ AllOnes = 2 * NFUA_MSB - 1

VARIABLES
  POLICY,     \* the build option SELECTION
  may,        \* what this program does: sbrk(-n), fork(), touch the page below
              \* its stack; and whether kalloc() may have no page for it
  cur,        \* p->pgdir
  sz,         \* p->sz, in pages
  pte,        \* pte[d][v]: the flags of the entry of page v in directory d
  data,       \* data[d][v]: the content of the frame it names, if PTE_P
  mp,         \* p->memory_pages
  fp,         \* p->file_pages; their age is 0 whenever it is copied
  timestamp,  \* p->timestamp
  file,       \* the swap file, a sequence of page contents
  expected,   \* what the program last stored in each page
  guard,      \* the page below the stack that exec() made inaccessible
  pc,         \* where the process is
  loc,        \* locals: the fault's page; allocuvm()'s pgdir, a, newsz, oldsz
  spins,      \* passes of the loop in next_i_in_mem_to_remove()
  execs,      \* calls of exec() so far
  halt        \* what stopped the process: a panic(), a wait for itself; or "no"

vars == <<POLICY, may, cur, sz, pte, data, mp, fp, timestamp, file, expected, guard, pc, loc,
          spins, execs, halt>>

PCs == {"user", "exec_text", "exec_load", "exec_stack", "exec_end", "sbrk",
        "swap", "handle_pf"}
Callers == {"exec_text", "exec_stack", "sbrk"}
MemEntry == [used : BOOLEAN, va : Pages, dir : Dirs, time : Nat, age : 0 .. AllOnes]
FileEntry == [used : BOOLEAN, va : Pages, dir : Dirs]

TypeOK ==
  /\ POLICY \in Policies /\ may \in Programs
  /\ cur \in Dirs
  /\ sz \in 0 .. NPages
  /\ pte \in [Dirs -> [Pages -> SUBSET Flags]]
  /\ data \in [Dirs -> [Pages -> 0 .. NPages]]
  /\ mp \in [Slots -> MemEntry]
  /\ fp \in [Slots -> FileEntry]
  /\ timestamp \in Nat
  /\ file \in Seq(0 .. NPages) /\ Len(file) <= MAX_PSYC_PAGES
  /\ expected \in [Pages -> 0 .. NPages]
  /\ guard \in Pages \cup {NoGuard}
  /\ pc \in PCs
  /\ loc \in [dir : Dirs, a : 0 .. NPages, newsz : 0 .. NPages, oldsz : 0 .. NPages,
              caller : Callers]
  /\ spins \in Nat
  /\ execs \in 0 .. MaxExecs

(* A child of the shell: the shell (pid 2) has no tables, so the pages the *)
(* child shares with it are in none, and its first act is exec().          *)
Init ==
  /\ POLICY \in Policies /\ may \in Programs
  /\ cur = 0
  /\ sz = 1
  /\ pte = [d \in Dirs |-> [v \in Pages |-> IF d = 0 /\ v = 0 THEN {"P", "U", "COW"} ELSE {}]]
  /\ data = [d \in Dirs |-> [v \in Pages |-> 0]]
  /\ mp = [i \in Slots |-> [used |-> FALSE, va |-> 0, dir |-> 0, time |-> 0, age |-> 0]]
  /\ fp \in [Slots -> [used : {FALSE}, va : LeftoverVas, dir : {0}]]
  /\ timestamp = 0
  /\ file = <<>>
  /\ expected = [v \in Pages |-> 0]
  /\ guard = NoGuard
  /\ pc = "user"
  /\ loc = [dir |-> 0, a |-> 0, newsz |-> 0, oldsz |-> 0, caller |-> "sbrk"]
  /\ spins = 0
  /\ execs = 0
  /\ halt = "no"

----------------------------------------------------------------------------
(* Helpers of vm.c on the tables m (memory_pages) and f (file_pages). *)

Lowest(S) == IF S = {} THEN -1 ELSE CHOOSE i \in S : \A j \in S : i <= j

next_free_i_in_mem(m) == Lowest({i \in Slots : ~m[i].used})

(* Variant: the first slot, whether it is used or not. *)
next_free_i_in_fileFirst(f) == IF \A i \in Slots : f[i].used THEN -1 ELSE 0
next_free_i_in_file(f) == Lowest({i \in Slots : ~f[i].used})

(* The index of the first entry with this address, used or not. *)
get_i_of_va_in_file(f, v) == Lowest({i \in Slots : f[i].va = v})

(* Variants: PTE_PG stays set; PTE_P stays set; PTE_PG is not set. *)
set_page_flags_in_memStale(flags) == flags \cup {"P", "W", "U"}
set_page_flags_in_diskStale(flags) == flags \cup {"PG"}
set_page_flags_in_diskLost(flags) == flags \ {"P"}

set_page_flags_in_mem(flags) == (flags \cup {"P", "W", "U"}) \ {"PG"}
set_page_flags_in_disk(flags) == (flags \cup {"PG"}) \ {"P"}

(* Variant: every policy starts from a full age. *)
LoadAgeFull == AllOnes

(* The age a page has when it enters memory_pages. *)
LoadAge == IF POLICY = "LAPA" THEN AllOnes ELSE 0

(* AQ_next(): the last entry moves to the front. *)
AQ_next(m) == [i \in Slots |-> m[(i + MAX_PSYC_PAGES - 1) % MAX_PSYC_PAGES]]

(* AQ_update_queue(): one pass from the end of the queue; an accessed page *)
(* changes places with its successor when that one was not accessed.       *)
AQ_update_queue(m) ==
  LET Accessed(e) == "A" \in pte[cur][e.va]
      q[i \in 1 .. MAX_PSYC_PAGES] ==
        IF i = MAX_PSYC_PAGES THEN m
        ELSE LET n == q[i + 1] IN
             IF n[i].used /\ n[i - 1].used /\ ~Accessed(n[i]) /\ Accessed(n[i - 1])
               THEN [n EXCEPT ![i - 1] = n[i], ![i] = n[i - 1]]
               ELSE n
  IN q[1]

(* NFUA_update_age(): every used entry ages, and takes the accessed bit of *)
(* its page as its new top bit.                                            *)
NFUA_update_age(m) ==
  [i \in Slots |->
     IF m[i].used
       THEN [m[i] EXCEPT !.age = (@ \div 2) +
               (IF "A" \in pte[cur][m[i].va] THEN NFUA_MSB ELSE 0)]
       ELSE m[i]]

(* What trap() does on T_PGFLT before it calls handle_pf(). *)
TrapTables ==
  CASE POLICY \in {"NFUA", "LAPA"} -> NFUA_update_age(mp)
    [] POLICY = "AQ" -> AQ_update_queue(mp)
    [] OTHER -> mp

TrapPte ==
  IF POLICY \in {"NFUA", "LAPA"}
    THEN [pte EXCEPT ![cur] = [v \in Pages |->
            IF \E i \in Slots : mp[i].used /\ mp[i].va = v THEN @[v] \ {"A"} ELSE @[v]]]
    ELSE pte

----------------------------------------------------------------------------
(* next_i_in_mem_to_remove(): the slot each policy picks, -1 for another   *)
(* pass of its loop.                                                       *)

Used == {i \in Slots : mp[i].used}

(* The first of the used slots with the least key. *)
FirstLeast(S, key(_)) == Lowest({i \in S : \A j \in S : key(i) <= key(j)})

Ones(n) == Cardinality({j \in 0 .. AGEBITS - 1 : (n \div 2 ^ j) % 2 = 1})

NFUA_next == LET age(i) == mp[i].age IN
  FirstLeast({i \in Used : mp[i].age < AllOnes}, age)

(* Variant: a full age is never chosen. *)
LAPA_nextStrict ==
  LET key(i) == Ones(mp[i].age) * (AllOnes + 1) + mp[i].age IN
  FirstLeast({i \in Used : mp[i].age < AllOnes}, key)

(* Fewest bits set, then least age. *)
LAPA_next ==
  LET key(i) == Ones(mp[i].age) * (AllOnes + 1) + mp[i].age IN FirstLeast(Used, key)

SCFIFO_oldest == LET time(i) == mp[i].time IN FirstLeast(Used, time)

SecondChance ==
  POLICY = "SCFIFO" /\ "A" \in pte[mp[SCFIFO_oldest].dir][mp[SCFIFO_oldest].va]

Victim ==
  CASE POLICY = "NFUA" -> NFUA_next
    [] POLICY = "LAPA" -> LAPA_next
    [] POLICY = "AQ" -> 0
    [] POLICY = "SCFIFO" -> IF SecondChance THEN -1 ELSE SCFIFO_oldest

(* memory_pages when Victim is in it: AQ_next() has turned the queue. *)
VictimTable == IF POLICY = "AQ" THEN AQ_next(mp) ELSE mp

----------------------------------------------------------------------------
Alive == halt = "no"
Panic(why) ==
  /\ halt' = why
  /\ UNCHANGED <<cur, sz, pte, data, mp, fp, timestamp, file, expected, guard, pc, loc,
                 spins, execs>>

(* Pages the program may touch: its own, and perhaps the guard. *)
Legal(v) == v < sz /\ ("stray" \in may \/ v # guard)

Allows(flags, write) == {"P", "U"} \subseteq flags /\ (write => "W" \in flags)

(* A load or a store that the page table allows. *)
Touch(v, write) ==
  /\ Alive /\ pc = "user" /\ execs > 0 /\ Legal(v) /\ Allows(pte[cur][v], write)
  /\ pte' = [pte EXCEPT ![cur][v] = @ \cup {"A"}]
  /\ data' = IF write THEN [data EXCEPT ![cur][v] = Mark(v)] ELSE data
  /\ expected' = IF write THEN [expected EXCEPT ![v] = Mark(v)] ELSE expected
  /\ UNCHANGED <<cur, sz, mp, fp, timestamp, file, guard, pc, loc, spins, execs, halt>>

Faults(v, write) ==
  Alive /\ pc = "user" /\ execs > 0 /\ Legal(v) /\ ~Allows(pte[cur][v], write)

PagedOut(flags) == "PG" \in flags /\ "P" \notin flags
CopyOnWrite(flags) == "COW" \in flags /\ "W" \notin flags

(* handle_pf() once it has slot i of the table m for page v: the page is   *)
(* read from the slot the lookup finds; when the slot held a page that is  *)
(* swapped out, that one takes its place in the file.                      *)
LoadPage(m, flags, v, i, needswap) ==
  LET k == get_i_of_va_in_file(fp, v)
      old == m[i]
      loaded == [flags EXCEPT ![cur][v] = set_page_flags_in_mem(@) \cup {"A"}]
  IN
  IF k = -1 \/ k >= Len(file) THEN Panic("page not in the swap file")
  ELSE IF needswap /\ "P" \notin loaded[cur][old.va] THEN Panic("fault inside handle_pf")
  ELSE
  /\ mp' = [m EXCEPT ![i] = [used |-> fp[k].used, va |-> fp[k].va, dir |-> fp[k].dir,
                             time |-> timestamp, age |-> LoadAge]]
  /\ timestamp' = timestamp + 1
  /\ IF needswap
       THEN /\ file' = [file EXCEPT ![k + 1] = data[cur][old.va]]
            /\ fp' = [fp EXCEPT ![k] = [used |-> TRUE, va |-> old.va, dir |-> old.dir]]
            /\ pte' = [loaded EXCEPT ![old.dir][old.va] = set_page_flags_in_disk(@)]
       ELSE /\ fp' = [fp EXCEPT ![k].used = FALSE]
            /\ pte' = loaded
            /\ UNCHANGED file
  /\ data' = [data EXCEPT ![cur][v] = file[k + 1]]
  /\ pc' = "user"
  /\ spins' = 0
  /\ UNCHANGED <<cur, sz, expected, guard, loc, execs, halt>>

(* T_PGFLT on a page in the swap file: handle_pf() up to the choice of a   *)
(* slot.  The page kalloc() returns is used without a test.                *)
PageFault(v, write) ==
  /\ Faults(v, write) /\ PagedOut(pte[cur][v])
  /\ \/ "run out" \in may /\ Panic("null page mapped")
     \/ LET i == next_free_i_in_mem(TrapTables) IN
        IF i # -1
          THEN LoadPage(TrapTables, TrapPte, v, i, FALSE)
          ELSE /\ mp' = TrapTables
               /\ pte' = TrapPte
               /\ pc' = "handle_pf"
               /\ loc' = [loc EXCEPT !.a = v]
               /\ UNCHANGED <<cur, sz, data, fp, timestamp, file, expected, guard, spins,
                              execs, halt>>

(* handle_pf() with the victim next_i_in_mem_to_remove() returned. *)
HandlePf ==
  /\ Alive /\ pc = "handle_pf" /\ Victim # -1
  /\ LoadPage(VictimTable, pte, loc.a, Victim, TRUE)

(* T_PGFLT on a shared page: handle_cow() gives the process a copy, or the *)
(* page itself when nobody shares it any more (module Cow).                *)
CowFault(v, write) ==
  /\ Faults(v, write) /\ ~PagedOut(pte[cur][v]) /\ CopyOnWrite(pte[cur][v])
  /\ mp' = TrapTables
  /\ \/ pte' = [TrapPte EXCEPT ![cur][v] = {"P", "U", "W"}]
     \/ pte' = [TrapPte EXCEPT ![cur][v] = (@ \ {"COW"}) \cup {"W"}]
  /\ UNCHANGED <<cur, sz, data, fp, timestamp, file, expected, guard, pc, loc, spins,
                 execs, halt>>

(* Any other fault of a process with pid > 2. *)
SegmentationFault(v, write) ==
  /\ Faults(v, write) /\ ~PagedOut(pte[cur][v]) /\ ~CopyOnWrite(pte[cur][v])
  /\ Panic("segmentation fault")

(* Variant: the accessed bit is left set. *)
GiveSecondChanceAgain ==
  LET i == SCFIFO_oldest IN
  /\ Alive /\ pc \in {"swap", "handle_pf"} /\ SecondChance
  /\ mp' = [mp EXCEPT ![i].time = timestamp]
  /\ timestamp' = timestamp + 1
  /\ spins' = spins + 1
  /\ UNCHANGED <<cur, sz, pte, data, fp, file, expected, guard, pc, loc, execs, halt>>

(* SCFIFO_next() gives the oldest page a second chance. *)
GiveSecondChance ==
  LET i == SCFIFO_oldest IN
  /\ Alive /\ pc \in {"swap", "handle_pf"} /\ SecondChance
  /\ pte' = [pte EXCEPT ![mp[i].dir][mp[i].va] = @ \ {"A"}]
  /\ mp' = [mp EXCEPT ![i].time = timestamp]
  /\ timestamp' = timestamp + 1
  /\ spins' = spins + 1
  /\ UNCHANGED <<cur, sz, data, fp, file, expected, guard, pc, loc, execs, halt>>

----------------------------------------------------------------------------
(* deallocuvm(pgdir, newsz, oldsz) on directory d: pages that are in       *)
(* memory go, with their entries in m; the others are passed over.         *)
Freed(d, lo, hi) == {v \in Pages : lo <= v /\ v < hi /\ "P" \in pte[d][v]}

DeallocPte(d, lo, hi) ==
  [pte EXCEPT ![d] = [v \in Pages |-> IF v \in Freed(d, lo, hi) THEN {} ELSE @[v]]]

DeallocMem(d, lo, hi) ==
  [i \in Slots |-> IF mp[i].used /\ mp[i].dir = d /\ mp[i].va \in Freed(d, lo, hi)
                     THEN [mp[i] EXCEPT !.used = FALSE] ELSE mp[i]]

(* sbrk(n) with n > 0: growproc() calls allocuvm().  NPages stands for the *)
(* end of user memory, KERNBASE.                                           *)
Sbrk(n) ==
  /\ Alive /\ pc = "user" /\ execs > 0 /\ sz + n <= NPages
  /\ n <= MAX_TOTAL_PAGES
  /\ pc' = "sbrk"
  /\ loc' = [dir |-> cur, a |-> sz, newsz |-> sz + n, oldsz |-> sz, caller |-> "sbrk"]
  /\ UNCHANGED <<cur, sz, pte, data, mp, fp, timestamp, file, expected, guard, spins,
                 execs, halt>>

(* sbrk(-n). *)
Shrink(n) ==
  /\ Alive /\ pc = "user" /\ execs > 0 /\ "shrink" \in may /\ n < sz
  /\ pte' = DeallocPte(cur, sz - n, sz)
  /\ mp' = DeallocMem(cur, sz - n, sz)
  /\ sz' = sz - n
  /\ UNCHANGED <<cur, data, fp, timestamp, file, expected, guard, pc, loc, spins, execs,
                 halt>>

NewEntry == [used |-> TRUE, va |-> loc.a, dir |-> loc.dir, time |-> timestamp,
             age |-> LoadAge]

(* One turn of allocuvm()'s loop that finds a free slot or calls swap(). *)
AllocPage ==
  LET i == next_free_i_in_mem(mp) IN
  /\ Alive /\ pc \in Callers /\ loc.a < loc.newsz
  /\ IF "P" \in pte[loc.dir][loc.a] THEN Panic("remap")
     ELSE
     /\ pte' = [pte EXCEPT ![loc.dir][loc.a] = {"P", "W", "U"}]
     /\ data' = [data EXCEPT ![loc.dir][loc.a] = 0]
     /\ expected' = IF pc = "sbrk" THEN [expected EXCEPT ![loc.a] = 0] ELSE expected
     /\ IF i = -1
          THEN pc' = "swap" /\ UNCHANGED <<mp, timestamp, loc>>
          ELSE /\ mp' = IF POLICY = "AQ" THEN [AQ_next(mp) EXCEPT ![0] = NewEntry]
                                         ELSE [mp EXCEPT ![i] = NewEntry]
               /\ timestamp' = timestamp + 1
               /\ loc' = [loc EXCEPT !.a = @ + 1]
               /\ UNCHANGED pc
     /\ UNCHANGED <<cur, sz, fp, file, guard, spins, execs, halt>>

(* allocuvm() when kalloc() returns 0. *)
AllocFail ==
  /\ Alive /\ pc \in Callers /\ loc.a < loc.newsz /\ "run out" \in may
  /\ IF pc # "sbrk" THEN Panic("EXEC FAILED")
     ELSE /\ pte' = DeallocPte(loc.dir, loc.oldsz, loc.newsz)
          /\ mp' = DeallocMem(loc.dir, loc.oldsz, loc.newsz)
          /\ pc' = "user"
          /\ UNCHANGED <<cur, sz, data, fp, timestamp, file, expected, guard, loc, spins,
                         execs, halt>>

(* swap() with its victim, then the entry of the new page.  The victim is  *)
(* written from its address in the current address space.  Without a slot  *)
(* in the file writeToSwapFile() and swap() return -1, and the new entry   *)
(* goes to memory_pages[-1], which is the last entry of file_pages.        *)
Swap ==
  LET i == Victim
      old == VictimTable[i]
      j == next_free_i_in_file(fp)
  IN
  /\ Alive /\ pc = "swap" /\ i # -1
  /\ IF j # -1 /\ j <= Len(file) /\ "P" \notin pte[cur][old.va]
       THEN Panic("fault inside swap")
       ELSE
       /\ IF j = -1 \/ j > Len(file)
            THEN /\ fp' = [fp EXCEPT ![MAX_PSYC_PAGES - 1] =
                             [used |-> TRUE, va |-> loc.a, dir |-> loc.dir]]
                 /\ mp' = VictimTable
                 /\ UNCHANGED <<file, pte>>
            ELSE /\ file' = [k \in 1 .. (IF j = Len(file) THEN j + 1 ELSE Len(file)) |->
                               IF k = j + 1 THEN data[cur][old.va] ELSE file[k]]
                 /\ fp' = [fp EXCEPT ![j] = [used |-> TRUE, va |-> old.va, dir |-> old.dir]]
                 /\ pte' = [pte EXCEPT ![cur][old.va] = @ \cup {"A"},
                                       ![old.dir][old.va] = set_page_flags_in_disk(@)]
                 /\ mp' = [VictimTable EXCEPT ![i] = NewEntry]
       /\ timestamp' = timestamp + 1
       /\ loc' = [loc EXCEPT !.a = @ + 1]
       /\ pc' = loc.caller
       /\ spins' = 0
       /\ UNCHANGED <<cur, sz, data, expected, guard, execs, halt>>

(* allocuvm() returns; growproc() sets p->sz. *)
AllocDone ==
  /\ Alive /\ pc \in Callers /\ loc.a = loc.newsz
  /\ pc' = CASE pc = "sbrk" -> "user" [] pc = "exec_text" -> "exec_load"
             [] pc = "exec_stack" -> "exec_end"
  /\ sz' = IF pc = "sbrk" THEN loc.newsz ELSE sz
  /\ UNCHANGED <<cur, pte, data, mp, fp, timestamp, file, expected, guard, loc, spins,
                 execs, halt>>

----------------------------------------------------------------------------
(* exec(): the image goes to a directory of its own, which replaces the    *)
(* current one at the end.                                                 *)
ExecStart ==
  /\ Alive /\ pc = "user" /\ execs < MaxExecs
  /\ execs' = execs + 1
  /\ pc' = "exec_text"
  /\ loc' = [dir |-> 1 - cur, a |-> 0, newsz |-> ImagePages, oldsz |-> 0,
             caller |-> "exec_text"]
  /\ UNCHANGED <<cur, sz, pte, data, mp, fp, timestamp, file, expected, guard, spins,
                 halt>>

(* loaduvm() writes through the physical address in the entry, which is 0  *)
(* for a page that is already in the swap file.                            *)
ExecLoad ==
  /\ Alive /\ pc = "exec_load"
  /\ data' = [data EXCEPT ![loc.dir] = [v \in Pages |->
                IF v < ImagePages /\ "P" \in pte[loc.dir][v] THEN Mark(v) ELSE @[v]]]
  /\ pc' = "exec_stack"
  /\ loc' = [loc EXCEPT !.newsz = ImagePages + 2, !.oldsz = ImagePages,
                        !.caller = "exec_stack"]
  /\ UNCHANGED <<cur, sz, pte, mp, fp, timestamp, file, expected, guard, spins, execs,
                 halt>>

(* clearpteu(), copyout() of the arguments, and the commit to the new      *)
(* image; freevm() of the old one.                                         *)
ExecEnd ==
  LET new == loc.dir
      stack == ImagePages + 1
  IN
  /\ Alive /\ pc = "exec_end"
  /\ IF ~({"P", "U"} \subseteq pte[new][stack]) THEN Panic("EXEC FAILED")
     ELSE
     /\ pte' = [pte EXCEPT ![new][ImagePages] = @ \ {"U"}, ![cur] = [v \in Pages |-> {}]]
     /\ data' = [data EXCEPT ![new][stack] = Mark(stack)]
     /\ expected' = [v \in Pages |-> IF v < ImagePages \/ v = stack THEN Mark(v) ELSE 0]
     /\ mp' = DeallocMem(cur, 0, NPages)
     /\ cur' = new
     /\ sz' = ImagePages + 2
     /\ guard' = ImagePages
     /\ pc' = "user"
     /\ UNCHANGED <<fp, timestamp, file, loc, spins, execs, halt>>

----------------------------------------------------------------------------
(* fork(): copyonwriteuvm(), then the swap file and the tables. *)

SharedPte(flags) == (flags \cup {"COW"}) \ {"W"}

(* The used slots of the parent are written to the child's empty file in   *)
(* order; writei() refuses to leave a hole.                                *)
FileSlotsUsed == {i \in Slots : fp[i].used}
FileHasHole == \E i \in FileSlotsUsed, j \in Slots : j < i /\ j \notin FileSlotsUsed

ForkParent ==
  /\ Alive /\ pc = "user" /\ execs > 0 /\ "fork" \in may
  /\ "PG" \notin pte[cur][0] /\ ~FileHasHole
  /\ pte' = [pte EXCEPT ![cur] = [v \in Pages |->
               IF v < sz /\ "PG" \notin @[v] THEN SharedPte(@[v]) ELSE @[v]]]
  /\ UNCHANGED <<cur, sz, data, mp, fp, timestamp, file, expected, guard, pc, loc, spins,
                 execs, halt>>

(* Variant: the child starts with no file and no entry for it. *)
ForkChildNoSwap ==
  /\ Alive /\ pc = "user" /\ execs > 0 /\ "fork" \in may
  /\ "PG" \notin pte[cur][0] /\ ~FileHasHole
  /\ pte' = [pte EXCEPT ![cur] = [v \in Pages |->
               IF v >= sz THEN {} ELSE IF "PG" \in @[v] THEN {"PG"} ELSE SharedPte(@[v])]]
  /\ file' = <<>>
  /\ fp' = [i \in Slots |-> [fp[i] EXCEPT !.used = FALSE]]
  /\ UNCHANGED <<cur, sz, data, mp, timestamp, expected, guard, pc, loc, spins, execs, halt>>

ForkChild ==
  /\ Alive /\ pc = "user" /\ execs > 0 /\ "fork" \in may
  /\ "PG" \notin pte[cur][0] /\ ~FileHasHole
  /\ pte' = [pte EXCEPT ![cur] = [v \in Pages |->
               IF v >= sz THEN {} ELSE IF "PG" \in @[v] THEN {"PG"} ELSE SharedPte(@[v])]]
  /\ file' = SubSeq(file, 1, Cardinality(FileSlotsUsed))
  /\ mp' = [i \in Slots |-> [mp[i] EXCEPT !.dir = cur]]
  /\ fp' = [i \in Slots |-> [fp[i] EXCEPT !.dir = cur]]
  /\ UNCHANGED <<cur, sz, data, timestamp, expected, guard, pc, loc, spins, execs, halt>>

(* copyonwriteuvm() meets a paged-out page before it has mapped any: the   *)
(* new directory has no page table for set_page_flags_in_disk().           *)
ForkPanic ==
  /\ Alive /\ pc = "user" /\ execs > 0 /\ "fork" \in may
  /\ \/ "PG" \in pte[cur][0] /\ Panic("set_page_flags_in_disk")
     \/ "PG" \notin pte[cur][0] /\ FileHasHole /\ Panic("fork: writeToSwapFile")

----------------------------------------------------------------------------
Next ==
  /\ UNCHANGED <<POLICY, may>>
  /\ \/ \E v \in Pages, write \in BOOLEAN :
          \/ Touch(v, write) \/ PageFault(v, write) \/ CowFault(v, write)
          \/ SegmentationFault(v, write)
     \/ HandlePf \/ GiveSecondChance
     \/ \E n \in 1 .. NPages : Sbrk(n) \/ Shrink(n)
     \/ AllocPage \/ AllocFail \/ Swap \/ AllocDone
     \/ ExecStart \/ ExecLoad \/ ExecEnd
     \/ ForkParent \/ ForkChild \/ ForkPanic

Spec == Init /\ [][Next]_vars

----------------------------------------------------------------------------
AtRest == Alive /\ pc = "user" /\ execs > 0

(* A program finds in every page what it last stored there, whether the    *)
(* page is in memory or where handle_pf() will look for it in the file.    *)
ContentsKept ==
  AtRest => \A v \in 0 .. sz - 1 :
    IF "P" \in pte[cur][v] THEN data[cur][v] = expected[v]
    ELSE LET k == get_i_of_va_in_file(fp, v) IN
         k # -1 /\ fp[k].used /\ k < Len(file) /\ file[k + 1] = expected[v]

(* The same for parent and child of a fork() that did not panic. *)
ForkKeepsContents == may = {"fork"} => ContentsKept

(* Between calls every page of the process is in exactly one table, the    *)
(* one its flags say, and the tables hold nothing else.                    *)
TablesMatchPtes ==
  AtRest => \A v \in Pages :
    LET inMem == {i \in Slots : mp[i].used /\ mp[i].dir = cur /\ mp[i].va = v}
        inFile == {i \in Slots : fp[i].used /\ fp[i].dir = cur /\ fp[i].va = v}
    IN
    /\ Cardinality(inMem) = IF "P" \in pte[cur][v] THEN 1 ELSE 0
    /\ Cardinality(inFile) = IF "PG" \in pte[cur][v] THEN 1 ELSE 0
    /\ v < sz <=> inMem \cup inFile # {}

(* mmu.h:108: MAX_PSYC_PAGES is the number of "pages in the physical       *)
(* memory".                                                                *)
ResidentBound ==
  AtRest => Cardinality({v \in Pages : "P" \in pte[cur][v]}) <= MAX_PSYC_PAGES

(* mmu.h:109: MAX_TOTAL_PAGES, "process will not be larger than". *)
TotalBound == AtRest => sz <= MAX_TOTAL_PAGES

(* The loop of next_i_in_mem_to_remove() ends: a policy always has a       *)
(* victim, or gives each resident page at most one second chance first.    *)
VictimFound ==
  Alive /\ pc \in {"swap", "handle_pf"} =>
    /\ Victim # -1 \/ SecondChance
    /\ spins <= MAX_PSYC_PAGES

(* No panic() of the paging code is reached by a program that only touches *)
(* its own memory.                                                         *)
NoPanic == halt = "no"

(* vm.c:654: clearpteu() is "used to create an inaccessible page beneath   *)
(* the user stack".                                                        *)
GuardInaccessible == AtRest => "U" \notin pte[cur][guard]

(* vm.c:589: deallocuvm() is to "deallocate user pages to bring the        *)
(* process size from oldsz to newsz".                                      *)
AboveBreakUnmapped ==
  AtRest => \A v \in Pages : v >= sz => pte[cur][v] \cap {"P", "PG"} = {}
============================================================================
