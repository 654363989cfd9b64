------------------------------- MODULE Cow -------------------------------
(***************************************************************************)
(* Physical page frames and copy-on-write sharing: kalloc.c, the           *)
(* copy-on-write half of vm.c and the way fork(), wait() and sbrk() use    *)
(* them.  Every section under kmem.lock is one step, so the steps of       *)
(* different processes interleave the way they do on the CPUs of a         *)
(* multiprocessor (a process itself is on one CPU at a time).              *)
(*                                                                         *)
(* Data is abstracted to one value per page.  The free list is a set: the  *)
(* frame kalloc() takes from it is fixed but arbitrary, its place in the   *)
(* list never matters.  The page directory and its page-table pages are    *)
(* one frame.  Of paging, only what it does to frames is here: which page  *)
(* goes to the swap file, and its bookkeeping, are module Paging's.        *)
(***************************************************************************)
EXTENDS Integers, FiniteSets

CONSTANTS
  Procs,     \* slots of ptable.proc
  initproc,  \* the slot of the first process, which never exits
  NPages,    \* bound: pages in the largest user address space
  Frames,    \* physical page frames
  Vals,      \* contents a program can store in a page
  Zero,      \* the content memset(mem, 0, PGSIZE) leaves
  Junk,      \* the content kfree() leaves: memset(v, 1, PGSIZE)
  NULL,      \* a null pointer
  MaxPid     \* bound: pids handed out by allocproc()

Pages == 0 .. NPages - 1

(* What a process reaches a frame through: a PTE of its page table, its    *)
(* kernel stack, its page directory, handle_cow()'s local variable mem.    *)
KSTACK == -1
PGDIR == -2
MEM == -3
Slots == Pages \cup {KSTACK, PGDIR, MEM}

ASSUME ConstantsAssumption ==
  /\ initproc \in Procs
  /\ NPages \in Nat \ {0}
  /\ IsFiniteSet(Procs) /\ IsFiniteSet(Frames)
  /\ \E a, b, c \in Frames : a # b /\ a # c /\ b # c
  /\ Zero \in Vals /\ Junk \notin Vals
  /\ NULL \notin Frames \cup Procs \cup Vals \cup {Junk}
  /\ MaxPid \in Nat \ {0}

VARIABLES
  NONE,              \* the build option SELECTION=NONE: fork() copies every page
  freelist,          \* kmem.freelist
  references_count,  \* kmem.references_count
  free_pages,        \* kmem.free_pages
  content,           \* what each frame holds
  state,             \* p->state, RUNNABLE, RUNNING and SLEEPING as one
  parent,            \* p->parent
  pid,               \* p->pid
  sz,                \* p->sz, in pages
  frame,             \* frame[p][s]: the frame p reaches through slot s
  writable,          \* PTE_W of a mapped page; the others have PTE_COW
  swapped,           \* what p's swap file holds of a PTE_PG page, else NULL
  pc,                \* where a live process is in the kernel
  np,                \* the local np of fork(), the local p of wait()
  va,                \* the page fork(), freevm() or handle_cow() is at
  nextpid,           \* nextpid
  panicked           \* some CPU called panic()

vars == <<NONE, freelist, references_count, free_pages, content, state, parent, pid,
          sz, frame, writable, swapped, pc, np, va, nextpid, panicked>>

States == {"UNUSED", "EMBRYO", "LIVE", "ZOMBIE"}
PCs == {"user", "setupkvm", "copyuvm", "freevm", "free_kstack",
        "cow_kalloc", "cow_copy", "cow_dec"}

TypeOK ==
  /\ NONE \in BOOLEAN
  /\ freelist \subseteq Frames
  /\ references_count \in [Frames -> Nat]
  /\ free_pages \in Nat
  /\ content \in [Frames -> Vals \cup {Junk}]
  /\ state \in [Procs -> States]
  /\ parent \in [Procs -> Procs \cup {NULL}]
  /\ pid \in [Procs -> 0 .. MaxPid]
  /\ sz \in [Procs -> 0 .. NPages]
  /\ frame \in [Procs -> [Slots -> Frames \cup {NULL}]]
  /\ writable \in [Procs -> [Pages -> BOOLEAN]]
  /\ swapped \in [Procs -> [Pages -> Vals \cup {Junk, NULL}]]
  /\ pc \in [Procs -> PCs]
  /\ np \in [Procs -> Procs \cup {NULL}]
  /\ va \in [Procs -> 0 .. NPages]
  /\ nextpid \in 1 .. MaxPid + 1
  /\ panicked \in BOOLEAN

----------------------------------------------------------------------------
(* kalloc.c *)

(* The page kalloc() returns, when there is one. *)
KallocFrame == CHOOSE f \in freelist : TRUE

(* kalloc() with a page to return. *)
Kalloc ==
  /\ freelist # {}
  /\ freelist' = freelist \ {KallocFrame}
  /\ references_count' = [references_count EXCEPT ![KallocFrame] = 1]
  /\ free_pages' = free_pages - 1

(* Variant: kfree() that puts a page on the list whatever its count. *)
KfreeAlways(f) ==
  /\ references_count' = [references_count EXCEPT ![f] = IF @ > 0 THEN @ - 1 ELSE 0]
  /\ free_pages' = free_pages + 1
  /\ freelist' = freelist \cup {f}
  /\ content' = [content EXCEPT ![f] = Junk]

(* Variant: kfree() without free_pages++. *)
KfreeUncounted(f) ==
  LET refs == IF references_count[f] > 0 THEN references_count[f] - 1 ELSE 0 IN
  /\ references_count' = [references_count EXCEPT ![f] = refs]
  /\ freelist' = IF refs = 0 THEN freelist \cup {f} ELSE freelist
  /\ content' = IF refs = 0 THEN [content EXCEPT ![f] = Junk] ELSE content
  /\ UNCHANGED free_pages

(* kfree(v): the page returns to the list with its last reference. *)
Kfree(f) ==
  LET refs == IF references_count[f] > 0 THEN references_count[f] - 1 ELSE 0 IN
  /\ references_count' = [references_count EXCEPT ![f] = refs]
  /\ free_pages' = free_pages + 1
  /\ freelist' = IF refs = 0 THEN freelist \cup {f} ELSE freelist
  /\ content' = IF refs = 0 THEN [content EXCEPT ![f] = Junk] ELSE content

(* Variant: sharing a page is not counted. *)
IncCounterLost(f) == UNCHANGED <<freelist, references_count, free_pages>>

IncCounter(f) ==
  /\ references_count' = [references_count EXCEPT ![f] = @ + 1]
  /\ UNCHANGED <<freelist, free_pages>>

DecCounter(f) ==
  /\ references_count' = [references_count EXCEPT ![f] = @ - 1]
  /\ UNCHANGED <<freelist, free_pages>>

----------------------------------------------------------------------------
(* userinit(): the first process has a kernel stack, a page directory and  *)
(* one page, each from kalloc(); kinit1() and kinit2() freed every frame.  *)
BootFrames ==
  CHOOSE t \in Frames \X Frames \X Frames :
    t[1] # t[2] /\ t[1] # t[3] /\ t[2] # t[3]

Init ==
  LET kstack == BootFrames[1]
      pgdir  == BootFrames[2]
      text   == BootFrames[3]
  IN
  /\ NONE \in BOOLEAN
  /\ freelist = Frames \ {kstack, pgdir, text}
  /\ references_count = [f \in Frames |-> IF f \in {kstack, pgdir, text} THEN 1 ELSE 0]
  /\ free_pages = Cardinality(freelist)
  /\ content = [f \in Frames |-> IF f = text THEN Zero ELSE Junk]
  /\ state = [p \in Procs |-> IF p = initproc THEN "LIVE" ELSE "UNUSED"]
  /\ parent = [p \in Procs |-> NULL]
  /\ pid = [p \in Procs |-> IF p = initproc THEN 1 ELSE 0]
  /\ sz = [p \in Procs |-> IF p = initproc THEN 1 ELSE 0]
  /\ frame = [p \in Procs |-> [s \in Slots |->
               CASE p = initproc /\ s = KSTACK -> kstack
                 [] p = initproc /\ s = PGDIR -> pgdir
                 [] p = initproc /\ s = 0 -> text
                 [] OTHER -> NULL]]
  /\ writable = [p \in Procs |-> [v \in Pages |-> p = initproc /\ v = 0]]
  /\ swapped = [p \in Procs |-> [v \in Pages |-> NULL]]
  /\ pc = [p \in Procs |-> "user"]
  /\ np = [p \in Procs |-> NULL]
  /\ va = [p \in Procs |-> 0]
  /\ nextpid = 2
  /\ panicked = FALSE

----------------------------------------------------------------------------
(* p runs user code, or kernel code that touches user memory. *)
Running(p) == ~panicked /\ state[p] = "LIVE" /\ pc[p] = "user"

At(p, l) == ~panicked /\ pc[p] = l

(* wait() keeps ptable.lock while it frees the child it found. *)
PtableLockFree ==
  \A q \in Procs : pc[q] = "freevm" => state[np[q]] = "EMBRYO"

(* trap.c: a store to a page with PTE_W. *)
Store(p, v, x) ==
  /\ Running(p) /\ v < sz[p] /\ writable[p][v]
  /\ content' = [content EXCEPT ![frame[p][v]] = x]
  /\ UNCHANGED <<freelist, references_count, free_pages, state, parent, pid, sz, frame,
                 writable, swapped, pc, np, va, nextpid, panicked>>

(* sbrk(PGSIZE): allocuvm() with a page to give; without one it returns 0  *)
(* and nothing has changed.                                                *)
Grow(p) ==
  /\ Running(p) /\ sz[p] < NPages
  /\ Kalloc
  /\ content' = [content EXCEPT ![KallocFrame] = Zero]
  /\ frame' = [frame EXCEPT ![p][sz[p]] = KallocFrame]
  /\ writable' = [writable EXCEPT ![p][sz[p]] = TRUE]
  /\ sz' = [sz EXCEPT ![p] = @ + 1]
  /\ UNCHANGED <<state, parent, pid, swapped, pc, np, va, nextpid, panicked>>

(* sbrk(-PGSIZE): deallocuvm() of a resident page. *)
Shrink(p) ==
  LET v == sz[p] - 1 IN
  /\ Running(p) /\ sz[p] > 1 /\ frame[p][v] # NULL
  /\ Kfree(frame[p][v])
  /\ frame' = [frame EXCEPT ![p][v] = NULL]
  /\ writable' = [writable EXCEPT ![p][v] = FALSE]
  /\ sz' = [sz EXCEPT ![p] = v]
  /\ UNCHANGED <<state, parent, pid, swapped, pc, np, va, nextpid, panicked>>

(* swap() and handle_pf(): page v of p goes to p's swap file. *)
SwapOut(p, v) ==
  /\ ~NONE /\ Running(p) /\ pid[p] > 2 /\ v < sz[p] /\ frame[p][v] # NULL
  /\ swapped' = [swapped EXCEPT ![p][v] = content[frame[p][v]]]
  /\ Kfree(frame[p][v])
  /\ frame' = [frame EXCEPT ![p][v] = NULL]
  /\ writable' = [writable EXCEPT ![p][v] = FALSE]
  /\ UNCHANGED <<state, parent, pid, sz, pc, np, va, nextpid, panicked>>

(* handle_pf(): page v of p comes back, writable, in a frame of its own. *)
SwapIn(p, v) ==
  /\ Running(p) /\ v < sz[p] /\ frame[p][v] = NULL
  /\ Kalloc
  /\ content' = [content EXCEPT ![KallocFrame] = swapped[p][v]]
  /\ frame' = [frame EXCEPT ![p][v] = KallocFrame]
  /\ writable' = [writable EXCEPT ![p][v] = TRUE]
  /\ swapped' = [swapped EXCEPT ![p][v] = NULL]
  /\ UNCHANGED <<state, parent, pid, sz, pc, np, va, nextpid, panicked>>

----------------------------------------------------------------------------
(* handle_cow(), entered by a store to a resident page without PTE_W. *)

CowFault(p, v) ==
  /\ Running(p) /\ v < sz[p] /\ frame[p][v] # NULL /\ ~writable[p][v]
  /\ IF references_count[frame[p][v]] > 1
       THEN /\ pc' = [pc EXCEPT ![p] = "cow_kalloc"]
            /\ va' = [va EXCEPT ![p] = v]
            /\ UNCHANGED writable
       ELSE /\ writable' = [writable EXCEPT ![p][v] = TRUE]
            /\ UNCHANGED <<pc, va>>
  /\ UNCHANGED <<freelist, references_count, free_pages, content, state, parent, pid, sz,
                 frame, swapped, np, nextpid, panicked>>

CowKalloc(p) ==
  /\ At(p, "cow_kalloc")
  /\ \/ /\ Kalloc
        /\ frame' = [frame EXCEPT ![p][MEM] = KallocFrame]
        /\ pc' = [pc EXCEPT ![p] = "cow_copy"]
        /\ UNCHANGED panicked
     \/ /\ freelist = {}
        /\ panicked' = TRUE
        /\ UNCHANGED <<freelist, references_count, free_pages, frame, pc>>
  /\ UNCHANGED <<content, state, parent, pid, sz, writable, swapped, np, va, nextpid>>

(* Variant: handle_cow() without the memmove. *)
CowCopySkipped(p) ==
  /\ At(p, "cow_copy")
  /\ pc' = [pc EXCEPT ![p] = "cow_dec"]
  /\ UNCHANGED <<freelist, references_count, free_pages, content, state, parent, pid,
                 sz, frame, writable, swapped, np, va, nextpid, panicked>>

CowCopy(p) ==
  /\ At(p, "cow_copy")
  /\ content' = [content EXCEPT ![frame[p][MEM]] = content[frame[p][va[p]]]]
  /\ pc' = [pc EXCEPT ![p] = "cow_dec"]
  /\ UNCHANGED <<freelist, references_count, free_pages, state, parent, pid, sz, frame,
                 writable, swapped, np, va, nextpid, panicked>>

CowDec(p) ==
  /\ At(p, "cow_dec")
  /\ DecCounter(frame[p][va[p]])
  /\ frame' = [frame EXCEPT ![p][va[p]] = frame[p][MEM], ![p][MEM] = NULL]
  /\ writable' = [writable EXCEPT ![p][va[p]] = TRUE]
  /\ pc' = [pc EXCEPT ![p] = "user"]
  /\ va' = [va EXCEPT ![p] = 0]
  /\ UNCHANGED <<content, state, parent, pid, sz, swapped, np, nextpid, panicked>>

----------------------------------------------------------------------------
(* fork() *)

(* allocproc(): a slot, a pid and a kernel stack, or no memory for one. *)
ForkAllocproc(p, c) ==
  /\ Running(p) /\ PtableLockFree /\ state[c] = "UNUSED" /\ nextpid <= MaxPid
  /\ nextpid' = nextpid + 1
  /\ pid' = [pid EXCEPT ![c] = nextpid]
  /\ \/ /\ Kalloc
        /\ frame' = [frame EXCEPT ![c][KSTACK] = KallocFrame]
        /\ state' = [state EXCEPT ![c] = "EMBRYO"]
        /\ np' = [np EXCEPT ![p] = c]
        /\ pc' = [pc EXCEPT ![p] = "setupkvm"]
     \/ /\ freelist = {}
        /\ UNCHANGED <<freelist, references_count, free_pages, frame, state, np, pc>>
  /\ UNCHANGED <<content, parent, sz, writable, swapped, va, panicked>>

(* copyonwriteuvm() and copyuvm() begin with setupkvm(). *)
ForkSetupkvm(p) ==
  /\ At(p, "setupkvm")
  /\ \/ /\ Kalloc
        /\ frame' = [frame EXCEPT ![np[p]][PGDIR] = KallocFrame]
        /\ pc' = [pc EXCEPT ![p] = "copyuvm"]
     \/ /\ freelist = {}
        /\ pc' = [pc EXCEPT ![p] = "free_kstack"]
        /\ UNCHANGED <<freelist, references_count, free_pages, frame>>
  /\ UNCHANGED <<content, state, parent, pid, sz, writable, swapped, np, va, nextpid,
                 panicked>>

(* Variant: copyonwriteuvm() leaves the parent's PTE_W. *)
ForkSharePageWritable(p) ==
  LET c == np[p]
      v == va[p]
  IN
  /\ At(p, "copyuvm") /\ ~NONE /\ v < sz[p] /\ frame[p][v] # NULL
  /\ IncCounter(frame[p][v])
  /\ frame' = [frame EXCEPT ![c][v] = frame[p][v]]
  /\ va' = [va EXCEPT ![p] = v + 1]
  /\ UNCHANGED <<content, state, parent, pid, sz, writable, swapped, pc, np, nextpid,
                 panicked>>

(* copyonwriteuvm(), one resident page: parent and child share the frame. *)
ForkSharePage(p) ==
  LET c == np[p]
      v == va[p]
  IN
  /\ At(p, "copyuvm") /\ ~NONE /\ v < sz[p] /\ frame[p][v] # NULL
  /\ writable' = [writable EXCEPT ![p][v] = FALSE]
  /\ IncCounter(frame[p][v])
  /\ frame' = [frame EXCEPT ![c][v] = frame[p][v]]
  /\ va' = [va EXCEPT ![p] = v + 1]
  /\ UNCHANGED <<content, state, parent, pid, sz, swapped, pc, np, nextpid, panicked>>

(* copyonwriteuvm(), one page in the swap file; fork() then copies it into *)
(* the swap file of the child.                                             *)
ForkSwappedPage(p) ==
  LET c == np[p]
      v == va[p]
  IN
  /\ At(p, "copyuvm") /\ ~NONE /\ v < sz[p] /\ frame[p][v] = NULL
  /\ swapped' = [swapped EXCEPT ![c][v] = swapped[p][v]]
  /\ va' = [va EXCEPT ![p] = v + 1]
  /\ UNCHANGED <<freelist, references_count, free_pages, content, state, parent, pid, sz,
                 frame, writable, pc, np, nextpid, panicked>>

(* copyuvm(), one page of the NONE build, or no memory for it. *)
ForkCopyPage(p) ==
  LET c == np[p]
      v == va[p]
  IN
  /\ At(p, "copyuvm") /\ NONE /\ v < sz[p]
  /\ \/ /\ Kalloc
        /\ content' = [content EXCEPT ![KallocFrame] = content[frame[p][v]]]
        /\ frame' = [frame EXCEPT ![c][v] = KallocFrame]
        /\ writable' = [writable EXCEPT ![c][v] = writable[p][v]]
        /\ va' = [va EXCEPT ![p] = v + 1]
        /\ UNCHANGED pc
     \/ /\ freelist = {}
        /\ pc' = [pc EXCEPT ![p] = "freevm"]
        /\ va' = [va EXCEPT ![p] = 0]
        /\ UNCHANGED <<freelist, references_count, free_pages, content, frame, writable>>
  /\ UNCHANGED <<state, parent, pid, sz, swapped, np, nextpid, panicked>>

(* The rest of fork(): the child becomes RUNNABLE. *)
ForkDone(p) ==
  LET c == np[p] IN
  /\ At(p, "copyuvm") /\ va[p] = sz[p] /\ PtableLockFree
  /\ sz' = [sz EXCEPT ![c] = sz[p]]
  /\ parent' = [parent EXCEPT ![c] = p]
  /\ state' = [state EXCEPT ![c] = "LIVE"]
  /\ pc' = [pc EXCEPT ![p] = "user"]
  /\ np' = [np EXCEPT ![p] = NULL]
  /\ va' = [va EXCEPT ![p] = 0]
  /\ UNCHANGED <<freelist, references_count, free_pages, content, pid, frame,
                 writable, swapped, nextpid, panicked>>

(* fork() without memory for the child: its kernel stack is given back. *)
FreeKstack(p) ==
  LET c == np[p] IN
  /\ At(p, "free_kstack")
  /\ Kfree(frame[c][KSTACK])
  /\ frame' = [frame EXCEPT ![c][KSTACK] = NULL]
  /\ state' = [state EXCEPT ![c] = "UNUSED"]
  /\ pc' = [pc EXCEPT ![p] = "user"]
  /\ np' = [np EXCEPT ![p] = NULL]
  /\ UNCHANGED <<parent, pid, sz, writable, swapped, va, nextpid, panicked>>

----------------------------------------------------------------------------
(* exit() and wait() *)

(* exit(): the swap file goes, the memory stays until the parent's wait(). *)
Exit(p) ==
  /\ Running(p) /\ p # initproc /\ PtableLockFree
  /\ state' = [state EXCEPT ![p] = "ZOMBIE"]
  /\ parent' = [q \in Procs |-> IF parent[q] = p THEN initproc ELSE parent[q]]
  /\ swapped' = [swapped EXCEPT ![p] = [v \in Pages |-> NULL]]
  /\ UNCHANGED <<freelist, references_count, free_pages, content, pid, sz, frame,
                 writable, pc, np, va, nextpid, panicked>>

(* wait() finds a zombie child and gives its kernel stack back. *)
WaitReap(p, c) ==
  /\ Running(p) /\ PtableLockFree /\ parent[c] = p /\ state[c] = "ZOMBIE"
  /\ Kfree(frame[c][KSTACK])
  /\ frame' = [frame EXCEPT ![c][KSTACK] = NULL]
  /\ np' = [np EXCEPT ![p] = c]
  /\ pc' = [pc EXCEPT ![p] = "freevm"]
  /\ UNCHANGED <<state, parent, pid, sz, writable, swapped, va, nextpid, panicked>>

(* freevm(): deallocuvm() frees the lowest page still mapped. *)
FreevmPage(p, v) ==
  LET c == np[p] IN
  /\ At(p, "freevm")
  /\ frame[c][v] # NULL /\ \A u \in Pages : u < v => frame[c][u] = NULL
  /\ Kfree(frame[c][v])
  /\ frame' = [frame EXCEPT ![c][v] = NULL]
  /\ writable' = [writable EXCEPT ![c][v] = FALSE]
  /\ UNCHANGED <<state, parent, pid, sz, swapped, pc, np, va, nextpid, panicked>>

(* The end of freevm(), and of wait() when that is what called it. *)
FreevmPgdir(p) ==
  LET c == np[p] IN
  /\ At(p, "freevm") /\ \A v \in Pages : frame[c][v] = NULL
  /\ Kfree(frame[c][PGDIR])
  /\ frame' = [frame EXCEPT ![c][PGDIR] = NULL]
  /\ IF state[c] = "ZOMBIE"
       THEN /\ parent' = [parent EXCEPT ![c] = NULL]
            /\ pid' = [pid EXCEPT ![c] = 0]
            /\ state' = [state EXCEPT ![c] = "UNUSED"]
            /\ pc' = [pc EXCEPT ![p] = "user"]
            /\ np' = [np EXCEPT ![p] = NULL]
       ELSE /\ pc' = [pc EXCEPT ![p] = "free_kstack"]
            /\ UNCHANGED <<parent, pid, state, np>>
  /\ UNCHANGED <<sz, writable, swapped, va, nextpid, panicked>>

----------------------------------------------------------------------------
ProcNext(p) ==
  \/ \E v \in Pages, x \in Vals : Store(p, v, x)
  \/ Grow(p) \/ Shrink(p)
  \/ \E v \in Pages : SwapOut(p, v) \/ SwapIn(p, v) \/ CowFault(p, v)
  \/ CowKalloc(p) \/ CowCopy(p) \/ CowDec(p)
  \/ \E c \in Procs : ForkAllocproc(p, c) \/ WaitReap(p, c)
  \/ ForkSetupkvm(p) \/ ForkSharePage(p) \/ ForkSwappedPage(p) \/ ForkCopyPage(p)
  \/ ForkDone(p) \/ FreeKstack(p)
  \/ Exit(p)
  \/ \E v \in Pages : FreevmPage(p, v)
  \/ FreevmPgdir(p)

Next == UNCHANGED NONE /\ \E p \in Procs : ProcNext(p)

Spec == Init /\ [][Next]_vars

----------------------------------------------------------------------------
(* Everything that holds frame f. *)
Holders(f) == {h \in Procs \X Slots : frame[h[1]][h[2]] = f}

(* The reference count of every frame is the number of page-table entries, *)
(* kernel stacks, page directories and pages under construction that hold  *)
(* it (inc_counter, dec_counter, kalloc and kfree of kalloc.c): no count   *)
(* reaches zero, and no frame the free list, while somebody uses it.       *)
RefCountsExact == \A f \in Frames : references_count[f] = Cardinality(Holders(f))

(* A frame on the free list is held by nobody, so kalloc() never hands out *)
(* a page that is in use and nothing is freed twice.                       *)
FreeFramesUnheld == \A f \in freelist : Holders(f) = {}

(* A page table entry with PTE_W is the only holder of its frame: fork()   *)
(* takes PTE_W from both sides and handle_cow() gives it back only to a    *)
(* private copy or to the last sharer.                                     *)
WritableUnshared ==
  \A p \in Procs, v \in Pages :
    writable[p][v] => frame[p][v] # NULL /\ Holders(frame[p][v]) = {<<p, v>>}

(* free_pages never falls below the length of the free list. *)
FreePagesNotUnder == free_pages >= Cardinality(freelist)

(* proc.c:605 prints free_pages() as the number of "free page frames in    *)
(* the system".                                                            *)
FreePagesExact == free_pages = Cardinality(freelist)

(* Every frame is free or in use: kalloc.c says kfree() frees "the page of *)
(* physical memory", so a page nobody holds any more is on the list.       *)
NoFrameLost == \A f \in Frames : f \in freelist \/ Holders(f) # {}

----------------------------------------------------------------------------
(* The memory each process sees; what it promises is module PrivateMemory. *)
Mem == [p \in Procs |-> [v \in Pages |->
         IF state[p] = "LIVE" /\ v < sz[p]
           THEN IF frame[p][v] # NULL THEN content[frame[p][v]] ELSE swapped[p][v]
           ELSE NULL]]

Private == INSTANCE PrivateMemory WITH mem <- Mem

(* Sharing is invisible: stores, forks, swapping and exits of the          *)
(* processes act on memories that look private to each of them.            *)
PrivateSpec == Private!Spec
============================================================================
