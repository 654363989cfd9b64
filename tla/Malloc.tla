------------------------------ MODULE Malloc -------------------------------
(***************************************************************************)
(* umalloc.c: malloc() and free() over a circular list of free blocks in   *)
(* the order of their addresses.  Addresses and sizes are in units of a    *)
(* header.                                                                 *)
(***************************************************************************)
EXTENDS Integers, FiniteSets, FiniteSetsExt

CONSTANTS
  HeapStart,  \* p->sz when the program starts, above the static header base
  HeapEnd,    \* bound: where sbrk() fails
  CORE,       \* the least morecore() asks for: 4096
  Units,      \* what programs ask for, with the header
  NULL        \* a null pointer

BASE == 0
Addrs == {BASE} \cup HeapStart .. HeapEnd - 1

VARIABLES
  ptr, size,  \* s.ptr and s.size of the header at each address: NULL and 0 where
              \* no header is, s.ptr NULL in a block of the program
  freep,      \* freep
  brk,        \* the end of the heap
  live,       \* the blocks the program has, by their headers
  mpc,        \* "idle", or where it is in malloc(): "search"
  p, prevp,   \* the local variables of malloc()
  nunits

mallocVars == <<ptr, size, freep, brk, live, mpc, p, prevp, nunits>>

MallocInit ==
  /\ ptr = [a \in Addrs |-> NULL]
  /\ size = [a \in Addrs |-> 0]
  /\ freep = NULL
  /\ brk = HeapStart
  /\ live = {}
  /\ mpc = "idle"
  /\ p = NULL /\ prevp = NULL /\ nunits = 0

----------------------------------------------------------------------------
(* free(): the list block after which bp goes, found from freep on, ...    *)
After(from, bp) ==
  LET here(q) == (bp > q /\ bp < ptr[q]) \/ (q >= ptr[q] /\ (bp > q \/ bp < ptr[q]))
      walk[n \in 0 .. Cardinality(Addrs)] == IF n = 0 THEN from ELSE ptr[walk[n - 1]]
      first == Min({n \in 0 .. Cardinality(Addrs) : here(walk[n])})
  IN walk[first]

(* Variant: a block is not joined with the one before it. *)
FreeForward(bp, sz) ==
  LET q == After(freep, bp)
      next == ptr[q]
      joins == bp + sz = next
  IN /\ ptr' = [ptr EXCEPT ![next] = IF joins THEN NULL ELSE @,
                           ![bp] = IF joins THEN ptr[next] ELSE next,
                           ![q] = bp]
     /\ size' = [size EXCEPT ![bp] = IF joins THEN sz + size[next] ELSE sz,
                             ![next] = IF joins THEN 0 ELSE @]
     /\ freep' = q

(* ... and the block of size sz at bp joined with the blocks next to it. *)
Free(bp, sz) ==
  LET q == After(freep, bp)
      next == ptr[q]
      joinsNext == bp + sz = next
      joinsPrev == q + size[q] = bp
      at == IF joinsPrev THEN q ELSE bp
  IN /\ ptr' = [ptr EXCEPT ![next] = IF joinsNext THEN NULL ELSE @,
                           ![q] = bp,
                           ![at] = IF joinsNext THEN ptr[next] ELSE next]
     /\ size' = [size EXCEPT ![bp] = 0,
                             ![at] = (IF joinsPrev THEN size[q] ELSE 0) + sz
                                       + (IF joinsNext THEN size[next] ELSE 0),
                             ![next] = IF joinsNext THEN 0 ELSE @]
     /\ freep' = q

FreeCall(bp) ==
  /\ mpc = "idle" /\ bp \in live
  /\ live' = live \ {bp}
  /\ Free(bp, size[bp])
  /\ UNCHANGED <<brk, mpc, p, prevp, nunits>>

(* malloc(): the first call makes the list, which is the header base. *)
MallocCall(n) ==
  /\ mpc = "idle"
  /\ mpc' = "search"
  /\ nunits' = n
  /\ freep' = IF freep = NULL THEN BASE ELSE freep
  /\ ptr' = IF freep = NULL THEN [ptr EXCEPT ![BASE] = BASE] ELSE ptr
  /\ prevp' = freep' /\ p' = ptr'[freep']
  /\ UNCHANGED <<size, brk, live>>

Done == mpc' = "idle" /\ p' = NULL /\ prevp' = NULL /\ nunits' = 0

(* The block fits: it leaves the list, or gives its tail. *)
MallocFit ==
  /\ mpc = "search" /\ size[p] >= nunits
  /\ LET rest == size[p] - nunits
     IN IF rest = 0
          THEN /\ ptr' = [ptr EXCEPT ![p] = NULL, ![prevp] = ptr[p]]
               /\ live' = live \cup {p}
               /\ UNCHANGED size
          ELSE /\ size' = [size EXCEPT ![p] = rest, ![p + rest] = nunits]
               /\ live' = live \cup {p + rest}
               /\ UNCHANGED ptr
  /\ freep' = prevp
  /\ Done
  /\ UNCHANGED brk

(* It does not: the next one, or morecore() after the last. *)
MallocNext ==
  /\ mpc = "search" /\ size[p] < nunits /\ p # freep
  /\ prevp' = p /\ p' = ptr[p]
  /\ UNCHANGED <<ptr, size, freep, brk, live, mpc, nunits>>

(* morecore(): sbrk(), free() of what it gave, and the search goes on at   *)
(* freep; or malloc() returns 0.                                           *)
Morecore ==
  /\ mpc = "search" /\ size[p] < nunits /\ p = freep
  /\ LET nu == Max({nunits, CORE})
     IN IF brk + nu > HeapEnd
          THEN Done /\ UNCHANGED <<ptr, size, freep, brk>>
          ELSE /\ brk' = brk + nu
               /\ Free(brk, nu)
               /\ prevp' = freep' /\ p' = ptr'[freep']
               /\ UNCHANGED <<mpc, nunits>>
  /\ UNCHANGED live

MallocStep == (\E n \in Units : MallocCall(n)) \/ MallocFit \/ MallocNext \/ Morecore
                \/ \E bp \in live : FreeCall(bp)

----------------------------------------------------------------------------
(* The free blocks, as the list gives them. *)
ListAt[n \in 0 .. Cardinality(Addrs)] == IF n = 0 THEN ptr[BASE] ELSE ptr[ListAt[n - 1]]
FreeBlocks ==
  LET end == Min({n \in DOMAIN ListAt : ListAt[n] = BASE}) IN {ListAt[n] : n \in 0 .. end - 1}

Extent(a) == a .. a + size[a] - 1

(* Every unit sbrk() gave is in exactly one block, the program's or free,  *)
(* whatever was split and joined; and the list runs up through the free    *)
(* blocks and back to base, no two of them adjacent: free() finds the      *)
(* place in the order of addresses and joins what it can.                  *)
HeapExact ==
  LET free == IF freep = NULL THEN {} ELSE FreeBlocks
  IN /\ UNION {Extent(a) : a \in live \cup free} = HeapStart .. brk - 1
     /\ \A a, b \in live \cup free : a # b => Extent(a) \cap Extent(b) = {}
     /\ freep \in free \cup {BASE, NULL}
     /\ \A a \in free : size[a] > 0 /\ (ptr[a] = BASE \/ ptr[a] > a + size[a])
============================================================================
