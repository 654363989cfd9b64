------------------------------ MODULE MCPaging ------------------------------
(***************************************************************************)
(* Paging for TLC.  Only the order of the load times matters, and only of  *)
(* pages in memory; the view replaces each time by its rank, so that       *)
(* p->timestamp needs no bound.  Fields nothing reads are left out.        *)
(***************************************************************************)
EXTENDS Paging

Rank(i) == Cardinality({j \in Slots : mp[j].used /\ mp[j].time < mp[i].time})

MemView ==
  [i \in Slots |->
     IF mp[i].used
       THEN <<mp[i].va, mp[i].dir,
              IF POLICY = "SCFIFO" THEN Rank(i) ELSE 0,
              IF POLICY \in {"NFUA", "LAPA"} THEN mp[i].age ELSE 0>>
       ELSE <<>>]

(* The frame of a page that is not in memory, the locals of a process in   *)
(* user mode and the past content of pages it no longer has are dead.      *)
DataView == [d \in Dirs |-> [v \in Pages |-> IF "P" \in pte[d][v] THEN data[d][v] ELSE 0]]
LocView == IF pc = "user" THEN <<>> ELSE loc
ExpectedView == [v \in Pages |-> IF pc = "user" /\ v >= sz THEN 0 ELSE expected[v]]

View == <<POLICY, may, cur, sz, pte, DataView, MemView, fp, file, ExpectedView, guard, pc, LocView,
          spins, execs, halt>>
============================================================================
