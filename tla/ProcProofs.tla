------------------------------ MODULE ProcProofs ----------------------------
(***************************************************************************)
(* For any size of ptable, any number of CPUs and any set of processes     *)
(* that use the sleep lock: every safety invariant of module Proc.         *)
(***************************************************************************)
EXTENDS Proc, WellFoundedInduction, TLAPS

USE SMTT(30), ZenonT(60), SMTT(120)

Alive == {"SLEEPING", "RUNNABLE", "RUNNING"}

(* A process that has left its state RUNNING but not its stack is on the   *)
(* CPU that holds ptable.lock.                                             *)
Stacks ==
  /\ \A c \in CPUs : cpu[c] # NULL =>
       /\ state[cpu[c]] \notin {"UNUSED", "EMBRYO"}
       /\ state[cpu[c]] # "RUNNING" => lock = c
  /\ \A c, d \in CPUs : cpu[c] = cpu[d] /\ cpu[c] # NULL => c = d

(* Where a process is inside the kernel. One that runs outside ptable.lock *)
(* has returned from swtch().                                              *)
Points ==
  /\ \A p \in Procs :
       /\ pc[p] # "user" => state[p] \in Alive
       /\ ctx[p] = "sleep" => pc[p] = "acquiresleep"
       /\ ctx[p] = "wait" => pc[p] = "syscall"
  /\ \A c \in CPUs : cpu[c] # NULL /\ state[cpu[c]] = "RUNNING" /\ lock # c =>
       ctx[cpu[c]] = "none"

(* A fork() in progress owns its EMBRYO. *)
Forks ==
  /\ \A p \in Procs : pc[p] \in {"fork", "forked"} =>
       /\ np[p] \in Procs /\ state[np[p]] = "EMBRYO"
       /\ parent[np[p]] = IF pc[p] = "forked" THEN p ELSE NULL
  /\ \A p, q \in Procs : /\ pc[p] \in {"fork", "forked"} /\ pc[q] \in {"fork", "forked"}
                         /\ np[p] = np[q]
                         => p = q

(* The parent of a process is another one that is alive, and only initproc *)
(* has none.                                                               *)
Family ==
  /\ state[initproc] \in Alive /\ parent[initproc] = NULL
  /\ \A q \in Procs : parent[q] # q
  /\ \A q \in Procs : parent[q] # NULL => state[parent[q]] \in Alive
  /\ \A q \in Procs : state[q] = "UNUSED" => parent[q] = NULL
  /\ \A q \in Procs \ {initproc} : state[q] \notin {"UNUSED", "EMBRYO"} => parent[q] # NULL

(* The sleep lock. *)
SleepLock ==
  /\ NoLostWakeup /\ MutualExclusion
  /\ \A p \in Procs : pc[p] = "critical" => locked

(* The inductive invariant. *)
IInv == TypeOK /\ Stacks /\ Points /\ Forks /\ Family /\ SleepLock /\ WaitersHaveWork

----------------------------------------------------------------------------
(* The scans of ptable find a slot whenever there is one. *)
LEMMA FirstIn ==
  ASSUME NEW S \in SUBSET Procs, S # {}
  PROVE  First(S) \in S
<1> DEFINE less == {t \in Nat \X Nat : t[1] < t[2]}
<1>1. S \subseteq Nat BY ProcAssumption DEF Procs
<1>2. IsWellFoundedOn(less, Nat) BY NatLessThanWellFounded, Zenon DEF OpToRel
<1>3. PICK m \in S : \A q \in S : ~(<<q, m>> \in less)
  <2> HIDE DEF less
  <2> QED BY <1>1, <1>2, WFMin, Zenon
<1>4. \A q \in S : m <= q
  <2> SUFFICES ASSUME NEW q \in S PROVE m <= q BY Zenon
  <2>1. m \in Nat /\ q \in Nat BY <1>1, Zenon
  <2>2. ~(<<q, m>> \in less) BY <1>3, Zenon
  <2> QED BY <2>1, <2>2
<1> QED BY <1>4, Zenon DEF First

(* The constants. *)
LEMMA Slots ==
  /\ initproc \in Procs /\ NULL \notin Procs /\ SLEEPLOCK \notin Procs
  /\ \A p \in Procs : p \in 1 .. NPROC
  /\ NPROC \in Nat /\ MaxPid \in Nat \ {0} /\ NULL \notin CPUs
BY ProcAssumption DEF Procs, initproc, SLEEPLOCK

(* pinit() and userinit() *)
LEMMA InitInv == Init => IInv
<1> SUFFICES ASSUME Init PROVE IInv BY Zenon
<1> USE Slots
<1>1. TypeOK
  <2>1. killed \in [Procs -> BOOLEAN] BY Zenon DEF Init
  <2>2. /\ nextpid \in 1 .. MaxPid + 1 /\ pid \in [Procs -> 0 .. MaxPid]
        /\ next \in [CPUs -> 1 .. NPROC + 1]
    BY DEF Init
  <2> QED BY <2>1, <2>2, Zenon DEF Init, TypeOK, States, Contexts, PCs
<1>2. Stacks BY Zenon DEF Init, Stacks
<1>3. Points BY Zenon DEF Init, Points, Alive
<1>4. Forks BY Zenon DEF Init, Forks
<1>5. Family BY Zenon DEF Init, Family, Alive
<1>6. SleepLock BY Zenon DEF Init, SleepLock, NoLostWakeup, MutualExclusion
<1>7. WaitersHaveWork BY Zenon DEF Init, WaitersHaveWork
<1> QED BY <1>1, <1>2, <1>3, <1>4, <1>5, <1>6, <1>7, Zenon DEF IInv

(* The part of the state that the invariant speaks of stays as it is. *)
LEMMA KeepInv ==
  ASSUME IInv, TypeOK', UNCHANGED <<state, parent, chan, ctx, pc, np, cpu, lock, locked>>
  PROVE  IInv'
<1>1. Stacks' /\ Points' BY Zenon DEF IInv, Stacks, Points
<1>2. Forks' /\ Family' BY Zenon DEF IInv, Forks, Family
<1>3. SleepLock' BY Zenon DEF IInv, SleepLock, NoLostWakeup, MutualExclusion
<1>4. WaitersHaveWork' BY Zenon DEF IInv, WaitersHaveWork, Children
<1> QED BY <1>1, <1>2, <1>3, <1>4, Zenon DEF IInv

(* sched() leaves the stack with ptable.lock held. *)
LEMMA SchedInv ==
  ASSUME IInv, NEW c \in CPUs, Sched(c)
  PROVE  IInv'
<1> USE Slots DEF IInv, Sched, At, Acquire, Release
<1>1. TypeOK' BY Zenon DEF TypeOK, States, PCs, Contexts
<1>2. Stacks' BY Zenon DEF Stacks, TypeOK
<1>3. Points' BY Zenon DEF Points, TypeOK, Alive, Stacks
<1>4. Forks' BY Zenon DEF Forks, TypeOK, Points
<1>5. Family' BY Zenon DEF Family, TypeOK, Alive, Forks
<1>6. SleepLock' BY Zenon DEF SleepLock, NoLostWakeup, MutualExclusion, TypeOK, Points
<1>7. WaitersHaveWork' BY DEF WaitersHaveWork, Children, TypeOK, Family, Forks
<1> QED BY <1>1, <1>2, <1>3, <1>4, <1>5, <1>6, <1>7, Zenon

(* scheduler() at the end of a scan. *)
LEMMA ScanEndInv ==
  ASSUME IInv, NEW c \in CPUs, ScanEnd(c)
  PROVE  IInv'
<1> USE Slots DEF IInv, ScanEnd, At, Acquire, Release
<1>1. TypeOK' BY DEF TypeOK, States, PCs, Contexts
<1>2. Stacks' BY Zenon DEF Stacks, TypeOK
<1>3. Points' BY Zenon DEF Points, TypeOK, Alive, Stacks
<1>4. Forks' BY DEF Forks, TypeOK, Points
<1>5. Family' BY Zenon DEF Family, TypeOK, Alive, Forks
<1>6. SleepLock' BY Zenon DEF SleepLock, NoLostWakeup, MutualExclusion, TypeOK, Points
<1>7. WaitersHaveWork' BY DEF WaitersHaveWork, Children, TypeOK, Family, Forks
<1> QED BY <1>1, <1>2, <1>3, <1>4, <1>5, <1>6, <1>7, Zenon

(* The return from swtch() in forkret(), yield() or sleep(). *)
LEMMA ResumeInv ==
  ASSUME IInv, NEW c \in CPUs, NEW p \in Procs, Resume(c, p)
  PROVE  IInv'
<1> USE Slots DEF IInv, Resume, At, Acquire, Release
<1>1. TypeOK' BY Zenon DEF TypeOK, States, PCs, Contexts
<1>2. Stacks' BY Zenon DEF Stacks, TypeOK
<1>3. Points' BY DEF Points, TypeOK, Alive, Stacks
<1>4. Forks' BY DEF Forks, TypeOK, Points
<1>5. Family' BY Zenon DEF Family, TypeOK, Alive, Forks
<1>6. SleepLock' BY DEF SleepLock, NoLostWakeup, MutualExclusion, TypeOK, Points
<1>7. WaitersHaveWork' BY DEF WaitersHaveWork, Children, TypeOK, Family, Forks
<1> QED BY <1>1, <1>2, <1>3, <1>4, <1>5, <1>6, <1>7, Zenon

(* yield() *)
LEMMA YieldInv ==
  ASSUME IInv, NEW c \in CPUs, NEW p \in Procs, Yield(c, p)
  PROVE  IInv'
<1> USE Slots DEF IInv, Yield, At, Acquire, Release
<1>1. TypeOK' BY Zenon DEF TypeOK, States, PCs, Contexts
<1>2. Stacks' BY Zenon DEF Stacks, TypeOK
<1>3. Points' BY DEF Points, TypeOK, Alive, Stacks
<1>4. Forks' BY DEF Forks, TypeOK, Points
<1>5. Family' BY DEF Family, TypeOK, Alive, Forks
<1>6. SleepLock' BY DEF SleepLock, NoLostWakeup, MutualExclusion, TypeOK, Points
<1>7. WaitersHaveWork' BY DEF WaitersHaveWork, Children, TypeOK, Family, Forks
<1> QED BY <1>1, <1>2, <1>3, <1>4, <1>5, <1>6, <1>7, Zenon

(* A process enters the kernel. *)
LEMMA SyscallInv ==
  ASSUME IInv, NEW c \in CPUs, NEW p \in Procs, Syscall(c, p)
  PROVE  IInv'
<1> USE Slots DEF IInv, Syscall, At, Acquire, Release
<1>1. TypeOK' BY Zenon DEF TypeOK, States, PCs, Contexts
<1>2. Stacks' BY Zenon DEF Stacks, TypeOK
<1>3. Points' BY DEF Points, TypeOK, Alive, Stacks
<1>4. Forks' BY DEF Forks, TypeOK, Points
<1>5. Family' BY Zenon DEF Family, TypeOK, Alive, Forks
<1>6. SleepLock' BY DEF SleepLock, NoLostWakeup, MutualExclusion, TypeOK, Points
<1>7. WaitersHaveWork' BY DEF WaitersHaveWork, Children, TypeOK, Family, Forks
<1> QED BY <1>1, <1>2, <1>3, <1>4, <1>5, <1>6, <1>7, Zenon

(* fork() gives its EMBRYO back. *)
LEMMA ForkFailInv ==
  ASSUME IInv, NEW c \in CPUs, NEW p \in Procs, ForkFail(c, p)
  PROVE  IInv'
<1> USE Slots DEF IInv, ForkFail, At, Acquire, Release
<1>1. TypeOK' BY Zenon DEF TypeOK, States, PCs, Contexts
<1>2. Stacks' BY DEF Stacks, TypeOK, Forks
<1>3. Points' BY DEF Points, TypeOK, Alive, Stacks, Forks
<1>4. Forks' BY DEF Forks, TypeOK, Points
<1>5. Family' BY DEF Family, TypeOK, Alive, Forks
<1>6. SleepLock' BY DEF SleepLock, NoLostWakeup, MutualExclusion, TypeOK, Points
<1>7. WaitersHaveWork' BY DEF WaitersHaveWork, Children, TypeOK, Family, Forks
<1> QED BY <1>1, <1>2, <1>3, <1>4, <1>5, <1>6, <1>7, Zenon

(* fork() becomes the parent of its EMBRYO. *)
LEMMA ForkParentInv ==
  ASSUME IInv, NEW c \in CPUs, NEW p \in Procs, ForkParent(c, p)
  PROVE  IInv'
<1> USE Slots DEF IInv, ForkParent, At, Acquire, Release
<1>1. TypeOK' BY Zenon DEF TypeOK, States, PCs, Contexts
<1>2. Stacks' BY Zenon DEF Stacks, TypeOK
<1>3. Points' BY DEF Points, TypeOK, Alive, Stacks
<1>4. Forks' BY DEF Forks, TypeOK, Points
<1>5. Family' BY DEF Family, TypeOK, Alive, Forks
<1>6. SleepLock' BY DEF SleepLock, NoLostWakeup, MutualExclusion, TypeOK, Points
<1>7. WaitersHaveWork' BY DEF WaitersHaveWork, Children, TypeOK, Family, Forks
<1> QED BY <1>1, <1>2, <1>3, <1>4, <1>5, <1>6, <1>7, Zenon

(* fork() lets the child run. *)
LEMMA ForkRunnableInv ==
  ASSUME IInv, NEW c \in CPUs, NEW p \in Procs, ForkRunnable(c, p)
  PROVE  IInv'
<1> USE Slots DEF IInv, ForkRunnable, At, Acquire, Release
<1>1. TypeOK' BY Zenon DEF TypeOK, States, PCs, Contexts
<1>2. Stacks' BY DEF Stacks, TypeOK, Forks
<1>3. Points' BY DEF Points, TypeOK, Alive, Stacks, Forks
<1>4. Forks' BY DEF Forks, TypeOK, Points
<1>5. Family' BY DEF Family, TypeOK, Alive, Forks
<1>6. SleepLock' BY DEF SleepLock, NoLostWakeup, MutualExclusion, TypeOK, Points
<1>7. WaitersHaveWork' BY DEF WaitersHaveWork, Children, TypeOK, Family, Forks
<1> QED BY <1>1, <1>2, <1>3, <1>4, <1>5, <1>6, <1>7, Zenon

(* acquiresleep() has the spin lock of the sleep lock. *)
LEMMA AcquireLkInv ==
  ASSUME IInv, NEW c \in CPUs, NEW p \in Procs, AcquireLk(c, p)
  PROVE  IInv'
<1> USE Slots DEF IInv, AcquireLk, At, Acquire, Release
<1>1. TypeOK' BY Zenon DEF TypeOK, States, PCs, Contexts
<1>2. Stacks' BY Zenon DEF Stacks, TypeOK
<1>3. Points' BY DEF Points, TypeOK, Alive, Stacks
<1>4. Forks' BY DEF Forks, TypeOK, Points
<1>5. Family' BY Zenon DEF Family, TypeOK, Alive, Forks
<1>6. SleepLock' BY DEF SleepLock, NoLostWakeup, MutualExclusion, TypeOK, Points
<1>7. WaitersHaveWork' BY DEF WaitersHaveWork, Children, TypeOK, Family, Forks
<1> QED BY <1>1, <1>2, <1>3, <1>4, <1>5, <1>6, <1>7, Zenon

(* acquiresleep() takes the sleep lock, or sleeps while it is taken. *)
LEMMA AcquiresleepInv ==
  ASSUME IInv, NEW c \in CPUs, NEW p \in Procs, Acquiresleep(c, p)
  PROVE  IInv'
<1> USE Slots DEF IInv, Acquiresleep, At, Acquire, Release
<1>1. TypeOK'
  <2>1. locked' \in BOOLEAN BY Zenon DEF TypeOK
  <2> QED BY <2>1 DEF TypeOK, States, PCs, Contexts
<1>2. Stacks' BY DEF Stacks, TypeOK
<1>3. Points' BY DEF Points, TypeOK, Alive, Stacks
<1>4. Forks' BY DEF Forks, TypeOK, Points
<1>5. Family' BY DEF Family, TypeOK, Alive, Forks
<1>6. SleepLock' BY DEF SleepLock, NoLostWakeup, MutualExclusion, TypeOK, Points
<1>7. WaitersHaveWork' BY DEF WaitersHaveWork, Children, TypeOK, Family, Forks
<1> QED BY <1>1, <1>2, <1>3, <1>4, <1>5, <1>6, <1>7, Zenon

(* releasesleep() before it wakes the sleepers. *)
LEMMA ReleasesleepInv ==
  ASSUME IInv, NEW c \in CPUs, NEW p \in Procs, Releasesleep(c, p)
  PROVE  IInv'
<1> USE Slots DEF IInv, Releasesleep, At, Acquire, Release
<1>1. TypeOK' BY Zenon DEF TypeOK, States, PCs, Contexts
<1>2. Stacks' BY Zenon DEF Stacks, TypeOK
<1>3. Points' BY DEF Points, TypeOK, Alive, Stacks
<1>4. Forks' BY DEF Forks, TypeOK, Points
<1>5. Family' BY Zenon DEF Family, TypeOK, Alive, Forks
<1>6. SleepLock' BY DEF SleepLock, NoLostWakeup, MutualExclusion, TypeOK, Points
<1>7. WaitersHaveWork' BY DEF WaitersHaveWork, Children, TypeOK, Family, Forks
<1> QED BY <1>1, <1>2, <1>3, <1>4, <1>5, <1>6, <1>7, Zenon

(* releasesleep() wakes every sleeper. *)
LEMMA WakeupInv ==
  ASSUME IInv, NEW c \in CPUs, NEW p \in Procs, Wakeup(c, p)
  PROVE  IInv'
<1> USE Slots DEF IInv, Wakeup, At, Wakeup1
<1>1. TypeOK' BY Zenon DEF TypeOK, States, PCs, Contexts
<1>2. Stacks' BY Zenon DEF Stacks, TypeOK
<1>3. Points' BY SMTT(30) DEF Points, TypeOK, Alive, Stacks
<1>4. Forks' BY SMTT(30) DEF Forks, TypeOK, Points
<1>5. Family' BY DEF Family, TypeOK, Alive, Forks
<1>6. SleepLock' BY DEF SleepLock, NoLostWakeup, MutualExclusion, TypeOK, Points
<1>7. WaitersHaveWork' BY DEF WaitersHaveWork, Children, TypeOK, Family, Forks
<1> QED BY <1>1, <1>2, <1>3, <1>4, <1>5, <1>6, <1>7, Zenon

(* scheduler() switches to a process. *)
LEMMA DispatchInv ==
  ASSUME IInv, NEW c \in CPUs, Dispatch(c)
  PROVE  IInv'
<1> USE Slots
<1> DEFINE R == {p \in Procs : state[p] = "RUNNABLE" /\ (lock = c => p >= next[c])}
           q == First(R)
<1>1. /\ IInv /\ q \in Procs /\ state[q] = "RUNNABLE" /\ cpu[c] = NULL /\ lock \in {NULL, c}
      /\ cpu' = [cpu EXCEPT ![c] = q] /\ state' = [state EXCEPT ![q] = "RUNNING"]
      /\ next' = [next EXCEPT ![c] = q + 1] /\ lock' = c
      /\ UNCHANGED <<parent, killed, pid, chan, ctx, pc, np, nextpid, locked, lk, panicked>>
  <2>1. q \in R
    <3>1. R \in SUBSET Procs /\ R # {} BY Zenon DEF Dispatch
    <3> HIDE DEF R
    <3> QED BY <3>1, FirstIn, Zenon
  <2>2. Dispatch(c) BY Zenon
  <2> QED BY <2>1, <2>2, Zenon DEF Dispatch
<1> HIDE DEF R, q
<1>2. TypeOK' BY SMTT(30), <1>1 DEF IInv, TypeOK, States, PCs, Contexts
<1>3. Stacks' BY SMTT(30), <1>1 DEF IInv, Stacks, TypeOK
<1>4. Points' BY SMTT(30), <1>1 DEF IInv, Points, TypeOK, Alive, Stacks
<1>5. Forks' BY SMTT(30), <1>1 DEF IInv, Forks, TypeOK, Points
<1>6. Family' BY SMTT(30), <1>1 DEF IInv, Family, TypeOK, Alive, Forks
<1>7. SleepLock' BY SMTT(30), <1>1 DEF IInv, SleepLock, NoLostWakeup, MutualExclusion, TypeOK, Points
<1>8. WaitersHaveWork' BY <1>1 DEF IInv, WaitersHaveWork, Children, TypeOK, Family, Forks
<1> QED BY <1>2, <1>3, <1>4, <1>5, <1>6, <1>7, <1>8, Zenon DEF IInv

(* allocproc() gives fork() an UNUSED slot. *)
LEMMA AllocprocInv ==
  ASSUME IInv, NEW c \in CPUs, NEW p \in Procs, Allocproc(c, p)
  PROVE  IInv'
<1> USE Slots
<1> DEFINE U == {q \in Procs : state[q] = "UNUSED"}
           q == First(U)
<1>1. /\ IInv /\ q \in Procs /\ state[q] = "UNUSED" /\ nextpid <= MaxPid
      /\ cpu[c] = p /\ state[p] = "RUNNING" /\ lock = NULL /\ pc[p] = "syscall"
      /\ state' = [state EXCEPT ![q] = "EMBRYO"] /\ pid' = [pid EXCEPT ![q] = nextpid]
      /\ nextpid' = nextpid + 1 /\ np' = [np EXCEPT ![p] = q]
      /\ pc' = [pc EXCEPT ![p] = "fork"]
      /\ UNCHANGED <<parent, killed, chan, ctx, cpu, lock, next, locked, lk, panicked>>
  <2>1. q \in U
    <3>1. U \in SUBSET Procs /\ U # {} BY Zenon DEF Allocproc
    <3> HIDE DEF U
    <3> QED BY <3>1, FirstIn, Zenon
  <2> QED BY <2>1, Zenon DEF Allocproc, At
<1> HIDE DEF U, q
<1>2. TypeOK' BY <1>1 DEF IInv, TypeOK, States, PCs, Contexts
<1>3. Stacks' BY <1>1, Zenon DEF IInv, Stacks, TypeOK
<1>4. Points' BY SMTT(30), <1>1 DEF IInv, Points, TypeOK, Alive, Stacks
<1>5. Forks' BY SMTT(30), <1>1 DEF IInv, Forks, TypeOK, Points, Family, Alive
<1>6. Family' BY SMTT(30), <1>1 DEF IInv, Family, TypeOK, Alive, Forks
<1>7. SleepLock' BY SMTT(30), <1>1 DEF IInv, SleepLock, NoLostWakeup, MutualExclusion, TypeOK, Points
<1>8. WaitersHaveWork' BY <1>1 DEF IInv, WaitersHaveWork, Children, TypeOK, Family, Forks
<1> QED BY <1>2, <1>3, <1>4, <1>5, <1>6, <1>7, <1>8, Zenon DEF IInv

(* kill() wakes its victim. *)
LEMMA KillInv ==
  ASSUME IInv, NEW c \in CPUs, NEW p \in Procs, NEW n \in KillPids, Kill(c, p, n)
  PROVE  IInv'
<1> USE Slots
<1> DEFINE T == {q \in Procs : pid[q] = n}
           q == First(T)
<1>1. /\ IInv /\ q \in Procs
      /\ cpu[c] = p /\ state[p] = "RUNNING" /\ lock = NULL /\ pc[p] = "syscall"
      /\ killed' = [killed EXCEPT ![q] = TRUE]
      /\ state' = [state EXCEPT ![q] = IF state[q] = "SLEEPING" THEN "RUNNABLE" ELSE state[q]]
      /\ pc' = [pc EXCEPT ![p] = "user"]
      /\ UNCHANGED <<parent, pid, chan, ctx, np, nextpid, cpu, lock, next, locked, lk, panicked>>
  <2>1. q \in T
    <3>1. T \in SUBSET Procs /\ T # {} BY Zenon DEF Kill
    <3> HIDE DEF T
    <3> QED BY <3>1, FirstIn, Zenon
  <2> QED BY <2>1, Zenon DEF Kill, At
<1> HIDE DEF T, q
<1>2. TypeOK' BY <1>1, Zenon DEF IInv, TypeOK, States, PCs, Contexts
<1>3. Stacks' BY SMTT(30), <1>1 DEF IInv, Stacks, TypeOK
<1>4. Points' BY SMTT(30), <1>1 DEF IInv, Points, TypeOK, Alive, Stacks
<1>5. Forks' BY SMTT(30), <1>1 DEF IInv, Forks, TypeOK, Points
<1>6. Family' BY SMTT(30), <1>1 DEF IInv, Family, TypeOK, Alive, Forks
<1>7. SleepLock' BY SMTT(30), <1>1 DEF IInv, SleepLock, NoLostWakeup, MutualExclusion, TypeOK, Points
<1>8. WaitersHaveWork' BY <1>1 DEF IInv, WaitersHaveWork, Children, TypeOK, Family, Forks
<1> QED BY <1>2, <1>3, <1>4, <1>5, <1>6, <1>7, <1>8, Zenon DEF IInv

(* exit(): the children go to initproc, and whoever waits is woken. *)
LEMMA ExitInv ==
  ASSUME IInv, NEW c \in CPUs, NEW p \in Procs, Exit(c, p)
  PROVE  IInv'
<1> USE Slots
<1> DEFINE adopted == \E q \in Children(p) : state[q] = "ZOMBIE"
<1>1. CASE p = initproc
  <2>1. /\ IInv /\ UNCHANGED <<state, parent, pc, lock, killed, pid, chan, ctx, np, nextpid, cpu,
                               next, locked, lk>>
        /\ panicked' = TRUE
    BY <1>1, Zenon DEF Exit
  <2> QED BY <2>1, KeepInv, Zenon DEF IInv, TypeOK
<1>2. CASE p # initproc
  <2>1. /\ IInv /\ cpu[c] = p /\ state[p] = "RUNNING" /\ pc[p] \in {"syscall", "user"}
        /\ lock = NULL /\ lock' = c
        /\ parent' = [q \in Procs |-> IF parent[q] = p THEN initproc ELSE parent[q]]
        /\ pc' = [pc EXCEPT ![p] = "user"]
        /\ UNCHANGED <<killed, pid, chan, ctx, np, nextpid, cpu, next, locked, lk, panicked>>
    BY <1>2, Zenon DEF Exit, At, Acquire
  <2>2. /\ state' \in [Procs -> States] /\ state'[p] = "ZOMBIE"
        /\ \A q \in Procs \ {p} :
             state'[q] = IF /\ state[q] = "SLEEPING"
                            /\ chan[q] = parent[p] \/ (adopted /\ chan[q] = initproc)
                         THEN "RUNNABLE" ELSE state[q]
    <3> DEFINE woken == Wakeup1(state, parent[p])
               st == IF adopted THEN Wakeup1(woken, initproc) ELSE woken
    <3>1. state' = [st EXCEPT ![p] = "ZOMBIE"] BY <1>2, Zenon DEF Exit
    <3>2. \A q \in Procs : woken[q] = IF state[q] = "SLEEPING" /\ chan[q] = parent[p]
                                   THEN "RUNNABLE" ELSE state[q]
      BY Zenon DEF Wakeup1
    <3> HIDE DEF woken, adopted
    <3>3. \A q \in Procs : st[q] = IF /\ state[q] = "SLEEPING"
                                      /\ chan[q] = parent[p] \/ (adopted /\ chan[q] = initproc)
                                   THEN "RUNNABLE" ELSE state[q]
      BY <3>2, Zenon DEF Wakeup1
    <3>4. DOMAIN st = Procs BY Zenon DEF Wakeup1, woken
    <3> HIDE DEF st
    <3> QED BY <3>1, <3>3, <3>4, <2>1, Zenon DEF IInv, TypeOK, States
  <2> HIDE DEF adopted
  <2>3. TypeOK' BY <2>1, <2>2, ZenonT(60) DEF IInv, TypeOK, PCs
  <2>4. Stacks' BY SMTT(30), <2>1, <2>2 DEF IInv, Stacks, TypeOK
  <2>5. Points' BY SMTT(30), <2>1, <2>2 DEF IInv, Points, TypeOK, Alive, Stacks
  <2>6. Forks' BY SMTT(30), <2>1, <2>2 DEF IInv, Forks, TypeOK
  <2>7. Family' BY SMTT(30), <1>2, <2>1, <2>2 DEF IInv, Family, TypeOK, Alive
  <2>8. SleepLock' BY <2>1, <2>2 DEF IInv, SleepLock, NoLostWakeup, MutualExclusion, TypeOK
  <2>9. WaitersHaveWork'
    <3>1. parent[p] # p /\ parent \in [Procs -> Procs \cup {NULL}]
      BY <2>1, Zenon DEF IInv, Family, TypeOK
    <3>2. \A q \in Procs : parent[q] = p /\ state[q] = "ZOMBIE" => adopted
      BY Zenon DEF adopted, Children
    <3> SUFFICES ASSUME NEW r \in Procs, state'[r] = "SLEEPING", chan[r] = r
                 PROVE  /\ \E x \in Procs : parent'[x] = r
                        /\ \A x \in Procs : parent'[x] = r => state'[x] # "ZOMBIE"
      BY <2>1 DEF WaitersHaveWork, Children
    <3>3. r # p /\ state[r] = "SLEEPING" /\ r # parent[p] /\ ~(adopted /\ r = initproc)
      BY <2>2, Zenon
    <3>4. /\ \E x \in Procs : parent[x] = r
          /\ \A x \in Procs : parent[x] = r => state[x] # "ZOMBIE"
      BY <2>1, <3>3, Zenon DEF IInv, WaitersHaveWork, Children
    <3>5. ASSUME NEW x \in Procs, parent'[x] = r PROVE state'[x] # "ZOMBIE"
      <4>1. x # p BY <1>2, <2>1, <3>1, <3>3, <3>5, Zenon
      <4>2. state[x] # "ZOMBIE" BY <2>1, <3>2, <3>3, <3>4, <3>5, Zenon
      <4> QED BY <2>2, <4>1, <4>2, Zenon
    <3> QED BY <2>1, <3>3, <3>4, <3>5, Zenon
  <2> QED BY <2>3, <2>4, <2>5, <2>6, <2>7, <2>8, <2>9, Zenon DEF IInv
<1> QED BY <1>1, <1>2, Zenon

(* wait() *)
LEMMA WaitInv ==
  ASSUME IInv, NEW c \in CPUs, NEW p \in Procs, Wait(c, p)
  PROVE  IInv'
<1> USE Slots
<1> DEFINE Z == {q \in Children(p) : state[q] = "ZOMBIE"}
           q == First(Z)
<1>1. /\ IInv /\ cpu[c] = p /\ state[p] = "RUNNING" /\ lock \in {NULL, c}
      /\ pc[p] = "syscall"
      /\ UNCHANGED <<np, nextpid, cpu, next, locked, lk, panicked>>
  BY Zenon DEF Wait, At, IInv, Points
<1>2. CASE /\ Z # {}
           /\ state' = [state EXCEPT ![q] = "UNUSED"]
           /\ pid' = [pid EXCEPT ![q] = 0]
           /\ parent' = [parent EXCEPT ![q] = NULL]
           /\ killed' = [killed EXCEPT ![q] = FALSE]
           /\ chan' = [chan EXCEPT ![p] = NULL]
           /\ ctx' = [ctx EXCEPT ![p] = "none"]
           /\ pc' = [pc EXCEPT ![p] = "user"]
           /\ lock' = NULL
  <2>1. q \in Procs /\ parent[q] = p /\ state[q] = "ZOMBIE"
    <3>1. Z \in SUBSET Procs BY Zenon DEF Children
    <3>2. q \in Z
      <4> HIDE DEF Z
      <4> QED BY <1>2, <3>1, FirstIn, ZenonT(60)
    <3> QED BY <3>2, Zenon DEF Children
  <2> HIDE DEF Z, q
  <2>3. TypeOK' BY SMTT(30), <1>1, <1>2, <2>1 DEF IInv, TypeOK, PCs, States, Contexts
  <2>4. Stacks' BY SMTT(30), <1>1, <1>2, <2>1 DEF IInv, Stacks, TypeOK
  <2>5. Points' BY SMTT(30), <1>1, <1>2, <2>1 DEF IInv, Points, TypeOK, Alive, Stacks
  <2>6. Forks' BY SMTT(30), <1>1, <1>2, <2>1 DEF IInv, Forks, TypeOK
  <2>7. Family' BY SMTT(30), <1>1, <1>2, <2>1 DEF IInv, Family, TypeOK, Alive
  <2>8. SleepLock' BY SMTT(30), <1>1, <1>2, <2>1 DEF IInv, SleepLock, NoLostWakeup, MutualExclusion, TypeOK
  <2>9. WaitersHaveWork' BY <1>1, <1>2, <2>1 DEF IInv, WaitersHaveWork, Children, TypeOK
  <2> QED BY <2>3, <2>4, <2>5, <2>6, <2>7, <2>8, <2>9, Zenon DEF IInv
<1>3. CASE /\ chan' = [chan EXCEPT ![p] = NULL]
           /\ ctx' = [ctx EXCEPT ![p] = "none"]
           /\ pc' = [pc EXCEPT ![p] = "user"]
           /\ lock' = NULL
           /\ UNCHANGED <<state, pid, parent, killed>>
  <2> HIDE DEF Z, q
  <2>3. TypeOK' BY <1>1, <1>3, Zenon DEF IInv, TypeOK, PCs, Contexts
  <2>4. Stacks' BY <1>1, <1>3, ZenonT(60) DEF IInv, Stacks, TypeOK
  <2>5. Points' BY SMTT(30), <1>1, <1>3 DEF IInv, Points, TypeOK, Alive, Stacks
  <2>6. Forks' BY <1>1, <1>3 DEF IInv, Forks, TypeOK
  <2>7. Family' BY <1>1, <1>3, Zenon DEF IInv, Family
  <2>8. SleepLock' BY <1>1, <1>3 DEF IInv, SleepLock, NoLostWakeup, MutualExclusion, TypeOK
  <2>9. WaitersHaveWork' BY <1>1, <1>3 DEF IInv, WaitersHaveWork, Children, TypeOK
  <2> QED BY <2>3, <2>4, <2>5, <2>6, <2>7, <2>8, <2>9 DEF IInv
<1>4. CASE /\ Children(p) # {} /\ Z = {}
           /\ state' = [state EXCEPT ![p] = "SLEEPING"]
           /\ chan' = [chan EXCEPT ![p] = p]
           /\ ctx' = [ctx EXCEPT ![p] = "wait"]
           /\ lock' = c
           /\ UNCHANGED <<pid, parent, killed, pc>>
  <2>1. \E r \in Procs : parent[r] = p BY <1>4, Zenon DEF Children
  <2>2. \A r \in Procs : parent[r] = p => state[r] # "ZOMBIE" BY <1>4, Zenon DEF Children
  <2> HIDE DEF Z, q
  <2>3. TypeOK' BY <1>1, <1>4, ZenonT(60) DEF IInv, TypeOK, States, Contexts
  <2>4. Stacks' BY SMTT(30), <1>1, <1>4 DEF IInv, Stacks, TypeOK
  <2>5. Points' BY SMTT(30), <1>1, <1>4 DEF IInv, Points, TypeOK, Alive, Stacks
  <2>6. Forks' BY SMTT(30), <1>1, <1>4 DEF IInv, Forks, TypeOK
  <2>7. Family' BY <1>1, <1>4 DEF IInv, Family, TypeOK, Alive
  <2>8. SleepLock' BY <1>1, <1>4, Zenon DEF IInv, SleepLock, NoLostWakeup, MutualExclusion, TypeOK
  <2>9. WaitersHaveWork' BY <1>1, <1>4, <2>1, <2>2 DEF IInv, WaitersHaveWork, Children, TypeOK
  <2> QED BY <2>3, <2>4, <2>5, <2>6, <2>7, <2>8, <2>9 DEF IInv
<1> QED BY <1>2, <1>3, <1>4, Zenon DEF Wait, Release

(* Every step keeps the invariant. *)
LEMMA NextInv == IInv /\ [Next]_vars => IInv'
<1> SUFFICES ASSUME IInv, [Next]_vars PROVE IInv' BY Zenon
<1>1. CASE UNCHANGED vars
  <2>1. TypeOK' BY <1>1, Zenon DEF vars, IInv, TypeOK
  <2> QED BY <1>1, <2>1, KeepInv, Zenon DEF vars
<1>2. ASSUME NEW c \in CPUs, Scheduler(c) PROVE IInv'
  BY <1>2, DispatchInv, ScanEndInv, SchedInv, ResumeInv, Zenon DEF Scheduler
<1>3. ASSUME NEW c \in CPUs, NEW p \in Procs, Process(c, p) PROVE IInv'
  BY <1>3, YieldInv, SyscallInv, AllocprocInv, ForkFailInv, ForkParentInv, ForkRunnableInv,
     ExitInv, WaitInv, KillInv, AcquireLkInv, AcquiresleepInv, ReleasesleepInv, WakeupInv, Zenon
     DEF Process
<1> QED BY <1>1, <1>2, <1>3, Zenon DEF Next

(* The inductive invariant holds throughout. *)
LEMMA Invariance == Spec => []IInv
  BY InitInv, NextInv, PTL DEF Spec

(* The table, the CPUs and the sleep lock always have their types. *)
THEOREM TypeCorrect == Spec => []TypeOK
  BY Invariance, PTL DEF IInv

(* A process has the CPU it runs on, and its kernel stack, to itself, and  *)
(* one that is no longer RUNNING is on a CPU that holds ptable.lock: what  *)
(* sched() relies on, and wait() when it frees the stack of a zombie.      *)
THEOREM Stack == Spec => []StackUnshared
<1>1. IInv => StackUnshared BY Zenon DEF IInv, Stacks, StackUnshared
<1> QED BY <1>1, Invariance, PTL

(* No process sleeps in acquiresleep() on a lock that is free, unless its  *)
(* wakeup() is under way: the hand-over of lk in sleep() loses none.       *)
THEOREM Wakeups == Spec => []NoLostWakeup
<1>1. IInv => NoLostWakeup BY Zenon DEF IInv, SleepLock
<1> QED BY <1>1, Invariance, PTL

(* At most one process is between acquiresleep() and releasesleep(). *)
THEOREM Exclusion == Spec => []MutualExclusion
<1>1. IInv => MutualExclusion BY Zenon DEF IInv, SleepLock
<1> QED BY <1>1, Invariance, PTL

(* A parent asleep in wait() has a child, and none of its children is a    *)
(* ZOMBIE that it was not woken for by exit().                             *)
THEOREM Waiters == Spec => []WaitersHaveWork
<1>1. IInv => WaitersHaveWork BY Zenon DEF IInv
<1> QED BY <1>1, Invariance, PTL

(* A process past fork() always has a parent that is alive, whichever      *)
(* process exits or is killed when: exit() passes children on to initproc. *)
THEOREM Parents == Spec => []ParentAlive
<1>1. IInv => ParentAlive BY Zenon DEF IInv, Family, ParentAlive, Alive, TypeOK
<1> QED BY <1>1, Invariance, PTL
============================================================================
