-------------------------------- MODULE Proc --------------------------------
(***************************************************************************)
(* The process table of proc.c: allocproc(), fork(), exit(), wait(),       *)
(* kill(), sleep(), wakeup(), yield() and scheduler() on several CPUs, with *)
(* the sleep lock of sleeplock.c as the client of sleep() and wakeup().    *)
(* What these operations do to memory is module Cow.                       *)
(*                                                                         *)
(* ptable.lock is held across swtch(): a process takes it, sched() hands   *)
(* it to the scheduler of its CPU, and the next process releases it.       *)
(***************************************************************************)
EXTENDS Naturals, FiniteSets

CONSTANTS NPROC,      \* slots of ptable
          CPUs,
          NULL,
          MaxPid,     \* bound on the pids handed out
          Lockers,    \* processes that use the sleep lock
          KillPids    \* the arguments of kill()

Procs == 1 .. NPROC
initproc == 1

ASSUME ProcAssumption ==
  /\ NPROC \in Nat \ {0}
  /\ CPUs # {}
  /\ NULL \notin Procs \cup CPUs
  /\ MaxPid \in Nat \ {0}
  /\ Lockers \subseteq Procs
  /\ KillPids \subseteq Nat

VARIABLES
  state, parent, killed, pid, chan,   \* struct proc
  ctx,        \* what a process that is not running returns to from swtch()
  pc,         \* where a process is when it runs
  np,         \* the child fork() is making
  nextpid,
  cpu,        \* mycpu()->proc
  lock,       \* the CPU that holds ptable.lock
  next,       \* where scheduler() goes on with its scan
  locked,     \* the sleep lock: locked,
  lk,         \* and the process that holds its spin lock lk
  panicked

vars == <<state, parent, killed, pid, chan, ctx, pc, np, nextpid, cpu, lock, next, locked,
          lk, panicked>>

States == {"UNUSED", "EMBRYO", "SLEEPING", "RUNNABLE", "RUNNING", "ZOMBIE"}
Contexts == {"none", "forkret", "yield", "sleep", "wait"}
PCs == {"user", "syscall", "fork", "forked", "acquire", "acquiresleep", "critical", "wakeup"}
SLEEPLOCK == 0        \* the channel that is not a process

(* Each variable keeps its type: scheduler() scans no further than the end *)
(* of ptable, and fork() and sleep() leave no stray values behind.         *)
TypeOK ==
  /\ state \in [Procs -> States]
  /\ parent \in [Procs -> Procs \cup {NULL}]
  /\ killed \in [Procs -> BOOLEAN]
  /\ pid \in [Procs -> 0 .. MaxPid]
  /\ chan \in [Procs -> Procs \cup {NULL, SLEEPLOCK}]
  /\ ctx \in [Procs -> Contexts]
  /\ pc \in [Procs -> PCs]
  /\ np \in [Procs -> Procs \cup {NULL}]
  /\ nextpid \in 1 .. MaxPid + 1
  /\ cpu \in [CPUs -> Procs \cup {NULL}]
  /\ lock \in CPUs \cup {NULL}
  /\ next \in [CPUs -> 1 .. NPROC + 1]
  /\ locked \in BOOLEAN
  /\ lk \in Procs \cup {NULL}
  /\ panicked \in BOOLEAN

(* pinit() and userinit(): initproc is RUNNABLE and returns to forkret(). *)
Init ==
  /\ state = [p \in Procs |-> IF p = initproc THEN "RUNNABLE" ELSE "UNUSED"]
  /\ parent = [p \in Procs |-> NULL]
  /\ killed = [p \in Procs |-> FALSE]
  /\ pid = [p \in Procs |-> IF p = initproc THEN 1 ELSE 0]
  /\ chan = [p \in Procs |-> NULL]
  /\ ctx = [p \in Procs |-> IF p = initproc THEN "forkret" ELSE "none"]
  /\ pc = [p \in Procs |-> "user"]
  /\ np = [p \in Procs |-> NULL]
  /\ nextpid = 2
  /\ cpu = [c \in CPUs |-> NULL]
  /\ lock = NULL
  /\ next = [c \in CPUs |-> 1]
  /\ locked = FALSE
  /\ lk = NULL
  /\ panicked = FALSE

First(S) == CHOOSE p \in S : \A q \in S : p <= q

Children(p) == {q \in Procs : parent[q] = p}

(* p runs on c, outside ptable.lock, at l. *)
At(c, p, l) ==
  ~panicked /\ cpu[c] = p /\ state[p] = "RUNNING" /\ lock # c /\ pc[p] = l

Acquire(c) == lock = NULL /\ lock' = c
Release == lock' = NULL

----------------------------------------------------------------------------
(* scheduler() *)

(* The scan, begun afresh or gone on with after swtch(), finds a RUNNABLE  *)
(* process and switches to it with ptable.lock held.                       *)
Dispatch(c) ==
  LET runnable == {p \in Procs : state[p] = "RUNNABLE" /\ (lock = c => p >= next[c])} IN
  /\ ~panicked /\ cpu[c] = NULL /\ lock \in {NULL, c} /\ runnable # {}
  /\ cpu' = [cpu EXCEPT ![c] = First(runnable)]
  /\ state' = [state EXCEPT ![First(runnable)] = "RUNNING"]
  /\ next' = [next EXCEPT ![c] = First(runnable) + 1]
  /\ lock' = c
  /\ UNCHANGED <<parent, killed, pid, chan, ctx, pc, np, nextpid, locked, lk, panicked>>

(* The scan ends: interrupts come on, and the next scan starts at the top. *)
ScanEnd(c) ==
  /\ ~panicked /\ cpu[c] = NULL /\ lock = c
  /\ \A p \in Procs : state[p] = "RUNNABLE" => p < next[c]
  /\ Release
  /\ next' = [next EXCEPT ![c] = 1]
  /\ UNCHANGED <<state, parent, killed, pid, chan, ctx, pc, np, nextpid, cpu, locked, lk,
                 panicked>>

(* sched(): the process leaves its kernel stack, ptable.lock stays taken. *)
Sched(c) ==
  /\ ~panicked /\ lock = c /\ cpu[c] # NULL /\ state[cpu[c]] # "RUNNING"
  /\ cpu' = [cpu EXCEPT ![c] = NULL]
  /\ UNCHANGED <<state, parent, killed, pid, chan, ctx, pc, np, nextpid, lock, next,
                 locked, lk, panicked>>

(* swtch() returns in forkret(), yield() or sleep(), which release         *)
(* ptable.lock. (The return in wait() is Wait.)                            *)
Resume(c, p) ==
  /\ ~panicked /\ lock = c /\ cpu[c] = p /\ state[p] = "RUNNING" /\ ctx[p] # "wait"
  /\ Release
  /\ ctx' = [ctx EXCEPT ![p] = "none"]
  /\ chan' = [chan EXCEPT ![p] = IF ctx[p] = "sleep" THEN NULL ELSE chan[p]]
  /\ pc' = [pc EXCEPT ![p] = IF ctx[p] = "sleep" THEN "acquire" ELSE pc[p]]
  /\ UNCHANGED <<state, parent, killed, pid, np, nextpid, cpu, next, locked, lk, panicked>>

(* The timer interrupt of trap() calls yield(); with a spin lock held      *)
(* interrupts are off.                                                     *)
Yield(c, p) ==
  /\ \E l \in PCs \ {"acquiresleep", "wakeup"} : At(c, p, l)
  /\ Acquire(c)
  /\ state' = [state EXCEPT ![p] = "RUNNABLE"]
  /\ ctx' = [ctx EXCEPT ![p] = "yield"]
  /\ UNCHANGED <<parent, killed, pid, chan, pc, np, nextpid, cpu, next, locked, lk,
                 panicked>>

----------------------------------------------------------------------------
(* System calls. trap() lets a process in that is not killed. *)
Syscall(c, p) ==
  /\ At(c, p, "user") /\ ~killed[p]
  /\ pc' = [pc EXCEPT ![p] = "syscall"]
  /\ UNCHANGED <<state, parent, killed, pid, chan, ctx, np, nextpid, cpu, lock, next,
                 locked, lk, panicked>>

(* allocproc() in fork(). *)
Allocproc(c, p) ==
  LET unused == {q \in Procs : state[q] = "UNUSED"} IN
  /\ At(c, p, "syscall") /\ lock = NULL /\ unused # {} /\ nextpid <= MaxPid
  /\ state' = [state EXCEPT ![First(unused)] = "EMBRYO"]
  /\ pid' = [pid EXCEPT ![First(unused)] = nextpid]
  /\ nextpid' = nextpid + 1
  /\ np' = [np EXCEPT ![p] = First(unused)]
  /\ pc' = [pc EXCEPT ![p] = "fork"]
  /\ UNCHANGED <<parent, killed, chan, ctx, cpu, lock, next, locked, lk, panicked>>

(* No memory for the kernel stack or the page table: the slot is UNUSED    *)
(* again; its pid and killed stay.                                         *)
ForkFail(c, p) ==
  /\ At(c, p, "fork")
  /\ state' = [state EXCEPT ![np[p]] = "UNUSED"]
  /\ np' = [np EXCEPT ![p] = NULL]
  /\ pc' = [pc EXCEPT ![p] = "user"]
  /\ UNCHANGED <<parent, killed, pid, chan, ctx, nextpid, cpu, lock, next, locked, lk,
                 panicked>>

(* np->parent = curproc, without ptable.lock. *)
ForkParent(c, p) ==
  /\ At(c, p, "fork")
  /\ parent' = [parent EXCEPT ![np[p]] = p]
  /\ pc' = [pc EXCEPT ![p] = "forked"]
  /\ UNCHANGED <<state, killed, pid, chan, ctx, np, nextpid, cpu, lock, next, locked, lk,
                 panicked>>

ForkRunnable(c, p) ==
  /\ At(c, p, "forked") /\ lock = NULL
  /\ state' = [state EXCEPT ![np[p]] = "RUNNABLE"]
  /\ ctx' = [ctx EXCEPT ![np[p]] = "forkret"]
  /\ np' = [np EXCEPT ![p] = NULL]
  /\ pc' = [pc EXCEPT ![p] = "user"]
  /\ UNCHANGED <<parent, killed, pid, chan, nextpid, cpu, lock, next, locked, lk, panicked>>

----------------------------------------------------------------------------
(* wakeup1(): the states after the sleepers on ch are woken. *)
Wakeup1(st, ch) ==
  [p \in Procs |-> IF st[p] = "SLEEPING" /\ chan[p] = ch THEN "RUNNABLE" ELSE st[p]]

(* Variant: exit() does not tell initproc of the zombies it passes on. *)
ExitSilent(c, p) ==
  /\ \/ At(c, p, "syscall") /\ p # initproc
     \/ At(c, p, "user") /\ killed[p]
  /\ p # initproc /\ Acquire(c)
  /\ state' = [Wakeup1(state, parent[p]) EXCEPT ![p] = "ZOMBIE"]
  /\ parent' = [q \in Procs |-> IF parent[q] = p THEN initproc ELSE parent[q]]
  /\ pc' = [pc EXCEPT ![p] = "user"]
  /\ UNCHANGED <<killed, pid, chan, ctx, np, nextpid, cpu, next, locked, lk, panicked>>

(* Variant: exit() does not wake its parent. *)
ExitUnnoticed(c, p) ==
  /\ \/ At(c, p, "syscall") /\ p # initproc
     \/ At(c, p, "user") /\ killed[p]
  /\ p # initproc /\ Acquire(c)
  /\ state' = [state EXCEPT ![p] = "ZOMBIE"]
  /\ parent' = [q \in Procs |-> IF parent[q] = p THEN initproc ELSE parent[q]]
  /\ pc' = [pc EXCEPT ![p] = "user"]
  /\ UNCHANGED <<killed, pid, chan, ctx, np, nextpid, cpu, next, locked, lk, panicked>>

(* Variant: exit() keeps its children. *)
ExitKeepsChildren(c, p) ==
  /\ \/ At(c, p, "syscall") /\ p # initproc
     \/ At(c, p, "user") /\ killed[p]
  /\ p # initproc /\ Acquire(c)
  /\ state' = [Wakeup1(state, parent[p]) EXCEPT ![p] = "ZOMBIE"]
  /\ pc' = [pc EXCEPT ![p] = "user"]
  /\ UNCHANGED <<parent, killed, pid, chan, ctx, np, nextpid, cpu, next, locked, lk,
                 panicked>>

(* Variant: exit() releases ptable.lock before sched(). *)
ExitUnlocked(c, p) ==
  LET woken == Wakeup1(state, parent[p]) IN
  /\ \/ At(c, p, "syscall") /\ p # initproc
     \/ At(c, p, "user") /\ killed[p]
  /\ p # initproc /\ lock = NULL
  /\ state' = [(IF \E q \in Children(p) : state[q] = "ZOMBIE"
                  THEN Wakeup1(woken, initproc) ELSE woken) EXCEPT ![p] = "ZOMBIE"]
  /\ parent' = [q \in Procs |-> IF parent[q] = p THEN initproc ELSE parent[q]]
  /\ pc' = [pc EXCEPT ![p] = "user"]
  /\ UNCHANGED <<killed, pid, chan, ctx, np, nextpid, cpu, lock, next, locked, lk, panicked>>

(* exit(), called by the process or, when it is killed, by trap(): the     *)
(* parent and, for a zombie passed on, initproc are woken. ptable.lock     *)
(* goes to the scheduler with sched().                                     *)
Exit(c, p) ==
  LET woken == Wakeup1(state, parent[p]) IN
  /\ \/ At(c, p, "syscall") /\ p # initproc
     \/ At(c, p, "user") /\ killed[p]
  /\ IF p = initproc
       THEN panicked' = TRUE /\ UNCHANGED <<state, parent, pc, lock>>
       ELSE /\ Acquire(c)
            /\ state' = [(IF \E q \in Children(p) : state[q] = "ZOMBIE"
                            THEN Wakeup1(woken, initproc) ELSE woken) EXCEPT ![p] = "ZOMBIE"]
            /\ parent' = [q \in Procs |-> IF parent[q] = p THEN initproc ELSE parent[q]]
            /\ pc' = [pc EXCEPT ![p] = "user"]
            /\ UNCHANGED panicked
  /\ UNCHANGED <<killed, pid, chan, ctx, np, nextpid, cpu, next, locked, lk>>

(* wait(), from its entry or from the return of its sleep(), up to its     *)
(* return or its next sleep().                                             *)
Wait(c, p) ==
  LET zombies == {q \in Children(p) : state[q] = "ZOMBIE"}
      q == First(zombies)
  IN
  /\ \/ At(c, p, "syscall") /\ lock = NULL
     \/ ~panicked /\ lock = c /\ cpu[c] = p /\ state[p] = "RUNNING" /\ ctx[p] = "wait"
  /\ \/ /\ zombies # {}
        /\ state' = [state EXCEPT ![q] = "UNUSED"]
        /\ pid' = [pid EXCEPT ![q] = 0]
        /\ parent' = [parent EXCEPT ![q] = NULL]
        /\ killed' = [killed EXCEPT ![q] = FALSE]
        /\ chan' = [chan EXCEPT ![p] = NULL]
        /\ ctx' = [ctx EXCEPT ![p] = "none"]
        /\ pc' = [pc EXCEPT ![p] = "user"]
        /\ Release
     \/ /\ Children(p) = {} \/ (zombies = {} /\ killed[p])
        /\ chan' = [chan EXCEPT ![p] = NULL]
        /\ ctx' = [ctx EXCEPT ![p] = "none"]
        /\ pc' = [pc EXCEPT ![p] = "user"]
        /\ Release
        /\ UNCHANGED <<state, pid, parent, killed>>
     \/ /\ Children(p) # {} /\ zombies = {} /\ ~killed[p]
        /\ state' = [state EXCEPT ![p] = "SLEEPING"]
        /\ chan' = [chan EXCEPT ![p] = p]
        /\ ctx' = [ctx EXCEPT ![p] = "wait"]
        /\ lock' = c
        /\ UNCHANGED <<pid, parent, killed, pc>>
  /\ UNCHANGED <<np, nextpid, cpu, next, locked, lk, panicked>>

(* Variant: kill() leaves a sleeper asleep. *)
KillAsleep(c, p, n) ==
  LET targets == {q \in Procs : pid[q] = n} IN
  /\ At(c, p, "syscall") /\ lock = NULL /\ targets # {}
  /\ killed' = [killed EXCEPT ![First(targets)] = TRUE]
  /\ pc' = [pc EXCEPT ![p] = "user"]
  /\ UNCHANGED <<state, parent, pid, chan, ctx, np, nextpid, cpu, lock, next, locked, lk,
                 panicked>>

(* kill(): the first slot with that pid, whatever its state. *)
Kill(c, p, n) ==
  LET targets == {q \in Procs : pid[q] = n}
      q == First(targets)
  IN
  /\ At(c, p, "syscall") /\ lock = NULL /\ targets # {}
  /\ killed' = [killed EXCEPT ![q] = TRUE]
  /\ state' = [state EXCEPT ![q] = IF state[q] = "SLEEPING" THEN "RUNNABLE" ELSE state[q]]
  /\ pc' = [pc EXCEPT ![p] = "user"]
  /\ UNCHANGED <<parent, pid, chan, ctx, np, nextpid, cpu, lock, next, locked, lk, panicked>>

----------------------------------------------------------------------------
(* acquiresleep() and releasesleep() *)

(* acquire(&lk->lk), at the entry and at the end of sleep(). *)
AcquireLk(c, p) ==
  /\ (At(c, p, "syscall") /\ p \in Lockers) \/ At(c, p, "acquire")
  /\ lk = NULL /\ lk' = p
  /\ pc' = [pc EXCEPT ![p] = "acquiresleep"]
  /\ UNCHANGED <<state, parent, killed, pid, chan, ctx, np, nextpid, cpu, lock, next,
                 locked, panicked>>

(* Variant: sleep() releases lk before it takes ptable.lock. *)
SleepReleasesFirst(c, p) ==
  /\ At(c, p, "acquiresleep")
  /\ lk' = IF lk = p THEN NULL ELSE lk
  /\ IF locked /\ lk = p
       THEN UNCHANGED <<locked, pc, lock, chan, state, ctx>>
       ELSE IF lk # p
       THEN /\ Acquire(c)
            /\ chan' = [chan EXCEPT ![p] = SLEEPLOCK]
            /\ state' = [state EXCEPT ![p] = "SLEEPING"]
            /\ ctx' = [ctx EXCEPT ![p] = "sleep"]
            /\ UNCHANGED <<locked, pc>>
       ELSE /\ locked' = TRUE
            /\ pc' = [pc EXCEPT ![p] = "critical"]
            /\ UNCHANGED <<lock, chan, state, ctx>>
  /\ UNCHANGED <<parent, killed, pid, np, nextpid, cpu, next, panicked>>

(* Variant: the lock is taken without a look at locked. *)
SleepUntested(c, p) ==
  /\ At(c, p, "acquiresleep")
  /\ locked' = TRUE /\ lk' = NULL
  /\ pc' = [pc EXCEPT ![p] = "critical"]
  /\ UNCHANGED <<state, parent, killed, pid, chan, ctx, np, nextpid, cpu, lock, next,
                 panicked>>

(* The loop of acquiresleep(): sleep(lk, &lk->lk) takes ptable.lock before *)
(* it releases lk, or the lock is free and taken.                          *)
Acquiresleep(c, p) ==
  /\ At(c, p, "acquiresleep")
  /\ lk' = NULL
  /\ IF locked
       THEN /\ Acquire(c)
            /\ chan' = [chan EXCEPT ![p] = SLEEPLOCK]
            /\ state' = [state EXCEPT ![p] = "SLEEPING"]
            /\ ctx' = [ctx EXCEPT ![p] = "sleep"]
            /\ UNCHANGED <<locked, pc>>
       ELSE /\ locked' = TRUE
            /\ pc' = [pc EXCEPT ![p] = "critical"]
            /\ UNCHANGED <<lock, chan, state, ctx>>
  /\ UNCHANGED <<parent, killed, pid, np, nextpid, cpu, next, panicked>>

(* releasesleep() up to wakeup(lk). *)
Releasesleep(c, p) ==
  /\ At(c, p, "critical")
  /\ lk = NULL /\ lk' = p
  /\ locked' = FALSE
  /\ pc' = [pc EXCEPT ![p] = "wakeup"]
  /\ UNCHANGED <<state, parent, killed, pid, chan, ctx, np, nextpid, cpu, lock, next,
                 panicked>>

(* wakeup(lk) and release(&lk->lk). *)
Wakeup(c, p) ==
  /\ At(c, p, "wakeup") /\ lock = NULL
  /\ state' = Wakeup1(state, SLEEPLOCK)
  /\ lk' = NULL
  /\ pc' = [pc EXCEPT ![p] = "user"]
  /\ UNCHANGED <<parent, killed, pid, chan, ctx, np, nextpid, cpu, lock, next, locked,
                 panicked>>

----------------------------------------------------------------------------
Scheduler(c) == Dispatch(c) \/ ScanEnd(c) \/ Sched(c) \/ \E p \in Procs : Resume(c, p)

Process(c, p) ==
  \/ Yield(c, p)
  \/ Syscall(c, p)
  \/ Allocproc(c, p) \/ ForkFail(c, p) \/ ForkParent(c, p) \/ ForkRunnable(c, p)
  \/ Exit(c, p) \/ Wait(c, p)
  \/ \E n \in KillPids : Kill(c, p, n)
  \/ AcquireLk(c, p) \/ Acquiresleep(c, p) \/ Releasesleep(c, p) \/ Wakeup(c, p)

Next == \E c \in CPUs : Scheduler(c) \/ \E p \in Procs : Process(c, p)

Spec == Init /\ [][Next]_vars

(* The steps a process takes of itself, once it is in the kernel or killed. *)
Forced(c, p) ==
  \/ ForkFail(c, p) \/ ForkParent(c, p) \/ ForkRunnable(c, p)
  \/ Wait(c, p) /\ ctx[p] = "wait"
  \/ Exit(c, p) /\ killed[p]

(* The timer interrupts every CPU, a CPU that spins on a free lock gets    *)
(* it, a process in the kernel goes on when it has a CPU, a killed process *)
(* traps, and initproc calls wait() again and again (init.c).              *)
Fairness ==
  /\ \A c \in CPUs : SF_vars(Scheduler(c)) /\ SF_vars(\E p \in Procs : Yield(c, p))
  /\ \A p \in Procs : SF_vars(\E c \in CPUs : Forced(c, p))
  /\ SF_vars(\E c \in CPUs : Syscall(c, initproc))
  /\ SF_vars(\E c \in CPUs : Wait(c, initproc))

FairSpec == Spec /\ Fairness

----------------------------------------------------------------------------
(* A process has the CPU it runs on to itself, and sched() hands           *)
(* ptable.lock over: a process that is no longer RUNNING leaves its kernel *)
(* stack before another CPU may run it or wait() frees the stack.          *)
StackUnshared ==
  \A c \in CPUs : cpu[c] # NULL =>
    /\ state[cpu[c]] # "UNUSED"
    /\ \A d \in CPUs \ {c} : cpu[d] # cpu[c]
    /\ state[cpu[c]] # "RUNNING" => lock = c

(* Nobody sleeps on a sleep lock that is free: sleep() takes ptable.lock   *)
(* before it releases lk, so no wakeup() is missed (proc.c, sleep()).      *)
NoLostWakeup ==
  \A p \in Procs : state[p] = "SLEEPING" /\ chan[p] = SLEEPLOCK =>
    locked \/ \E q \in Procs : pc[q] = "wakeup"

(* A parent asleep in wait() has a child and none that is a zombie: exit() *)
(* wakes the parent, and initproc for the zombies it passes on.            *)
WaitersHaveWork ==
  \A p \in Procs : state[p] = "SLEEPING" /\ chan[p] = p =>
    /\ Children(p) # {}
    /\ \A q \in Children(p) : state[q] # "ZOMBIE"

(* Whatever exits and is killed when, a process that is past fork() has a  *)
(* parent that can still wait() for it: exit() passes its children on.     *)
ParentAlive ==
  \A p \in Procs \ {initproc} : state[p] \notin {"UNUSED", "EMBRYO"} =>
    parent[p] # NULL /\ state[parent[p]] \notin {"UNUSED", "EMBRYO", "ZOMBIE"}

(* Two processes never hold the sleep lock at once. *)
MutualExclusion ==
  \A p, q \in Procs : pc[p] = "critical" /\ pc[q] = "critical" => p = q

(* kill() takes effect: the process exits as soon as it is out of the      *)
(* kernel, asleep in wait() or not.                                        *)
KilledExit ==
  \A p \in Procs : killed[p] /\ state[p] # "UNUSED" ~> panicked \/ state[p] \in {"ZOMBIE", "UNUSED"}

(* Zombies that belong to initproc are reaped. *)
OrphansReaped ==
  \A p \in Procs : state[p] = "ZOMBIE" /\ parent[p] = initproc ~>
                   panicked \/ state[p] = "UNUSED"

(* "Kill the process with the given pid" (proc.c:540): a process is not    *)
(* killed before it exists.                                                *)
BornAlive ==
  [][\A p \in Procs : state[p] = "UNUSED" /\ state'[p] = "EMBRYO" => ~killed'[p]]_vars
============================================================================
