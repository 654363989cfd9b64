------------------------------- MODULE Clock -------------------------------
(***************************************************************************)
(* The timer interrupt of trap(), sys_sleep() and sys_uptime(), and the    *)
(* checks of p->killed in trap() that end a process.  The sections under   *)
(* tickslock are one step each.                                            *)
(***************************************************************************)
EXTENDS Integers

CONSTANTS
  Sleepers,   \* processes
  WORD,       \* ticks is modulo WORD: 2^32
  SleepArgs   \* the arguments of sys_sleep(); a negative one is modulo WORD

VARIABLES
  ticks,      \* ticks
  ticks0,     \* the local variables ticks0 and n of sys_sleep()
  naptime,
  spc,        \* where a process is: "user", "run", "asleep", "trapret" or "dead"
  skilled,    \* p->killed
  passed      \* the ticks since sys_sleep() began

clockVars == <<ticks, ticks0, naptime, spc, skilled, passed>>

ClockInit ==
  /\ ticks \in {0, WORD - 1}
  /\ ticks0 = [p \in Sleepers |-> 0]
  /\ naptime = [p \in Sleepers |-> 0]
  /\ spc = [p \in Sleepers |-> "user"]
  /\ skilled = [p \in Sleepers |-> FALSE]
  /\ passed = [p \in Sleepers |-> 0]

(* Variant: the comparison of the two moments instead of their distance. *)
EarlyWrapped(p) == ticks < (ticks0[p] + naptime[p]) % WORD

(* ticks - ticks0 < n, of unsigned integers. *)
Early(p) == (ticks - ticks0[p]) % WORD < naptime[p] % WORD

(* The system call, unless trap() finds the process killed. *)
SysSleep(p, n) ==
  /\ spc[p] = "user"
  /\ IF skilled[p] THEN spc' = [spc EXCEPT ![p] = "dead"] /\ UNCHANGED <<ticks0, naptime, passed>>
     ELSE /\ spc' = [spc EXCEPT ![p] = "run"]
          /\ ticks0' = [ticks0 EXCEPT ![p] = ticks]
          /\ naptime' = [naptime EXCEPT ![p] = n]
          /\ passed' = [passed EXCEPT ![p] = 0]
  /\ UNCHANGED <<ticks, skilled>>

(* The loop: done, killed, or asleep on &ticks. *)
SleepLoop(p) ==
  /\ spc[p] = "run"
  /\ spc' = [spc EXCEPT ![p] = IF ~Early(p) \/ skilled[p] THEN "trapret" ELSE "asleep"]
  /\ UNCHANGED <<ticks, ticks0, naptime, skilled, passed>>

(* trap() after syscall(). *)
TrapReturn(p) ==
  /\ spc[p] = "trapret"
  /\ spc' = [spc EXCEPT ![p] = IF skilled[p] THEN "dead" ELSE "user"]
  /\ ticks0' = [ticks0 EXCEPT ![p] = 0]
  /\ naptime' = [naptime EXCEPT ![p] = 0]
  /\ passed' = [passed EXCEPT ![p] = 0]
  /\ UNCHANGED <<ticks, skilled>>

(* trap() after an interrupt in user space. *)
TrapUser(p) ==
  /\ spc[p] = "user" /\ skilled[p]
  /\ spc' = [spc EXCEPT ![p] = "dead"]
  /\ UNCHANGED <<ticks, ticks0, naptime, skilled, passed>>

Wake(pc) == IF pc = "asleep" THEN "run" ELSE pc

(* The timer interrupt: ticks++ and wakeup(&ticks).  Bound: a process that *)
(* is ready runs before the counter has gone round.                        *)
Timer ==
  /\ \A p \in Sleepers : spc[p] = "run" => passed[p] < WORD - 1
  /\ ticks' = (ticks + 1) % WORD
  /\ spc' = [p \in Sleepers |-> Wake(spc[p])]
  /\ passed' = [p \in Sleepers |->
       IF spc[p] \in {"run", "asleep"} THEN passed[p] + 1 ELSE passed[p]]
  /\ UNCHANGED <<ticks0, naptime, skilled>>

(* kill() *)
KillSleeper(p) ==
  /\ ~skilled[p] /\ spc[p] # "dead"
  /\ skilled' = [skilled EXCEPT ![p] = TRUE]
  /\ spc' = [spc EXCEPT ![p] = Wake(@)]
  /\ UNCHANGED <<ticks, ticks0, naptime, passed>>

ClockNext ==
  \/ Timer
  \/ \E p \in Sleepers : \/ \E n \in SleepArgs : SysSleep(p, n)
                         \/ SleepLoop(p) \/ TrapReturn(p) \/ TrapUser(p) \/ KillSleeper(p)

----------------------------------------------------------------------------
(* sys_sleep() is not over before its ticks have passed, unless the        *)
(* process is killed, and nobody sleeps on &ticks after that: the counter  *)
(* may wrap meanwhile.                                                     *)
SleepsExactly ==
  \A p \in Sleepers :
    /\ spc[p] = "trapret" => skilled[p] \/ passed[p] >= naptime[p] % WORD
    /\ spc[p] = "asleep" => passed[p] < naptime[p] % WORD /\ ~skilled[p]
============================================================================
