------------------------------ MODULE Userland -----------------------------
(***************************************************************************)
(* The parts that a program meets without the file system: the console,    *)
(* the clock, the allocator of the C library and the shell.  They share no *)
(* state, so one part moves in each behaviour: their product would show    *)
(* nothing more.                                                           *)
(***************************************************************************)
EXTENDS Console, Clock, Malloc, Shell

VARIABLE part

userVars == <<part, consoleVars, clockVars, mallocVars, shellVars>>

Parts == {"console", "clock", "malloc", "shell"}

Init ==
  /\ part \in Parts
  /\ ConsoleInit /\ ClockInit /\ MallocInit /\ ShellInit
  /\ part # "console" => r = 0
  /\ part # "clock" => ticks = 0
  /\ part # "shell" => line = <<>>

ConsoleMoves ==
  /\ part = "console" /\ ConsoleNext
  /\ UNCHANGED <<part, clockVars, mallocVars, shellVars>>

ClockMoves ==
  /\ part = "clock" /\ ClockNext
  /\ UNCHANGED <<part, consoleVars, mallocVars, shellVars>>

MallocMoves ==
  /\ part = "malloc" /\ MallocStep
  /\ UNCHANGED <<part, consoleVars, clockVars, shellVars>>

ShellMoves(step) ==
  /\ part = "shell" /\ ppc[INIT] # "panic" /\ step
  /\ UNCHANGED <<part, consoleVars, clockVars, mallocVars>>

Next ==
  \/ ConsoleMoves \/ ClockMoves \/ MallocMoves
  \/ ShellMoves(InitStep)
  \/ \E q \in Slots \ {INIT} : ShellMoves(ShellStep(q)) \/ ShellMoves(Getcmd(q))

(* The scheduler runs every process of the shell; a line need not be typed. *)
Fairness ==
  /\ WF_userVars(ShellMoves(InitStep))
  /\ \A q \in Slots \ {INIT} : WF_userVars(ShellMoves(ShellStep(q)))

Spec == Init /\ [][Next]_userVars /\ Fairness

(* The shell always comes back to its prompt: every process it waits for   *)
(* ends, since no reader of a pipe waits for an end that is open elsewhere *)
(* and no parent for a child that waits for it; and init starts a new      *)
(* shell for one that has exited, at the end of its input or because       *)
(* fork() failed.  The exception is that init finds no free process        *)
(* itself, and exits.                                                      *)
PromptReturns == part = "shell" => []<>(AtPrompt \/ ppc[INIT] = "panic")
============================================================================
