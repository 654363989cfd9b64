------------------------------- MODULE Shell -------------------------------
(***************************************************************************)
(* sh.c and init.c: the parser of command lines, the processes that        *)
(* runcmd() makes, and the files that the commands get from them.  A line  *)
(* is the sequence of the tokens that gettoken() finds: "a" is a word, "+" *)
(* is >>.  Processes and files are those of the kernel: what fork(),       *)
(* exec(), wait(), exit(), open(), pipe(), dup() and close() do.           *)
(***************************************************************************)
EXTENDS Integers, Sequences, FiniteSets, FiniteSetsExt

CONSTANTS
  Slots,      \* the process table: 1 .. NPROC; init is 1
  Fds,        \* file descriptors: 0 .. NOFILE - 1
  MAXARGS,    \* arguments of a command, with the null at the end
  Lines       \* the lines that are typed; each behaviour has one

INIT == 1
NOFILE == <<"none", 0>>
CONSOLE == <<"console", 0>>
NOCMD == [type |-> "NONE"]

VARIABLES
  line,       \* the line
  eof,        \* whether it has been read: the input is then at its end
  ppc,        \* where a process is; "unused" if there is none
  parent,     \* p->parent
  ofile,      \* p->ofile: a file or an end of a pipe, with its place in the line
  cmd,        \* the command that runcmd() runs
  pfd,        \* its p[2]
  pid         \* the local variable pid of init

shellVars == <<line, eof, pid, ppc, parent, ofile, cmd, pfd>>

ShellInit ==
  /\ line \in Lines
  /\ eof = FALSE /\ pid = 0
  /\ ppc = [p \in Slots |-> IF p = INIT THEN "init" ELSE "unused"]
  /\ parent = [p \in Slots |-> INIT]
  /\ ofile = [p \in Slots |-> [fd \in Fds |-> NOFILE]]
  /\ cmd = [p \in Slots |-> NOCMD]
  /\ pfd = [p \in Slots |-> <<0, 0>>]

----------------------------------------------------------------------------
(* The commands: words and files are known by their places in the line.    *)
(* The parser.  A parse from token i gives a command and the token after   *)
(* it; after a panic that token is 0, where nothing more is found.         *)

execcmd == [type |-> "EXEC", argc |-> 0, at |-> 0]
redircmd(c, file, fd) == [type |-> "REDIR", cmd |-> c, file |-> file, fd |-> fd]
pipecmd(left, right, at) == [type |-> "PIPE", left |-> left, right |-> right, at |-> at]
listcmd(left, right) == [type |-> "LIST", left |-> left, right |-> right]
backcmd(c) == [type |-> "BACK", cmd |-> c]

Parsed(c, i) == [cmd |-> c, next |-> i]
gettoken(s, i) == IF i \in DOMAIN s THEN s[i] ELSE "0"
peek(s, i, toks) == gettoken(s, i) \in toks

RECURSIVE ParseLine(_, _), ParsePipe(_, _), AddArg(_, _), ParseBacks(_, _), ParseRedirs(_, _), ParseArgs(_, _, _)

(* parseredirs(): the last one of the text is the outermost command. *)
ParseRedirs(s, c) ==
  IF ~peek(s, c.next, {"<", ">", "+"}) THEN c
  ELSE IF gettoken(s, c.next + 1) # "a" THEN Parsed(c.cmd, 0)
  ELSE ParseRedirs(s, Parsed(redircmd(c.cmd, c.next + 1, IF gettoken(s, c.next) = "<" THEN 0 ELSE 1),
                             c.next + 2))

(* parseexec(): the words go to the execcmd, inside its redirections. *)
AddArg(c, i) ==
  IF c.type = "REDIR" THEN [c EXCEPT !.cmd = AddArg(@, i)]
  ELSE [c EXCEPT !.argc = @ + 1, !.at = IF c.argc = 0 THEN i ELSE @]

ParseArgs(s, c, argc) ==
  IF peek(s, c.next, {"|", ")", "&", ";", "0"}) THEN c
  ELSE IF gettoken(s, c.next) # "a" \/ argc + 1 >= MAXARGS THEN Parsed(c.cmd, 0)
  ELSE ParseArgs(s, ParseRedirs(s, Parsed(AddArg(c.cmd, c.next), c.next + 1)), argc + 1)

ParseBlock(s, i) ==
  LET c == ParseLine(s, i + 1)
  IN IF peek(s, c.next, {")"}) THEN ParseRedirs(s, Parsed(c.cmd, c.next + 1)) ELSE Parsed(c.cmd, 0)

ParseExec(s, i) ==
  IF peek(s, i, {"("}) THEN ParseBlock(s, i)
  ELSE ParseArgs(s, ParseRedirs(s, Parsed(execcmd, i)), 0)

ParsePipe(s, i) ==
  LET c == ParseExec(s, i)
      right == ParsePipe(s, c.next + 1)
  IN IF peek(s, c.next, {"|"})
       THEN Parsed(pipecmd(c.cmd, right.cmd, c.next), right.next)
       ELSE c

ParseBacks(s, c) ==
  IF peek(s, c.next, {"&"}) THEN ParseBacks(s, Parsed(backcmd(c.cmd), c.next + 1))
  ELSE c

ParseLine(s, i) ==
  LET c == ParseBacks(s, ParsePipe(s, i))
      right == ParseLine(s, c.next + 1)
  IN IF peek(s, c.next, {";"})
       THEN Parsed(listcmd(c.cmd, right.cmd), right.next)
       ELSE c

(* parsecmd(): NOCMD if it panics. *)
ParseCmd(s) ==
  LET c == ParseLine(s, 1) IN IF c.next = Len(s) + 1 THEN c.cmd ELSE NOCMD

----------------------------------------------------------------------------
(* System calls. *)

LowestFd(files) == Min({fd \in Fds : files[fd] = NOFILE})
Open(files, f) == [files EXCEPT ![LowestFd(files)] = f]
Close(files, fd) == [files EXCEPT ![fd] = NOFILE]

Goto(p, where) == ppc' = [ppc EXCEPT ![p] = where]

(* exit(): the files are closed and the children are init's. *)
Exit(p) ==
  /\ ppc' = [ppc EXCEPT ![p] = IF p = INIT THEN "panic" ELSE "zombie"]
  /\ parent' = [q \in Slots |-> IF parent[q] = p THEN INIT ELSE parent[q]]
  /\ ofile' = [ofile EXCEPT ![p] = [fd \in Fds |-> NOFILE]]
  /\ cmd' = [cmd EXCEPT ![p] = NOCMD]
  /\ pfd' = [pfd EXCEPT ![p] = <<0, 0>>]

(* fork1(): p goes on at after and the child at child, with the command c; *)
(* without a free slot p panics, which exits.                              *)
Fork(p, after, child, c) ==
  LET free == {q \in Slots : ppc[q] = "unused"}
      q == Min(free)
  IN IF free = {} THEN Exit(p)
     ELSE /\ ppc' = [ppc EXCEPT ![p] = after, ![q] = child]
          /\ parent' = [parent EXCEPT ![q] = p]
          /\ ofile' = [ofile EXCEPT ![q] = ofile[p]]
          /\ cmd' = [cmd EXCEPT ![q] = c]
          /\ pfd' = [pfd EXCEPT ![q] = pfd[p]]

(* wait(): for a child q that has exited; at once if there is no child. *)
Children(p) == {q \in Slots \ {INIT} : parent[q] = p /\ ppc[q] # "unused"}
Wait(p, q) ==
  \/ q \in Children(p) /\ ppc[q] = "zombie"
  \/ q = p /\ Children(p) = {}
Reap(p, q, where) ==
  /\ ppc' = [ppc EXCEPT ![q] = "unused", ![p] = where]
  /\ parent' = [parent EXCEPT ![q] = INIT]

----------------------------------------------------------------------------
(* init: the console as its three files, ... *)
InitOpen ==
  /\ ppc[INIT] = "init"
  /\ ofile' = [ofile EXCEPT ![INIT] = Open(Open(Open(@, CONSOLE), CONSOLE), CONSOLE)]
  /\ Goto(INIT, "initfork")
  /\ UNCHANGED <<line, eof, pid, parent, cmd, pfd>>

(* ... and a shell (exec("sh") finds its file), again when it has exited;  *)
(* other children are orphans.                                             *)
InitFork ==
  /\ ppc[INIT] = "initfork"
  /\ Fork(INIT, "initwait", "sh", NOCMD)
  /\ pid' = IF ppc'[INIT] = "panic" THEN 0 ELSE CHOOSE q \in Slots : ppc'[q] = "sh"
  /\ UNCHANGED <<line, eof>>

InitWait(q) ==
  /\ ppc[INIT] = "initwait" /\ Wait(INIT, q)
  /\ Reap(INIT, q, IF q \in {pid, INIT} THEN "initfork" ELSE "initwait")
  /\ UNCHANGED <<line, eof, pid, ofile, cmd, pfd>>

(* main() of the shell opens the console until its descriptor is 3, which  *)
(* it closes.                                                              *)
Main(p) ==
  /\ ppc[p] = "sh"
  /\ Goto(p, "main")
  /\ ofile' = [ofile EXCEPT ![p] =
       [fd \in Fds |-> IF fd < 3 /\ @[fd] = NOFILE THEN CONSOLE ELSE @[fd]]]
  /\ UNCHANGED <<line, eof, pid, parent, cmd, pfd>>

(* getcmd(): a line that a child parses and runs, or cd; or the end of the *)
(* input, and exit().                                                      *)
Getcmd(p) ==
  /\ ppc[p] = "main"
  /\ CASE eof -> Exit(p)
       [] ~eof /\ line # <<>> /\ line[1] = "cd" -> UNCHANGED <<ppc, parent, ofile, cmd, pfd>>
       [] OTHER -> Fork(p, "mainwait", "runcmd", ParseCmd(line))
  /\ eof' = TRUE
  /\ UNCHANGED <<line, pid>>

MainWait(p, q) ==
  /\ ppc[p] = "mainwait" /\ Wait(p, q)
  /\ Reap(p, q, "main")
  /\ UNCHANGED <<line, eof, pid, ofile, cmd, pfd>>

----------------------------------------------------------------------------
(* runcmd() *)

Runs(p, type) == ppc[p] = "runcmd" /\ cmd[p].type = type

(* A parser that panicked, no words, or an exec() that fails: exit(). *)
RunNothing(p) ==
  /\ Runs(p, "NONE") \/ Runs(p, "EXEC")
  /\ Exit(p)
  /\ UNCHANGED <<line, eof, pid>>

Exec(p) ==
  /\ Runs(p, "EXEC") /\ cmd[p].argc > 0
  /\ Goto(p, "command")
  /\ UNCHANGED <<line, eof, pid, parent, ofile, cmd, pfd>>

(* REDIR: the descriptor is closed, and open() takes it or fails. *)
RunRedir(p) ==
  /\ Runs(p, "REDIR")
  /\ \/ /\ ofile' = [ofile EXCEPT ![p] = Open(Close(@, cmd[p].fd), <<"file", cmd[p].file>>)]
        /\ cmd' = [cmd EXCEPT ![p] = @.cmd]
        /\ UNCHANGED <<ppc, parent, pfd>>
     \/ Exit(p)
  /\ UNCHANGED <<line, eof, pid>>

(* LIST *)
RunList(p) ==
  /\ Runs(p, "LIST")
  /\ Fork(p, "list", "runcmd", cmd[p].left)
  /\ UNCHANGED <<line, eof, pid>>

ListWait(p, q) ==
  /\ ppc[p] = "list" /\ Wait(p, q)
  /\ Reap(p, q, "runcmd")
  /\ cmd' = [cmd EXCEPT ![p] = @.right]
  /\ UNCHANGED <<line, eof, pid, ofile, pfd>>

(* PIPE: pipe(), which may fail, ... *)
RunPipe(p) ==
  /\ Runs(p, "PIPE")
  /\ \/ LET files == Open(ofile[p], <<"read", cmd[p].at>>)
        IN /\ pfd' = [pfd EXCEPT ![p] = <<LowestFd(ofile[p]), LowestFd(files)>>]
           /\ ofile' = [ofile EXCEPT ![p] = Open(files, <<"write", cmd[p].at>>)]
           /\ Goto(p, "fork1")
           /\ UNCHANGED <<parent, cmd>>
     \/ Exit(p)
  /\ UNCHANGED <<line, eof, pid>>

(* ... two forks, ... *)
PipeFork(p) ==
  /\ \/ ppc[p] = "fork1" /\ Fork(p, "fork2", "left", cmd[p].left)
     \/ ppc[p] = "fork2" /\ Fork(p, "close", "right", cmd[p].right)
  /\ UNCHANGED <<line, eof, pid>>

(* Variant: the write end is left open. *)
ClosedHalf(files, ends) == Close(files, ends[1])

(* close(p[0]); close(p[1]) *)
Closed(files, ends) == Close(Close(files, ends[1]), ends[2])

(* ... whose children put their end in the place of 1 or 0, ... *)
PipeChild(p) ==
  /\ ppc[p] \in {"left", "right"}
  /\ LET fd == IF ppc[p] = "left" THEN 1 ELSE 0
         dup == Open(Close(ofile[p], fd), ofile[p][pfd[p][fd + 1]])
     IN ofile' = [ofile EXCEPT ![p] = Closed(dup, pfd[p])]
  /\ pfd' = [pfd EXCEPT ![p] = <<0, 0>>]
  /\ Goto(p, "runcmd")
  /\ UNCHANGED <<line, eof, pid, parent, cmd>>

(* Variant: the parent keeps the write end. *)
PipeCloseRead(p) ==
  /\ ppc[p] = "close"
  /\ ofile' = [ofile EXCEPT ![p] = Close(@, pfd[p][1])]
  /\ pfd' = [pfd EXCEPT ![p] = <<0, 0>>]
  /\ Goto(p, "wait1")
  /\ UNCHANGED <<line, eof, pid, parent, cmd>>

(* ... the pipe closed here, and a wait() for each of them. *)
PipeClose(p) ==
  /\ ppc[p] = "close"
  /\ ofile' = [ofile EXCEPT ![p] = Closed(@, pfd[p])]
  /\ pfd' = [pfd EXCEPT ![p] = <<0, 0>>]
  /\ Goto(p, "wait1")
  /\ UNCHANGED <<line, eof, pid, parent, cmd>>

PipeWait(p, q) ==
  /\ ppc[p] \in {"wait1", "wait2"} /\ Wait(p, q)
  /\ Reap(p, q, IF ppc[p] = "wait1" THEN "wait2" ELSE "exit")
  /\ UNCHANGED <<line, eof, pid, ofile, cmd, pfd>>

(* BACK *)
RunBack(p) ==
  /\ Runs(p, "BACK")
  /\ Fork(p, "exit", "runcmd", cmd[p].cmd)
  /\ UNCHANGED <<line, eof, pid>>

RunExit(p) ==
  /\ ppc[p] = "exit"
  /\ Exit(p)
  /\ UNCHANGED <<line, eof, pid>>

(* A command ends when it has read its input: a pipe is at its end when    *)
(* nobody can write to it.                                                 *)
Command(p) ==
  /\ ppc[p] = "command"
  /\ \A q \in Slots, fd \in Fds :
       ofile[p][0][1] = "read" => ofile[q][fd] # <<"write", ofile[p][0][2]>>
  /\ Exit(p)
  /\ UNCHANGED <<line, eof, pid>>

ShellStep(p) ==
  \/ Main(p) \/ RunNothing(p) \/ Exec(p) \/ RunRedir(p) \/ RunList(p)
  \/ RunPipe(p) \/ PipeFork(p) \/ PipeChild(p) \/ PipeClose(p) \/ RunBack(p) \/ RunExit(p)
  \/ Command(p)
  \/ \E q \in Slots : MainWait(p, q) \/ ListWait(p, q) \/ PipeWait(p, q)
InitStep == InitOpen \/ InitFork \/ \E q \in Slots : InitWait(q)

----------------------------------------------------------------------------
(* What the text of a line says of its commands.  Tokens of a block are    *)
(* one deeper than the parentheses around them.                            *)
Depth(i) == Cardinality({j \in 1 .. i - 1 : line[j] = "("})
              - Cardinality({j \in 1 .. i : line[j] = ")"})
Before(i, toks) == {j \in 1 .. i - 1 : Depth(j) = Depth(i) /\ line[j] \in toks}
Beyond(i, toks) == {j \in i + 1 .. Len(line) : Depth(j) = Depth(i) /\ line[j] \in toks}
Block(i) == Max({0} \cup {j \in 1 .. i - 1 : Depth(j) < Depth(i)})

(* The command of token i runs from start to end, within its block. *)
Start(i) == Max({Block(i)} \cup Before(i, {"|", ";", "&"}))
End(i) == Min({Len(line) + 1} \cup {j \in i + 1 .. Len(line) : Depth(j) < Depth(i)}
                \cup Beyond(i, {"|", ";", "&"}))

(* Its input is its first redirection, or the pipe before it, or that of   *)
(* the block it is in; and its output likewise.                            *)
RECURSIVE Input(_), Output(_)
Input(i) ==
  LET redirs == {j \in Start(i) + 1 .. End(i) - 1 : Depth(j) = Depth(i) /\ line[j] = "<"}
  IN CASE redirs # {} -> <<"file", Min(redirs) + 1>>
       [] redirs = {} /\ Start(i) > 0 /\ line[Start(i)] = "|" -> <<"read", Start(i)>>
       [] OTHER -> IF Block(i) > 0 THEN Input(Block(i)) ELSE CONSOLE
Output(i) ==
  LET redirs == {j \in Start(i) + 1 .. End(i) - 1 : Depth(j) = Depth(i) /\ line[j] \in {">", "+"}}
  IN CASE redirs # {} -> <<"file", Min(redirs) + 1>>
       [] redirs = {} /\ End(i) <= Len(line) /\ line[End(i)] = "|" -> <<"write", End(i)>>
       [] OTHER -> IF Block(i) > 0 THEN Output(Block(i)) ELSE CONSOLE

(* A command gets the input and the output that the line says, standard    *)
(* error on the console and nothing else: no end of a pipe of another      *)
(* command, whatever the forks, dups and closes on the way to exec().      *)
IoWired ==
  \A p \in Slots : ppc[p] = "command" =>
    LET i == cmd[p].at
    IN ofile[p] = [fd \in Fds |-> CASE fd = 0 -> Input(i) [] fd = 1 -> Output(i)
                                    [] fd = 2 -> CONSOLE [] OTHER -> NOFILE]

(* The shell is at its prompt. *)
AtPrompt == \E p \in Slots : ppc[p] = "main"
============================================================================
