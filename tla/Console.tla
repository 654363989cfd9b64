------------------------------ MODULE Console ------------------------------
(***************************************************************************)
(* console.c: the input buffer that consoleintr() fills and edits and      *)
(* consoleread() empties, and the cursor that both the echo and            *)
(* consolewrite() move.  What runs under cons.lock is a sequence of steps  *)
(* of its holder.                                                          *)
(***************************************************************************)
EXTENDS Integers, Sequences

CONSTANTS
  Readers,    \* processes that read the console
  INPUT_BUF,  \* characters of input.buf
  UINT,       \* the indices are modulo UINT: 2^32
  Chars,      \* what is typed and read: "\n", "^D" and others
  MaxRead,    \* bound: the largest n of a consoleread()
  ROWS,       \* lines of the screen that are used: 24
  COLS,       \* characters of a line: 80
  NONE        \* nobody; no character

VARIABLES
  buf,        \* input.buf; NONE where it is not in use, which is never read
  r, w, e,    \* input.r, input.w and input.e
  conslock,   \* the holder of cons.lock
  want,       \* the characters a consoleread() has yet to read
  got,        \* whether it has read one: n < target
  rpc,        \* where a reader is: "user", "loop", "asleep" or "woken"
  rkilled,    \* p->killed
  pos         \* the cursor: col + COLS * row

consoleVars == <<buf, r, w, e, conslock, want, got, rpc, rkilled, pos>>

ConsoleInit ==
  /\ buf = [i \in 0 .. INPUT_BUF - 1 |-> NONE]
  /\ r \in {0, UINT - INPUT_BUF} /\ w = r /\ e = r
  /\ conslock = NONE
  /\ want = [p \in Readers |-> 0]
  /\ got = [p \in Readers |-> FALSE]
  /\ rpc = [p \in Readers |-> "user"]
  /\ rkilled = [p \in Readers |-> FALSE]
  /\ pos = 0

Plus(i, n) == (i + n) % UINT
Minus(i, n) == (i - n) % UINT

(* cgaputc(): a newline, a backspace or a character, then the screen       *)
(* scrolls when the cursor leaves it.                                      *)
Cgaputc(at, c) ==
  LET next == CASE c = "\n" -> at + COLS - (at % COLS)
                [] c = "BACKSPACE" -> IF at > 0 THEN at - 1 ELSE at
                [] OTHER -> at + 1
  IN IF next \div COLS >= ROWS THEN next - COLS ELSE next

----------------------------------------------------------------------------
(* consoleintr(), one character. *)

(* Variant: the buffer is never full. *)
TypeUnbounded(c) ==
  /\ conslock = NONE
  /\ buf' = [buf EXCEPT ![e % INPUT_BUF] = c]
  /\ e' = Plus(e, 1)
  /\ pos' = Cgaputc(pos, c)
  /\ IF c \in {"\n", "^D"} \/ e' = Plus(r, INPUT_BUF)
       THEN /\ w' = e'
            /\ rpc' = [p \in Readers |-> IF rpc[p] = "asleep" THEN "woken" ELSE rpc[p]]
       ELSE UNCHANGED <<w, rpc>>
  /\ UNCHANGED <<r, conslock, want, got, rkilled>>

(* Variant: nobody is woken. *)
TypeQuietly(c) ==
  /\ conslock = NONE
  /\ Minus(e, r) < INPUT_BUF
  /\ buf' = [buf EXCEPT ![e % INPUT_BUF] = c]
  /\ e' = Plus(e, 1)
  /\ pos' = Cgaputc(pos, c)
  /\ w' = IF c \in {"\n", "^D"} \/ e' = Plus(r, INPUT_BUF) THEN e' ELSE w
  /\ UNCHANGED <<r, conslock, want, got, rpc, rkilled>>

(* A character for the line; the end of a line wakes the readers. *)
Type(c) ==
  /\ conslock = NONE
  /\ Minus(e, r) < INPUT_BUF
  /\ buf' = [buf EXCEPT ![e % INPUT_BUF] = c]
  /\ e' = Plus(e, 1)
  /\ pos' = Cgaputc(pos, c)
  /\ IF c \in {"\n", "^D"} \/ e' = Plus(r, INPUT_BUF)
       THEN /\ w' = e'
            /\ rpc' = [p \in Readers |-> IF rpc[p] = "asleep" THEN "woken" ELSE rpc[p]]
       ELSE UNCHANGED <<w, rpc>>
  /\ UNCHANGED <<r, conslock, want, got, rkilled>>

(* Backspace *)
Backspace ==
  /\ conslock = NONE /\ e # w
  /\ e' = Minus(e, 1)
  /\ buf' = [buf EXCEPT ![e' % INPUT_BUF] = NONE]
  /\ pos' = Cgaputc(pos, "BACKSPACE")
  /\ UNCHANGED <<r, w, conslock, want, got, rpc, rkilled>>

(* ^U: backspaces to the start of the line. *)
KillLine ==
  /\ conslock = NONE /\ e # w
  /\ LET erased == {n \in 1 .. Minus(e, w) :
                      \A m \in 1 .. n : buf[Minus(e, m) % INPUT_BUF] # "\n"}
         back[n \in 0 .. INPUT_BUF] == IF n = 0 THEN pos ELSE Cgaputc(back[n - 1], "BACKSPACE")
     IN \E n \in erased \cup {0} :
          /\ \A m \in erased : m <= n
          /\ e' = Minus(e, n)
          /\ buf' = [i \in DOMAIN buf |->
                       IF \E m \in 1 .. n : i = Minus(e, m) % INPUT_BUF THEN NONE ELSE buf[i]]
          /\ pos' = back[n]
  /\ UNCHANGED <<r, w, conslock, want, got, rpc, rkilled>>

----------------------------------------------------------------------------
(* consoleread(n) takes cons.lock. *)
ReadStart(p, n) ==
  /\ rpc[p] = "user" /\ ~rkilled[p] /\ conslock = NONE
  /\ conslock' = p
  /\ want' = [want EXCEPT ![p] = n]
  /\ got' = [got EXCEPT ![p] = FALSE]
  /\ rpc' = [rpc EXCEPT ![p] = "loop"]
  /\ UNCHANGED <<buf, r, w, e, rkilled, pos>>

(* It returns, and releases the lock. *)
Return(p) ==
  /\ conslock' = NONE
  /\ rpc' = [rpc EXCEPT ![p] = "user"]
  /\ want' = [want EXCEPT ![p] = 0]
  /\ got' = [got EXCEPT ![p] = FALSE]

(* Nothing to read: -1 if p is killed, else sleep(&input.r, &cons.lock). *)
ReadEmpty(p) ==
  /\ conslock = p /\ r = w
  /\ IF rkilled[p] THEN Return(p)
     ELSE /\ conslock' = NONE
          /\ rpc' = [rpc EXCEPT ![p] = "asleep"]
          /\ UNCHANGED <<want, got>>
  /\ UNCHANGED <<buf, r, w, e, rkilled, pos>>

(* sleep() returns with the lock. *)
ReadWake(p) ==
  /\ rpc[p] = "woken" /\ conslock = NONE
  /\ conslock' = p
  /\ rpc' = [rpc EXCEPT ![p] = "loop"]
  /\ UNCHANGED <<buf, r, w, e, want, got, rkilled, pos>>

(* One character; ^D ends the read, and is left for the next read if this  *)
(* one has something to return.                                            *)
ReadChar(p) ==
  /\ conslock = p /\ r # w
  /\ LET c == buf[r % INPUT_BUF] IN
     /\ IF c = "^D" /\ got[p] THEN UNCHANGED <<r, buf>>
        ELSE r' = Plus(r, 1) /\ buf' = [buf EXCEPT ![r % INPUT_BUF] = NONE]
     /\ IF c \in {"^D", "\n"} \/ want[p] = 1 THEN Return(p)
        ELSE /\ want' = [want EXCEPT ![p] = @ - 1]
             /\ got' = [got EXCEPT ![p] = TRUE]
             /\ UNCHANGED <<conslock, rpc>>
  /\ UNCHANGED <<w, e, rkilled, pos>>

(* consolewrite() of one character. *)
Consolewrite(c) ==
  /\ conslock = NONE
  /\ pos' = Cgaputc(pos, c)
  /\ UNCHANGED <<buf, r, w, e, conslock, want, got, rpc, rkilled>>

(* kill(): a sleeping process wakes up. *)
KillReader(p) ==
  /\ rpc[p] # "user" /\ ~rkilled[p]
  /\ rkilled' = [rkilled EXCEPT ![p] = TRUE]
  /\ rpc' = [rpc EXCEPT ![p] = IF @ = "asleep" THEN "woken" ELSE @]
  /\ UNCHANGED <<buf, r, w, e, conslock, want, got, pos>>

ConsoleNext ==
  \/ \E c \in Chars : Type(c) \/ Consolewrite(c)
  \/ Backspace \/ KillLine
  \/ \E p \in Readers : \/ \E n \in 1 .. MaxRead : ReadStart(p, n)
                        \/ ReadEmpty(p) \/ ReadWake(p) \/ ReadChar(p) \/ KillReader(p)

----------------------------------------------------------------------------
(* What is between two indices of the buffer. *)
Between(i, j) == [k \in 1 .. Minus(j, i) |-> buf[Plus(i, k - 1) % INPUT_BUF]]

Typed == INSTANCE LineDiscipline WITH
           Chars <- Chars, Ends <- {"\n", "^D"}, Size <- INPUT_BUF,
           ready <- Between(r, w), line <- Between(w, e)

(* The buffer is a line editor in front of a queue: consoleintr() changes  *)
(* only the line being typed, what readers get is what was typed, in       *)
(* order, and neither a full buffer nor wrapping indices lose or repeat a  *)
(* character.                                                              *)
LinesInOrder == Typed!Spec

(* A reader sleeps in consoleread() only while no line is ready, and is    *)
(* not killed: whoever ends a line, or puts ^D back, leaves no reader      *)
(* asleep over it.                                                         *)
ReadersAwake ==
  \A p \in Readers : rpc[p] = "asleep" => r = w /\ ~rkilled[p]
============================================================================
