-------------------------------- MODULE Pipe --------------------------------
(***************************************************************************)
(* A pipe (pipe.c) and the two open files that refer to it (file.c).       *)
(*                                                                         *)
(* pipewrite() and piperead() hold p->lock except in sleep(), so an action *)
(* is what one of them does between two points where it waits. wakeup()    *)
(* makes every sleeper on its channel runnable; module Proc shows that no  *)
(* sleep() misses a wakeup(). The counters nread and nwrite are unsigned   *)
(* and wrap at MODULUS (2^32).                                             *)
(***************************************************************************)
EXTENDS Integers, Sequences, FiniteSets, FiniteSetsExt

CONSTANTS Procs,
          creator,      \* the process that calls pipe()
          PIPESIZE,
          MODULUS,
          Bytes,
          Messages,     \* what write() is called with
          ReadSizes,    \* how much read() is called for
          Killable,     \* the processes kill() is called for
          NULL

ASSUME PipeAssumption ==
  /\ creator \in Procs /\ IsFiniteSet(Procs)
  /\ PIPESIZE \in Nat \ {0}
  /\ MODULUS \in Nat /\ MODULUS > PIPESIZE /\ MODULUS % PIPESIZE = 0
  /\ Messages \subseteq Seq(Bytes) \ {<<>>}
  /\ ReadSizes \subseteq Nat \ {0}
  /\ Killable \subseteq Procs
  /\ NULL \notin {"nread", "nwrite"}

VARIABLES
  data, nread, nwrite, readopen, writeopen,   \* struct pipe
  freed,        \* kfree((char*)p) was called
  ref,          \* ref of the struct file of each end
  ofile,        \* the ends each process has open
  pc,           \* the call each process is in
  buf,          \* what pipewrite() has still to write
  n,            \* what piperead() may return at most
  ret,          \* what the last read() returned
  chan,         \* what a sleeping process waits for
  killed,
  aborted       \* history: a killed process gave up in the middle of a write()

pipevars == <<data, nread, nwrite, readopen, writeopen, freed>>
vars == <<pipevars, ref, ofile, pc, buf, n, ret, chan, killed, aborted>>

Ends == {"r", "w"}

(* Each variable keeps its type: no count of open files drops below zero   *)
(* (fileclose() panics), and read() returns no more than was asked for.    *)
TypeOK ==
  /\ data \in [0 .. PIPESIZE - 1 -> Bytes \cup {NULL}]
  /\ nread \in 0 .. MODULUS - 1 /\ nwrite \in 0 .. MODULUS - 1
  /\ readopen \in BOOLEAN /\ writeopen \in BOOLEAN /\ freed \in BOOLEAN
  /\ ref \in [Ends -> 0 .. Cardinality(Procs)]
  /\ ofile \in [Procs -> SUBSET Ends]
  /\ pc \in [Procs -> {"user", "write", "read", "close_r", "close_w"}]
  /\ buf \in [Procs -> Seq(Bytes)]
  /\ n \in [Procs -> ReadSizes \cup {0}]
  /\ ret \in Seq(Bytes)
  /\ chan \in [Procs -> {NULL, "nread", "nwrite"}]
  /\ killed \in [Procs -> BOOLEAN]
  /\ aborted \in BOOLEAN

(* pipealloc(): both ends belong to the process that called pipe(). *)
Init ==
  /\ data = [j \in 0 .. PIPESIZE - 1 |-> NULL]
  /\ nread = 0 /\ nwrite = 0
  /\ readopen = TRUE /\ writeopen = TRUE /\ freed = FALSE
  /\ ref = [e \in Ends |-> 1]
  /\ ofile = [p \in Procs |-> IF p = creator THEN Ends ELSE {}]
  /\ pc = [p \in Procs |-> "user"]
  /\ buf = [p \in Procs |-> <<>>]
  /\ n = [p \in Procs |-> 0]
  /\ ret = <<>>
  /\ chan = [p \in Procs |-> NULL]
  /\ killed = [p \in Procs |-> FALSE]
  /\ aborted = FALSE

(* The bytes in the pipe. *)
Count == (nwrite - nread + MODULUS) % MODULUS

Queue == [k \in 1 .. Count |-> data[(nread + k - 1) % PIPESIZE]]

Wakeup(ch) == [p \in Procs |-> IF chan[p] = ch THEN NULL ELSE chan[p]]

----------------------------------------------------------------------------
(* file.c *)

(* Variant: fork() copies the descriptors and forgets to count them. *)
ForkUncounted(p, q) ==
  /\ pc[p] = "user" /\ ~killed[p] /\ ofile[p] # {}
  /\ ofile[q] = {} /\ pc[q] = "user"
  /\ ofile' = [ofile EXCEPT ![q] = ofile[p]]
  /\ killed' = [killed EXCEPT ![q] = FALSE]
  /\ UNCHANGED <<pipevars, ref, pc, buf, n, ret, chan, aborted>>

(* fork(): the child q gets the open files of p through filedup(). *)
Fork(p, q) ==
  /\ pc[p] = "user" /\ ~killed[p] /\ ofile[p] # {}
  /\ ofile[q] = {} /\ pc[q] = "user"
  /\ ofile' = [ofile EXCEPT ![q] = ofile[p]]
  /\ ref' = [e \in Ends |-> IF e \in ofile[p] THEN ref[e] + 1 ELSE ref[e]]
  /\ killed' = [killed EXCEPT ![q] = FALSE]
  /\ UNCHANGED <<pipevars, pc, buf, n, ret, chan, aborted>>

(* fileclose(), by close() or exit(): the last one goes on to pipeclose(). *)
Fileclose(p, e) ==
  /\ pc[p] = "user" /\ e \in ofile[p]
  /\ ofile' = [ofile EXCEPT ![p] = @ \ {e}]
  /\ ref' = [ref EXCEPT ![e] = @ - 1]
  /\ pc' = [pc EXCEPT ![p] = IF ref[e] > 1 THEN "user"
                             ELSE IF e = "r" THEN "close_r" ELSE "close_w"]
  /\ UNCHANGED <<pipevars, buf, n, ret, chan, killed, aborted>>

(* Variant: pipeclose() frees the pipe with its first end. *)
PipecloseFirst(p) ==
  /\ pc[p] \in {"close_r", "close_w"}
  /\ readopen' = (readopen /\ pc[p] # "close_r")
  /\ writeopen' = (writeopen /\ pc[p] # "close_w")
  /\ chan' = Wakeup(IF pc[p] = "close_w" THEN "nread" ELSE "nwrite")
  /\ freed' = TRUE
  /\ pc' = [pc EXCEPT ![p] = "user"]
  /\ UNCHANGED <<data, nread, nwrite, ref, ofile, buf, n, ret, killed, aborted>>

Pipeclose(p) ==
  /\ pc[p] \in {"close_r", "close_w"}
  /\ readopen' = (readopen /\ pc[p] # "close_r")
  /\ writeopen' = (writeopen /\ pc[p] # "close_w")
  /\ chan' = Wakeup(IF pc[p] = "close_w" THEN "nread" ELSE "nwrite")
  /\ freed' = (~readopen' /\ ~writeopen')
  /\ pc' = [pc EXCEPT ![p] = "user"]
  /\ UNCHANGED <<data, nread, nwrite, ref, ofile, buf, n, ret, killed, aborted>>

(* kill(): a sleeper becomes runnable. *)
Kill(p) ==
  /\ p \in Killable /\ ofile[p] # {} /\ ~killed[p]
  /\ killed' = [killed EXCEPT ![p] = TRUE]
  /\ chan' = [chan EXCEPT ![p] = NULL]
  /\ UNCHANGED <<pipevars, ref, ofile, pc, buf, n, ret, aborted>>

----------------------------------------------------------------------------
(* write() and filewrite() reach pipewrite(). *)
Write(p, s) ==
  /\ pc[p] = "user" /\ ~killed[p] /\ "w" \in ofile[p]
  /\ pc' = [pc EXCEPT ![p] = "write"]
  /\ buf' = [buf EXCEPT ![p] = s]
  /\ UNCHANGED <<pipevars, ref, ofile, n, ret, chan, killed, aborted>>

(* pipewrite() fills the pipe as far as it can; with bytes left over it    *)
(* gives up (no reader, or killed) or wakes the readers and sleeps.        *)
Pipewrite(p) ==
  LET k == Min({Len(buf[p]), PIPESIZE - Count})
      full == k < Len(buf[p])
      quits == full /\ (~readopen \/ killed[p])
  IN
  /\ pc[p] = "write" /\ chan[p] = NULL
  /\ data' = [j \in 0 .. PIPESIZE - 1 |->
       LET at == {i \in 1 .. k : (nwrite + i - 1) % PIPESIZE = j} IN
       IF at = {} THEN data[j] ELSE buf[p][Max(at)]]
  /\ nwrite' = (nwrite + k) % MODULUS
  /\ chan' = IF quits THEN chan
             ELSE [Wakeup("nread") EXCEPT ![p] = IF full THEN "nwrite" ELSE NULL]
  /\ buf' = [buf EXCEPT ![p] = IF full /\ ~quits THEN SubSeq(@, k + 1, Len(@)) ELSE <<>>]
  /\ pc' = [pc EXCEPT ![p] = IF full /\ ~quits THEN "write" ELSE "user"]
  /\ aborted' = (aborted \/ (quits /\ readopen))
  /\ UNCHANGED <<nread, readopen, writeopen, freed, ref, ofile, n, ret, killed>>

----------------------------------------------------------------------------
(* read() and fileread() reach piperead(). *)
Read(p, k) ==
  /\ pc[p] = "user" /\ ~killed[p] /\ "r" \in ofile[p]
  /\ pc' = [pc EXCEPT ![p] = "read"]
  /\ n' = [n EXCEPT ![p] = k]
  /\ UNCHANGED <<pipevars, ref, ofile, buf, ret, chan, killed, aborted>>

(* piperead() waits for bytes: it gives up when killed, or sleeps. *)
PipereadEmpty(p) ==
  /\ pc[p] = "read" /\ chan[p] = NULL /\ nread = nwrite /\ writeopen
  /\ IF killed[p]
       THEN /\ pc' = [pc EXCEPT ![p] = "user"]
            /\ n' = [n EXCEPT ![p] = 0]
            /\ UNCHANGED chan
       ELSE /\ chan' = [chan EXCEPT ![p] = "nread"]
            /\ UNCHANGED <<pc, n>>
  /\ UNCHANGED <<pipevars, ref, ofile, buf, ret, killed, aborted>>

(* Variant: piperead() skips the byte it counts past. *)
PipereadAhead(p) ==
  LET k == Min({n[p], Count}) IN
  /\ pc[p] = "read" /\ chan[p] = NULL /\ (nread # nwrite \/ ~writeopen)
  /\ ret' = [i \in 1 .. k |-> data[(nread + i) % PIPESIZE]]
  /\ nread' = (nread + k) % MODULUS
  /\ chan' = Wakeup("nwrite")
  /\ n' = [n EXCEPT ![p] = 0]
  /\ pc' = [pc EXCEPT ![p] = "user"]
  /\ UNCHANGED <<data, nwrite, readopen, writeopen, freed, ref, ofile, buf, killed, aborted>>

(* Variant: piperead() does not wake the writers. *)
PipereadSilent(p) ==
  LET k == Min({n[p], Count}) IN
  /\ pc[p] = "read" /\ chan[p] = NULL /\ (nread # nwrite \/ ~writeopen)
  /\ ret' = [i \in 1 .. k |-> data[(nread + i - 1) % PIPESIZE]]
  /\ nread' = (nread + k) % MODULUS
  /\ n' = [n EXCEPT ![p] = 0]
  /\ pc' = [pc EXCEPT ![p] = "user"]
  /\ UNCHANGED <<data, nwrite, readopen, writeopen, freed, ref, ofile, buf, chan, killed,
                 aborted>>

(* piperead() takes what there is, at most n, and wakes the writers. *)
Piperead(p) ==
  LET k == Min({n[p], Count}) IN
  /\ pc[p] = "read" /\ chan[p] = NULL /\ (nread # nwrite \/ ~writeopen)
  /\ ret' = [i \in 1 .. k |-> data[(nread + i - 1) % PIPESIZE]]
  /\ nread' = (nread + k) % MODULUS
  /\ chan' = Wakeup("nwrite")
  /\ n' = [n EXCEPT ![p] = 0]
  /\ pc' = [pc EXCEPT ![p] = "user"]
  /\ UNCHANGED <<data, nwrite, readopen, writeopen, freed, ref, ofile, buf, killed, aborted>>

----------------------------------------------------------------------------
Next ==
  \E p \in Procs :
    \/ \E q \in Procs : Fork(p, q)
    \/ \E e \in Ends : Fileclose(p, e)
    \/ Pipeclose(p)
    \/ Kill(p)
    \/ (\E s \in Messages : Write(p, s)) \/ Pipewrite(p)
    \/ (\E k \in ReadSizes : Read(p, k)) \/ PipereadEmpty(p) \/ Piperead(p)

Spec == Init /\ [][Next]_vars

----------------------------------------------------------------------------
(* The reference counts of the two files are exact, so pipeclose() is      *)
(* called once for each end, by the process that closes it last.           *)
RefsExact ==
  \A e \in Ends : /\ ref[e] = Cardinality({p \in Procs : e \in ofile[p]})
                  /\ ref[e] > 0 => IF e = "r" THEN readopen ELSE writeopen

(* The page of the pipe is not freed while somebody reads, writes, closes  *)
(* or sleeps on it.                                                        *)
FreedUnused == freed => \A p \in Procs : pc[p] = "user" /\ chan[p] = NULL /\ ofile[p] = {}

(* A writer sleeps only while the pipe is full and there is a reader:      *)
(* piperead() and pipeclose() wake every writer, whoever else was woken.   *)
(* A reader sleeps only while the pipe is empty and there is a writer,     *)
(* unless a killed writer has given up in the middle.                      *)
SleepersHaveReason ==
  \A p \in Procs :
    /\ chan[p] = "nwrite" => Count = PIPESIZE /\ readopen
    /\ chan[p] = "nread" => writeopen /\ (nread = nwrite \/ aborted)

(* pipe.c:106 marks the loop in which a reader sleeps "DOC: pipe-empty": a *)
(* reader is asleep only while the pipe is empty.                          *)
ReadersSleepOnEmpty ==
  \A p \in Procs : chan[p] = "nread" => nread = nwrite

Fifo == INSTANCE Fifo WITH Size <- PIPESIZE, queue <- Queue, open <- writeopen

(* The pipe is a bounded queue: across wrapping counters and partial reads *)
(* and writes, no byte is lost, duplicated or reordered.                   *)
FifoSpec == Fifo!Spec
============================================================================
