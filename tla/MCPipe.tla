------------------------------- MODULE MCPipe -------------------------------
(* Pipe for TLC: the processes other than the creator are interchangeable, *)
(* and the bytes outside the queue, like those already returned, are never *)
(* read again.                                                             *)
EXTENDS Pipe, TLC

CONSTANTS a, b, c

OneMessage == {<<a, b, c>>}

Symm == Permutations(Procs \ {creator})

View == <<Queue, nread, nwrite, readopen, writeopen, freed, ref, ofile, pc, buf, n, chan,
          killed, aborted>>
============================================================================
