-------------------------------- MODULE Fifo --------------------------------
(***************************************************************************)
(* What a pipe promises: a queue of at most Size bytes. Bytes come out in  *)
(* the order they went in, each to one reader, and a reader gets nothing   *)
(* (end of file) only when the queue is empty and no writer is left.       *)
(***************************************************************************)
EXTENDS Naturals, Sequences

CONSTANTS Bytes, Size

VARIABLES queue,    \* the bytes on their way
          ret,      \* what the last read() returned
          open      \* somebody can still write

vars == <<queue, ret, open>>

Init ==
  /\ queue = <<>>
  /\ ret = <<>>
  /\ open = TRUE

Strings == UNION {[1 .. n -> Bytes] : n \in 0 .. Size}

Put ==
  /\ open
  /\ \E s \in Strings : Len(queue) + Len(s) <= Size /\ queue' = queue \o s
  /\ UNCHANGED <<ret, open>>

Get ==
  /\ \/ \E k \in 1 .. Len(queue) :
          /\ ret' = SubSeq(queue, 1, k)
          /\ queue' = SubSeq(queue, k + 1, Len(queue))
     \/ /\ queue = <<>> /\ ~open
        /\ ret' = <<>>
        /\ UNCHANGED queue
  /\ UNCHANGED open

Close ==
  /\ open' = FALSE
  /\ UNCHANGED <<queue, ret>>

Next == Put \/ Get \/ Close

Spec == Init /\ [][Next]_vars
============================================================================
