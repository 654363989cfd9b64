-------------------------- MODULE LineDiscipline ---------------------------
(***************************************************************************)
(* What the console promises: typed characters make up a line that can be  *)
(* edited until it ends, and ended lines are read in order, once.          *)
(***************************************************************************)
EXTENDS Integers, Sequences, SequencesExt

CONSTANTS Chars, Ends, Size

VARIABLES ready, line

Init == ready = <<>> /\ line = <<>>

(* A character is dropped when there is no room for it; a line ends with a *)
(* character of Ends, or when there is room for no other.                  *)
Type(c) ==
  LET l == Append(line, c)
  IN /\ Len(ready \o line) < Size
     /\ IF c \in Ends \/ Len(ready \o l) = Size
          THEN ready' = ready \o l /\ line' = <<>>
          ELSE line' = l /\ UNCHANGED ready

Erase == line # <<>> /\ line' = Front(line) /\ UNCHANGED ready
Kill == line' = <<>> /\ UNCHANGED ready

Read == ready # <<>> /\ ready' = Tail(ready) /\ UNCHANGED line

Next == (\E c \in Chars : Type(c)) \/ Erase \/ Kill \/ Read

Spec == Init /\ [][Next]_<<ready, line>>
============================================================================
