------------------------------- MODULE InOrder -------------------------------
(* What becomes of a value when the members of a sequence are taken one      *)
(* after the other.  FoldLeft of the community modules has the same result;  *)
(* here it is a recursive function, about which something can be proved for  *)
(* sequences of every length (SequenceFacts).                                *)
EXTENDS Integers, Sequences

CONSTANT After(_, _)   \* the value after one member was taken

Outcome(base, seq) ==
  LET after[n \in 0 .. Len(seq)] == IF n = 0 THEN base ELSE After(after[n - 1], seq[n])
  IN  after[Len(seq)]
=============================================================================
