--------------------------- MODULE SequenceFilter ---------------------------
(***************************************************************************)
(* SelectSeq with a set for the test, as a recursive function, so that its *)
(* properties can be proved.                                               *)
(***************************************************************************)
EXTENDS Integers, Sequences

\* The elements of seq that are in keep, in their order.
Filtered(seq, keep) ==
  LET upto[n \in 0..Len(seq)] ==
        IF n = 0 THEN <<>>
        ELSE IF seq[n] \in keep THEN Append(upto[n - 1], seq[n])
        ELSE upto[n - 1]
  IN  upto[Len(seq)]
=============================================================================
