------------------------------- MODULE Filter -------------------------------
(***************************************************************************)
(* The loops that keep some elements of a slice, in their order.            *)
(***************************************************************************)
EXTENDS Naturals, Sequences

\* What is kept of seq, given the positions to keep: upTo[n] after n elements.
Filtered(seq, keep) ==
  LET upTo[n \in 0..Len(seq)] ==
        IF n = 0 THEN << >>
        ELSE IF n \in keep THEN Append(upTo[n - 1], seq[n]) ELSE upTo[n - 1]
  IN  upTo[Len(seq)]
=============================================================================
