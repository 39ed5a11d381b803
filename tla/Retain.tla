------------------------------- MODULE Retain -------------------------------
(***************************************************************************)
(* Vec::retain and Iterator::filter (external), defined here rather than   *)
(* by SelectSeq, of which the provers do not know the definition.          *)
(***************************************************************************)
EXTENDS Integers, Sequences

\* The entries of s that are in kept, in their order.
retained(s, kept) ==
  LET of_first[n \in 0..Len(s)] ==
        IF n = 0 THEN <<>>
        ELSE IF s[n] \in kept THEN Append(of_first[n - 1], s[n]) ELSE of_first[n - 1]
  IN of_first[Len(s)]
=============================================================================
