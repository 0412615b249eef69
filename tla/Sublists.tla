------------------------------ MODULE Sublists -------------------------------
(***************************************************************************)
(* The part of a list that is in a set.  It is SelectSeq, written as a     *)
(* recursive function so that SublistProofs can look into it.              *)
(***************************************************************************)
EXTENDS Naturals, Sequences

\* The elements of s that are in T, in their order.
Only(s, T) ==
    LET picked[i \in 0 .. Len(s)] ==
          IF i = 0 THEN <<>>
          ELSE IF s[i] \in T THEN Append(picked[i - 1], s[i]) ELSE picked[i - 1]
    IN picked[Len(s)]
=============================================================================
