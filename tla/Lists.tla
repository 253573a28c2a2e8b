-------------------------------- MODULE Lists --------------------------------
(***************************************************************************)
(* What the modules share about lists.  KeepIn is the filter of an array:  *)
(* it is written with a recursive function, which the provers can expand,  *)
(* where SelectSeq takes an operator.                                      *)
(***************************************************************************)
EXTENDS Naturals, Sequences

Elements(s) == {s[i] : i \in DOMAIN s}

\* The subsequence of s of the elements that are in S.
KeepIn(s, S) ==
  LET kept[i \in 0..Len(s)] ==
        IF i = 0 THEN <<>>
        ELSE IF s[i] \in S THEN Append(kept[i - 1], s[i]) ELSE kept[i - 1]
  IN  kept[Len(s)]

=============================================================================
