----------------------------- MODULE MCSessions ------------------------------
(***************************************************************************)
(* Instances of Sessions for TLC.                                          *)
(***************************************************************************)
EXTENDS Sessions, TLC

CONSTANTS s1, s2, s3, a, g, x

\* Clients of one name, which is also the name of a group.
MCClientName == [c \in Clients |-> g]
\* The third client has a token.
MCToken == [c \in Clients |-> IF c = s3 THEN a ELSE None]

\* The two without a token are alike.
MCAlike == Permutations({s1, s2})

=============================================================================
