----------------------------- MODULE MCRecovery -----------------------------
(***************************************************************************)
(* An instance of Recovery for TLC: one command, two clients and sessions, *)
(* one response; one token, and two answers to the page at a time.         *)
(***************************************************************************)
EXTENDS Recovery

CONSTANTS c1, k1, k2, s1, s2, n1, m1
=============================================================================
