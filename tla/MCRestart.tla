----------------------------- MODULE MCRestart ------------------------------
(***************************************************************************)
(* Instances of Restart for TLC.                                           *)
(***************************************************************************)
EXTENDS Restart

CONSTANTS a, g

=============================================================================
