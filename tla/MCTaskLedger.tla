---------------------------- MODULE MCTaskLedger -----------------------------
(***************************************************************************)
(* Instances of TaskLedger for TLC.                                        *)
(***************************************************************************)
EXTENDS TaskLedger

CONSTANTS a, b, c, g

\* Members that leave stay in the group.
MCMembers == [x \in Groups |-> Peers]

=============================================================================
