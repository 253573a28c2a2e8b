----------------------------- MODULE TaskStatus ------------------------------
(***************************************************************************)
(* The life of a delegated task as src/src/protocol.ts defines it: the     *)
(* statuses, the transitions an ack may cause, and the status of a task    *)
(* with several assignees.                                                 *)
(***************************************************************************)
EXTENDS Naturals, Sequences

Open     == {"pending", "accepted", "working", "input-required"}
Terminal == {"rejected", "done", "failed", "timeout", "canceled"}
Statuses == Open \cup Terminal

\* What bridge_ack may send; `canceled` has a tool of its own.
ClientAcks ==
  {"accepted", "working", "input-required", "rejected", "done", "failed"}
Acks == ClientAcks \cup {"canceled"}

\* nextTaskStatus of a row that is still open; for a terminal one it is null,
\* and its callers leave the row alone.  Progress is never rewound.
NextTaskStatus(current, ack) ==
  IF ack = "accepted" /\ current \in {"working", "input-required"}
  THEN current
  ELSE ack

-----------------------------------------------------------------------------
(* Rows.  A task has one row per assignee, in the order of its audience.   *)

StatusesOf(rows) == {rows[i].status : i \in DOMAIN rows}

OpenRows(rows) == {i \in DOMAIN rows : rows[i].status \in Open}

\* The first status of an order of precedence that occurs in S.
Foremost(S, order) ==
  order[CHOOSE i \in DOMAIN order :
          order[i] \in S /\ \A j \in 1..(i - 1) : order[j] \notin S]

\* aggregateTaskStatus: an unanswered question first, then the furthest row
\* still going; once all are over, done only if every one of them is.
AggregateTaskStatus(rows) ==
  LET some == StatusesOf(rows)
  IN  IF some = {} THEN "pending"
      ELSE IF some \cap Open # {}
      THEN Foremost(some, <<"input-required", "working", "accepted", "pending">>)
      ELSE IF some = {"done"} THEN "done"
      ELSE Foremost(some, <<"failed", "timeout", "canceled", "rejected">>)

=============================================================================
