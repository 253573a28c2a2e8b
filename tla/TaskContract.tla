---------------------------- MODULE TaskContract -----------------------------
(***************************************************************************)
(* What the ledger promises about a delegated task, however many peers it  *)
(* goes to: it is open until it is over, it is over for good, and what an  *)
(* assignee has settled is never rewritten.  The hub forgets a task only   *)
(* after it is over.                                                       *)
(***************************************************************************)
CONSTANT TaskIds

VARIABLES
  phase,    \* of each task: "unsent", "open", "over" or "forgotten"
  settled   \* of each task: the pairs of a row and its terminal status

vars == <<phase, settled>>

Init ==
  /\ phase = [t \in TaskIds |-> "unsent"]
  /\ settled = [t \in TaskIds |-> {}]

\* One call seen from task t.
Step(t) ==
  \/ phase'[t] = phase[t] /\ settled'[t] = settled[t]
  \/ phase[t] = "unsent" /\ phase'[t] = "open" /\ settled'[t] = {}
  \/ /\ phase[t] = "open"
     /\ phase'[t] \in {"open", "over"}
     /\ settled[t] \subseteq settled'[t]
  \/ phase[t] = "over" /\ phase'[t] = "forgotten" /\ settled'[t] = {}

Next == \A t \in TaskIds : Step(t)

Spec == Init /\ [][Next]_vars

=============================================================================
