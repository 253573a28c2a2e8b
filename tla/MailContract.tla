---------------------------- MODULE MailContract -----------------------------
(***************************************************************************)
(* What the hub promises about mail, whatever its mailboxes look like: a   *)
(* copy offered to a peer is pending until it is settled, once and for     *)
(* all, in one of three ways.  Its owner has read it, or it was dropped    *)
(* and counted, or it went with the whole mailbox of a peer that left.     *)
(***************************************************************************)
EXTENDS Naturals

CONSTANT Peers

VARIABLES
  pending,    \* the ids of the copies a peer may still be given
  read,       \* given to the peer for good
  dropped,    \* dropped, with a count the peer can ask for
  discarded   \* lost with the mailbox

vars == <<pending, read, dropped, discarded>>

Settled(p) == read[p] \cup dropped[p] \cup discarded[p]

Nothing == [p \in Peers |-> {}]

Init ==
  /\ pending = Nothing
  /\ read = Nothing
  /\ dropped = Nothing
  /\ discarded = Nothing

\* One call seen from the mailbox of p.
Step(p) ==
  /\ read[p] \subseteq read'[p]
  /\ dropped[p] \subseteq dropped'[p]
  /\ discarded[p] \subseteq discarded'[p]
  \* No copy vanishes, and none comes back.
  /\ pending[p] \subseteq pending'[p] \cup Settled(p)'
  /\ pending'[p] \cap Settled(p)' = {}
  \* A copy is settled in one way only.
  /\ read'[p] \cap dropped'[p] = {}
  /\ discarded'[p] \cap (read'[p] \cup dropped'[p]) = {}
  \* Mail is discarded with all of its mailbox, never a part of it.
  /\ discarded'[p] # discarded[p] => pending'[p] = {}

Next == \A p \in Peers : Step(p)

Spec == Init /\ [][Next]_vars

=============================================================================
