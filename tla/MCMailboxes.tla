----------------------------- MODULE MCMailboxes -----------------------------
(***************************************************************************)
(* Instances of Mailboxes for TLC.  Mailboxes of different peers touch     *)
(* each other only through sends, so one mailbox is exercised in full, the *)
(* one of peer a, and another peer b, always registered, sends the mail.   *)
(***************************************************************************)
EXTENDS Mailboxes

CONSTANTS a, b, g, t

MCPeers == {a, b}
MCMembers == [x \in Groups |-> {a, b}]

Chat(prio, thread, mortal) == [prio |-> prio, thread |-> thread, mortal |-> mortal]
From(from, thread) == [from |-> from, thread |-> thread]

\* Plain chat, and more urgent chat with a deadline.
MCShapes == {Chat(0, None, FALSE), Chat(1, None, TRUE)}
\* The same in and out of a thread.
MCThreadShapes == {Chat(0, t, TRUE), Chat(1, None, FALSE)}

MCOneShape == {Chat(0, None, TRUE)}

\* A wait for everything.
MCOneFilter == {From(None, None)}
\* A wait for everything, for the sender, and for a thread.
MCThreadFilters == {From(None, None), From(b, None), From(None, t)}

MCInit ==
  /\ registered = {b}
  /\ parked = {}
  /\ box = [p \in Peers |-> EmptyBox]
  /\ seq = 0
  /\ due = {}

MCNext == NextAmong({b}, {a, Broadcast} \cup Groups, {a})

MCSpec == MCInit /\ [][MCNext]_vars

MCFairSpec == MCSpec /\ Timers({a})

=============================================================================
