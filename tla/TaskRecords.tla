---------------------------- MODULE TaskRecords -----------------------------
(***************************************************************************)
(* One task of the ledger of src/src/hub.ts in depth: the timeline of its  *)
(* acks, which is bounded, what the hub tells of it through onTaskChanged, *)
(* and what happens to its rows when peers change their ids.  TaskLedger   *)
(* models many tasks, their deadlines and their mailboxes instead.         *)
(*                                                                         *)
(* The sender stays registered and is not one of Peers.  A deadline may    *)
(* pass whenever the task is open; questions to the sender are left to     *)
(* TaskLedger.                                                             *)
(***************************************************************************)
EXTENDS TaskStatus, FiniteSets, SequencesExt

CONSTANTS
  Peers,        \* the ids of assignees, those they have and those they take
  AckStatuses,  \* what assignees ack
  MaxAcks       \* MAX_TASK_ACKS

\* The timeline has room for what the hub itself ends, a row at a time, and for
\* more: 200 in the code, where a task has fewer assignees.
ASSUME RecordAssumption ==
  /\ AckStatuses \subseteq ClientAcks
  /\ IsFiniteSet(Peers)
  /\ MaxAcks \in Nat /\ MaxAcks > Cardinality(Peers)

VARIABLES
  record,     \* the TaskRecord: its rows, its status and its timeline
  presence,   \* id -> whether it is registered, parked or neither
  copies,     \* the ids whose mailbox holds a copy of the task message
  announced,  \* history: the status onTaskChanged was last called with
  dropped     \* history: a delivery of the task was dropped

records == <<record, presence, copies, announced, dropped>>

Known == {p \in Peers : presence[p] # "gone"}

\* A row of the timeline: of the hub or of a peer, applied or not.
AckRow(system, applied) == [system |-> system, applied |-> applied]
DropRow    == AckRow(TRUE, FALSE)
SystemRow  == AckRow(TRUE, TRUE)

\* A task for a group: its members may be away, the messages are for those
\* who are not.
RecordInit ==
  /\ presence \in [Peers -> {"registered", "parked", "gone"}]
  /\ \E members \in (SUBSET Peers) \ {{}} : \E order \in SetToSeqs(members) :
       /\ record = [rows |-> [i \in DOMAIN order |->
                                [peer |-> order[i], status |-> "pending"]],
                    status |-> "pending", acks |-> <<>>]
       /\ copies = members \cap Known
  /\ announced = "pending"
  /\ dropped = FALSE

-----------------------------------------------------------------------------
(* The timeline.                                                           *)

\* Mutant: the oldest row goes, whoever wrote it.
VictimOldest(acks) == 1

\* trimAcks: what moved nothing goes first, the rows of the hub go last.
Victim(acks) ==
  LET idle   == {i \in DOMAIN acks : ~acks[i].system /\ ~acks[i].applied}
      spoken == {i \in DOMAIN acks : ~acks[i].system}
      oldest(S) == CHOOSE i \in S : \A j \in S : i <= j
  IN  IF idle # {} THEN oldest(idle)
      ELSE IF spoken # {} THEN oldest(spoken)
      ELSE 1

\* pushAckEvent.
Push(acks, row) ==
  LET all == Append(acks, row)
  IN  IF Len(all) > MaxAcks THEN RemoveAt(all, Victim(all)) ELSE all

PushTimes(acks, row, n) ==
  LET pushed[i \in 0..n] == IF i = 0 THEN acks ELSE Push(pushed[i - 1], row)
  IN  pushed[n]

-----------------------------------------------------------------------------
(* What ends or moves rows.                                                *)

RowsWith(p) == {i \in DOMAIN record.rows : record.rows[i].peer = p}
StillOpen   == OpenRows(record.rows)
IsOver      == record.status \in Terminal

Marked(rows, I, status) ==
  [i \in DOMAIN rows |-> IF i \in I THEN [rows[i] EXCEPT !.status = status] ELSE rows[i]]

Becomes(rows, status, acks) ==
  /\ record' = [rows |-> rows, status |-> status, acks |-> acks]
  /\ announced' = status

\* failTaskForDroppedMessage and failTaskForGoneAssignee.
CopyIsLost(p) ==
  LET mine == RowsWith(p) \cap StillOpen
      rows == Marked(record.rows, mine, "failed")
  IN  IF IsOver \/ mine = {}
      THEN UNCHANGED <<record, announced>>
      ELSE Becomes(rows, AggregateTaskStatus(rows), Push(record.acks, SystemRow))

\* sendAck and ackForRunner: the runner of a peer acks under the id the peer
\* had when the task came.
Acked(p, ack) ==
  LET mine == RowsWith(p) \cap StillOpen
      rows == [i \in DOMAIN record.rows |->
                 IF i \in mine
                 THEN [record.rows[i] EXCEPT !.status = NextTaskStatus(@, ack)]
                 ELSE record.rows[i]]
  IN  /\ Becomes(rows, AggregateTaskStatus(rows),
                 Push(record.acks, AckRow(FALSE, mine # {})))
      /\ UNCHANGED <<presence, copies, dropped>>

Ack(p, ack) == presence[p] = "registered" /\ RowsWith(p) # {} /\ Acked(p, ack)
RunnerEnds(p, ack) == Acked(p, ack)

\* cancelTask: the sender's, which stops at the first open row whose peer is
\* not there any more, or an assignee's.
CancelAsSender ==
  LET gone    == {i \in StillOpen : record.rows[i].peer \notin Known}
      reached == {i \in StillOpen : \A j \in gone : i < j}
      rows    == Marked(record.rows, reached, "canceled")
      acks    == PushTimes(record.acks, AckRow(FALSE, TRUE), Cardinality(reached))
  IN  /\ ~IsOver
      /\ IF gone = {}
         THEN Becomes(rows, AggregateTaskStatus(rows), acks)
         ELSE /\ record' = [record EXCEPT !.rows = rows, !.acks = acks]
              /\ UNCHANGED announced
      /\ UNCHANGED <<presence, copies, dropped>>

CancelAsAssignee(p) == ~IsOver /\ Ack(p, "canceled")

\* fireTaskTimeout.
TimesOut ==
  /\ ~IsOver
  /\ Becomes(Marked(record.rows, StillOpen, "timeout"), "timeout",
             Push(record.acks, SystemRow))
  /\ UNCHANGED <<presence, copies, dropped>>

-----------------------------------------------------------------------------
(* The copies in the mailboxes.                                            *)

\* A copy is read for good.
Take(p) ==
  /\ p \in copies /\ presence[p] = "registered"
  /\ copies' = copies \ {p}
  /\ UNCHANGED <<record, presence, announced, dropped>>

\* noteTaskDeliveryDropped: a copy expired, was pushed out or refused, or went
\* to the dead letters, where it still is.
Drop(p) ==
  /\ p \in copies
  /\ copies' \in {copies, copies \ {p}}
  /\ record' = [record EXCEPT !.acks = Push(@, DropRow)]
  /\ dropped' = TRUE
  /\ UNCHANGED <<presence, announced>>

\* A copy is evicted from the dead letters.
Evict(p) ==
  /\ p \in copies
  /\ copies' = copies \ {p}
  /\ CopyIsLost(p)
  /\ UNCHANGED <<presence, dropped>>

-----------------------------------------------------------------------------
(* The peers.                                                              *)

Join(p) ==
  /\ presence[p] # "registered"
  /\ presence' = [presence EXCEPT ![p] = "registered"]
  /\ UNCHANGED <<record, copies, announced, dropped>>

Park(p) ==
  /\ presence[p] = "registered"
  /\ presence' = [presence EXCEPT ![p] = "parked"]
  /\ UNCHANGED <<record, copies, announced, dropped>>

\* unregister, of a peer that is parked too, and the end of a parked mailbox.
Leave(p) ==
  /\ p \in Known
  /\ presence' = [presence EXCEPT ![p] = "gone"]
  /\ copies' = copies \ {p}
  /\ IF p \in copies THEN CopyIsLost(p) ELSE UNCHANGED <<record, announced>>
  /\ UNCHANGED dropped

\* Mutant: the later of two rows of one peer wins.
FoldedLater(rows) ==
  LET twice(i, j) == i < j /\ rows[i].peer = rows[j].peer
  IN  IF \E i, j \in DOMAIN rows : twice(i, j)
      THEN LET i == CHOOSE i \in DOMAIN rows : \E j \in DOMAIN rows : twice(i, j)
               j == CHOOSE j \in DOMAIN rows : twice(i, j)
           IN  RemoveAt(Marked(rows, {i}, rows[j].status), j)
      ELSE rows

\* foldDuplicateAssignees: the later of the two rows of one peer wins, unless
\* it alone is over.
Folded(rows) ==
  LET twice(i, j) == i < j /\ rows[i].peer = rows[j].peer
  IN  IF \E i, j \in DOMAIN rows : twice(i, j)
      THEN LET i == CHOOSE i \in DOMAIN rows : \E j \in DOMAIN rows : twice(i, j)
               j == CHOOSE j \in DOMAIN rows : twice(i, j)
               kept == IF {i, j} \cap OpenRows(rows) = {i} THEN i ELSE j
           IN  RemoveAt(Marked(rows, {i}, rows[kept].status), j)
      ELSE rows

\* renamePeer, as far as the task and the mailboxes go.  The fold arms the timer again
\* when the task was over before and is not any more: RenameNeitherEndsNorReopens says
\* that this never happens, and timers are left out here.
Rename(p, q) ==
  LET named == [i \in DOMAIN record.rows |->
                  [record.rows[i] EXCEPT !.peer = IF @ = p THEN q ELSE @]]
      rows  == Folded(named)
  IN  /\ presence[p] = "registered" /\ presence[q] = "gone"
      /\ presence' = [presence EXCEPT ![p] = "gone", ![q] = "registered"]
      /\ copies' = IF p \in copies THEN (copies \ {p}) \cup {q} ELSE copies
      /\ record' = [record EXCEPT !.rows = rows,
                      !.status = IF rows = named THEN @ ELSE AggregateTaskStatus(rows)]
      /\ UNCHANGED <<announced, dropped>>

-----------------------------------------------------------------------------

RecordNext ==
  \/ \E p \in Peers, ack \in AckStatuses : Ack(p, ack)
  \/ \E p \in Peers, ack \in {"done", "failed"} : RunnerEnds(p, ack)
  \/ \E p \in Peers : CancelAsAssignee(p)
  \/ CancelAsSender
  \/ TimesOut
  \/ \E p \in Peers : Take(p) \/ Drop(p) \/ Evict(p)
  \/ \E p \in Peers : Join(p) \/ Park(p) \/ Leave(p)
  \/ \E p, q \in Peers : Rename(p, q)

-----------------------------------------------------------------------------

\* A peer has one row of the task at most, and the timeline is bounded.
RecordTypeOK ==
  /\ \A i \in DOMAIN record.rows :
       /\ record.rows[i].peer \in Peers /\ record.rows[i].status \in Statuses
       /\ \A j \in DOMAIN record.rows : record.rows[i].peer = record.rows[j].peer => i = j
  /\ record.status \in Statuses
  /\ record.acks \in BoundedSeq([system : BOOLEAN, applied : BOOLEAN], MaxAcks)
  /\ presence \in [Peers -> {"registered", "parked", "gone"}]
  /\ copies \subseteq Known
  /\ announced \in Statuses /\ dropped \in BOOLEAN

\* That a delivery of the task was dropped can always be read in its timeline,
\* however many acks came before and after: trimAcks protects the evidence.
WhatWasLostIsShown ==
  dropped => \E i \in DOMAIN record.acks : record.acks[i] = DropRow

\* A rename onto the id of another assignee closes no work that is still open, under
\* either id, as foldDuplicateAssignees says of itself (src/src/hub.ts:1011), and opens
\* no task that is over.  The comment at src/src/hub.ts:1052 says that a fold can open
\* one again, of two rows of which one is still running: but then the status, which is
\* always derived from the rows, was not terminal before the fold either, however many
\* cancels and losses reached some of the rows only.
RenameNeitherEndsNorReopens ==
  [][\A p, q \in Peers : Rename(p, q) =>
       /\ \A i \in StillOpen :
            LET owner == record.rows[i].peer IN
            \E j \in StillOpen' : record'.rows[j].peer = IF owner = p THEN q ELSE owner
       /\ IsOver => IsOver']_records

\* Every change of the status of a task is reported through onTaskChanged,
\* src/src/hub.ts:307: "Every status change in this class already reports
\* through `options.onTaskChanged`".
EveryChangeIsAnnounced == announced = record.status

=============================================================================
