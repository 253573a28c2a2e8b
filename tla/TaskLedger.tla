----------------------------- MODULE TaskLedger ------------------------------
(***************************************************************************)
(* The task ledger of the hub (src/src/hub.ts): the rows of delegated      *)
(* tasks, who may move them, the SLA timers, and what the coming and going *)
(* of peers does to the tasks in their mailboxes.                          *)
(*                                                                         *)
(* A mailbox is only the set of the tasks it still holds a copy of (queued, *)
(* leased or dead-lettered).  How copies move inside it is in Mailbox; here *)
(* a call that takes or drops mail chooses which copies leave.             *)
(***************************************************************************)
EXTENDS TaskStatus, FiniteSets, FiniteSetsExt

CONSTANTS
  Peers,       \* peer ids
  Broadcast,   \* BROADCAST, the address `all`
  Groups,      \* ids of group channels
  Members,     \* the members of each group
  Runners,     \* the peers a runner is configured for
  MaxTasks,    \* MAX_TASKS, the size of the ledger
  MaxSent      \* bound: tasks sent

ASSUME TaskLedgerAssumption ==
  /\ IsFiniteSet(Peers)
  /\ Members \in [Groups -> SUBSET Peers]
  /\ Groups \cap Peers = {}
  /\ Broadcast \notin Peers \cup Groups
  /\ Runners \subseteq Peers
  /\ MaxTasks \in Nat \ {0}
  /\ MaxSent \in Nat

TaskIds == 1..MaxSent

Row    == [peer : Peers, status : Statuses]
Record == [from : Peers, rows : Seq(Row), status : Statuses, deadline : BOOLEAN]

VARIABLES
  registered,  \* lastSeen.keys()
  parked,      \* parkedAt.keys()
  held,        \* the tasks with a copy in the mailbox of each peer
  ledger,      \* taskLedger: the record of each task the hub remembers
  timers,      \* taskTimers.keys()
  running,     \* the tasks queued for the runner of each peer (runnerQueue)
  sent         \* tasks sent so far; the next one gets the id sent + 1

vars == <<registered, parked, held, ledger, timers, running, sent>>

Init ==
  /\ registered = {}
  /\ parked = {}
  /\ held = [p \in Peers |-> {}]
  /\ ledger = [t \in {} |-> {}]
  /\ timers = {}
  /\ running = [p \in Peers |-> {}]
  /\ sent = 0

\* The copies in the mailboxes of some peers, as pairs of a peer and a task.
CopiesOf(peers) == UNION {{p} \X held[p] : p \in peers}

Known == registered \cup parked

Tasks == DOMAIN ledger

IsOver(record) == record.status \in Terminal

-----------------------------------------------------------------------------
(* Changing a record.                                                      *)

RowsOf(record, peers) == {i \in DOMAIN record.rows : record.rows[i].peer \in peers}

\* The rows of I move to `status`.
Mark(record, I, status) ==
  [record EXCEPT !.rows =
     [i \in DOMAIN @ |-> IF i \in I THEN [@[i] EXCEPT !.status = status] ELSE @[i]]]

\* The status of a task is derived from its rows again.
Aggregated(record) == [record EXCEPT !.status = AggregateTaskStatus(record.rows)]

\* applyAckToLedger: a row still open follows the ack.  The status is derived
\* again whether or not a row has moved.
Acked(record, p, ack) ==
  LET moved == OpenRows(record.rows) \cap RowsOf(record, {p})
      rows  == [i \in DOMAIN record.rows |->
                  IF i \in moved
                  THEN [record.rows[i] EXCEPT !.status = NextTaskStatus(@, ack)]
                  ELSE record.rows[i]]
  IN  IF rows = <<>> THEN record ELSE Aggregated([record EXCEPT !.rows = rows])

\* failTaskForDroppedMessage and failTaskForGoneAssignee: the open rows of the
\* peers that lost their copy fail, unless the task is over already.
Bereft(record, peers) ==
  IF IsOver(record) THEN {} ELSE OpenRows(record.rows) \cap RowsOf(record, peers)

\* Mutant: one assignee failing is the task failing.
FailedWhole(record, peers) ==
  IF Bereft(record, peers) = {} THEN record
  ELSE [Mark(record, Bereft(record, peers), "failed") EXCEPT !.status = "failed"]

Failed(record, peers) ==
  IF Bereft(record, peers) = {} THEN record
  ELSE Aggregated(Mark(record, Bereft(record, peers), "failed"))

\* Mutant: the timer of a task is cleared with the first row that fails.
LoseCopiesDisarm(lost) ==
  LET losers(t) == {p \in Peers : <<p, t>> \in lost}
  IN  /\ ledger' = [t \in Tasks |-> Failed(ledger[t], losers(t))]
      /\ timers' = timers \ {t \in Tasks : Bereft(ledger[t], losers(t)) # {}}

\* The copies in `lost` are gone for good, by unregister, by the TTL of a
\* parked mailbox, or by eviction from the dead letters: a set of pairs of a
\* peer and a task.
LoseCopies(lost) ==
  LET losers(t) == {p \in Peers : <<p, t>> \in lost}
      hit       == {t \in Tasks : Bereft(ledger[t], losers(t)) # {}}
  IN  /\ ledger' = [t \in Tasks |-> Failed(ledger[t], losers(t))]
      \* realignTaskTimer
      /\ timers' = (timers \ {t \in hit : IsOver(ledger'[t])})
                     \cup {t \in hit : ~IsOver(ledger'[t]) /\ ledger'[t].deadline}

-----------------------------------------------------------------------------
(* Peers and their mailboxes.                                              *)

Register(p) ==
  /\ p \notin registered
  /\ registered' = registered \cup {p}
  /\ parked' = parked \ {p}
  /\ UNCHANGED <<held, ledger, timers, running, sent>>

\* bridge_unregister and a manager's kick.
Unregister(p) ==
  /\ p \in Known
  /\ registered' = registered \ {p}
  /\ parked' = parked \ {p}
  /\ held' = [held EXCEPT ![p] = {}]
  /\ LoseCopies({p} \X held[p])
  /\ UNCHANGED <<running, sent>>

\* gcTick: the idle peers are parked, the leases of every peer are reaped,
\* which may evict dead letters, and the overdue parked mailboxes go.
GcTick(idle, overdue, evicted) ==
  /\ idle \subseteq registered
  /\ overdue \subseteq parked \ registered
  /\ registered' = registered \ idle
  /\ parked' = (parked \cup idle) \ overdue
  /\ held' = [p \in Peers |-> IF p \in overdue THEN {}
                              ELSE {t \in held[p] : <<p, t>> \notin evicted}]
  /\ LoseCopies(evicted \cup CopiesOf(overdue))
  /\ UNCHANGED <<running, sent>>

\* A take, a commit, a nack or a delivery at the mailbox of p: the copies in
\* `gone` were read for good or dropped with the task left open, those in
\* `evicted` fell out of the dead letters.
MoveMail(p, gone, evicted) ==
  /\ gone \cup evicted # {}
  /\ gone \cup evicted \subseteq held[p]
  /\ gone \cap evicted = {}
  /\ evicted # {} => p \in registered
  /\ held' = [held EXCEPT ![p] = @ \ (gone \cup evicted)]
  /\ LoseCopies({p} \X evicted)
  /\ UNCHANGED <<registered, parked, running, sent>>

-----------------------------------------------------------------------------
(* Sending a task.                                                         *)

\* resolveAssignees, without the order.
Audience(from, to) ==
  IF to = Broadcast THEN Known \ {from}
  ELSE IF to \in Groups THEN Members[to] \ {from}
  ELSE {to}

\* The orders the registries and the groups may list S in.
Orders(S) == {f \in [1..Cardinality(S) -> S] : {f[i] : i \in DOMAIN f} = S}

Refused(from, to) ==
  \/ to \in Groups /\ from \notin Members[to]
  \/ to \in Peers /\ to \notin Known

\* Mutant: the ledger makes room with tasks of any status.
OverflowOfAny(tasks) ==
  LET excess == Cardinality(tasks) - MaxTasks
  IN  IF excess <= 0 THEN {{}} ELSE kSubset(excess, Tasks)

\* evictOverflowTasks: as many of the tasks that are over as the ledger is too
\* long for, the least recently updated first.  Which ones is left open.
Overflow(tasks) ==
  LET over   == {t \in Tasks : IsOver(ledger[t])}
      excess == Cardinality(tasks) - MaxTasks
  IN  IF excess <= 0 THEN {{}}
      ELSE IF Cardinality(over) <= excess THEN {over}
      ELSE kSubset(excess, over)

\* sendTask: compose, recordTask, dispatch.  `order` lists the audience; the
\* copies of `kept` end up in mailboxes, those of `queued` wait there for a
\* take or a runner, the others were read at once or dropped.
SendTask(from, to, deadline, order, kept, queued) ==
  /\ sent < MaxSent
  /\ from \in registered
  /\ ~Refused(from, to)
  /\ order \in Orders(Audience(from, to))
  /\ queued \subseteq kept /\ kept \subseteq Audience(from, to)
  /\ sent' = sent + 1
  /\ \E evicted \in Overflow(Tasks \cup {sent + 1}) :
       /\ ledger' = [t \in (Tasks \cup {sent + 1}) \ evicted |->
                       IF t = sent + 1
                       THEN [from |-> from, status |-> "pending", deadline |-> deadline,
                             rows |-> [i \in DOMAIN order |->
                                         [peer |-> order[i], status |-> "pending"]]]
                       ELSE ledger[t]]
       /\ timers' = (timers \ evicted) \cup {t \in {sent + 1} : deadline}
  /\ held' = [p \in Peers |-> IF p \in kept THEN held[p] \cup {sent + 1} ELSE held[p]]
  /\ running' = [p \in Peers |-> IF p \in queued \cap Runners
                                 THEN running[p] \cup {sent + 1} ELSE running[p]]
  /\ UNCHANGED <<registered, parked>>

-----------------------------------------------------------------------------
(* Answers.                                                                *)

\* Mutant: any ack clears the timer.
ApplyDisarms(p, t, ack) ==
  /\ ledger' = [ledger EXCEPT ![t] = Acked(@, p, ack)]
  /\ timers' = timers \ {t}

\* applyAckToLedger for task t, whose sender could be reached.
Apply(p, t, ack) ==
  /\ ledger' = [ledger EXCEPT ![t] = Acked(@, p, ack)]
  /\ timers' = IF IsOver(ledger'[t]) THEN timers \ {t} ELSE timers

\* sendAck: an assignee answers, and the sender can be told.
Ack(p, t, ack) ==
  /\ t \in Tasks
  /\ p \in registered
  /\ RowsOf(ledger[t], {p}) # {}
  /\ ledger[t].from \in Known
  /\ Apply(p, t, ack)
  /\ UNCHANGED <<registered, parked, held, running, sent>>

\* ackForRunner at the end of the oldest run of p; index.ts swallows the error
\* when the task is forgotten or its sender is gone.
RunnerEnds(p, t, ack) ==
  /\ t \in running[p]
  /\ \A u \in running[p] : t <= u
  /\ running' = [running EXCEPT ![p] = @ \ {t}]
  /\ IF t \in Tasks /\ ledger[t].from \in Known
     THEN Apply(p, t, ack)
     ELSE UNCHANGED <<ledger, timers>>
  /\ UNCHANGED <<registered, parked, held, sent>>

\* Fan-outs of the sender route to one row after another, and stop with an
\* error at the first assignee that cannot be reached.
Blocked(record, I) == {i \in I : record.rows[i].peer \notin Known}
Reached(record, I) == {i \in I : \A j \in Blocked(record, I) : i < j}

\* What is left of a fan-out over I: the status is derived again at its end.
Finished(record, I) ==
  IF Blocked(record, I) = {} THEN Aggregated(record) ELSE record

\* cancelTask by an assignee that is not the sender: an ordinary ack.
CancelAsAssignee(p, t) ==
  /\ t \in Tasks
  /\ p # ledger[t].from
  /\ ~IsOver(ledger[t])
  /\ Ack(p, t, "canceled")

\* cancelTask by the sender: every row still open, and its assignee is told.
CancelAsSender(t) ==
  /\ t \in Tasks
  /\ ledger[t].from \in registered
  /\ ~IsOver(ledger[t])
  /\ LET going   == OpenRows(ledger[t].rows)
         reached == Reached(ledger[t], going)
     IN  /\ reached # {}
         /\ ledger' = [ledger EXCEPT ![t] =
                         Finished(Mark(@, reached, "canceled"), going)]
  /\ UNCHANGED <<registered, parked, held, timers, running, sent>>

\* taskInput: the sender answers the rows that asked, or else tells them all.
TaskInput(t) ==
  /\ t \in Tasks
  /\ ledger[t].from \in registered
  /\ ~IsOver(ledger[t])
  /\ LET rows    == ledger[t].rows
         asking  == {i \in DOMAIN rows : rows[i].status = "input-required"}
         targets == IF asking # {} THEN asking ELSE DOMAIN rows
         reached == Reached(ledger[t], targets)
     IN  /\ reached # {}
         /\ ledger' = [ledger EXCEPT ![t] =
                         Finished(Mark(@, reached \cap asking, "working"), targets)]
  /\ UNCHANGED <<registered, parked, held, timers, running, sent>>

\* The SLA timer fires; the rows still open time out with the task.
FireTaskTimeout(t) ==
  /\ t \in timers
  /\ timers' = timers \ {t}
  /\ ledger' = [u \in Tasks |->
                  IF u = t /\ ~IsOver(ledger[u])
                  THEN [Mark(ledger[u], OpenRows(ledger[u].rows), "timeout")
                          EXCEPT !.status = "timeout"]
                  ELSE ledger[u]]
  /\ UNCHANGED <<registered, parked, held, running, sent>>

-----------------------------------------------------------------------------

Next ==
  \/ \E p \in Peers : Register(p)
  \/ \E p \in Peers : Unregister(p)
  \/ \E idle \in SUBSET registered, overdue \in SUBSET parked,
        evicted \in SUBSET CopiesOf(Peers) : GcTick(idle, overdue, evicted)
  \/ \E p \in Peers : \E gone, evicted \in SUBSET held[p] : MoveMail(p, gone, evicted)
  \/ \E from \in Peers, to \in Peers \cup Groups \cup {Broadcast}, deadline \in BOOLEAN :
       \E order \in Orders(Audience(from, to)), kept \in SUBSET Audience(from, to) :
         \E queued \in SUBSET kept : SendTask(from, to, deadline, order, kept, queued)
  \/ \E p \in Peers, t \in TaskIds, ack \in ClientAcks : Ack(p, t, ack)
  \/ \E p \in Peers, t \in TaskIds, ack \in {"done", "failed"} : RunnerEnds(p, t, ack)
  \/ \E p \in Peers, t \in TaskIds : CancelAsAssignee(p, t)
  \/ \E t \in TaskIds : CancelAsSender(t)
  \/ \E t \in TaskIds : TaskInput(t)
  \/ \E t \in TaskIds : FireTaskTimeout(t)

Spec == Init /\ [][Next]_vars

\* The timers of the process fire.
FairSpec == Spec /\ \A t \in TaskIds : WF_vars(FireTaskTimeout(t))

-----------------------------------------------------------------------------
(* Properties.                                                             *)

\* The types: the ledger holds well-formed records, only tasks it remembers
\* have a timer, and mailboxes hold tasks that were sent.
TypeOK ==
  /\ registered \subseteq Peers
  /\ parked \subseteq Peers
  /\ registered \cap parked = {}
  /\ sent \in 0..MaxSent
  /\ held \in [Peers -> SUBSET (1..sent)]
  /\ running \in [Peers -> SUBSET (1..sent)]
  /\ Tasks \subseteq 1..sent
  /\ \A t \in Tasks : ledger[t] \in Record
  /\ timers \subseteq Tasks

\* A task is over exactly when every assignee is through with it: acks, drops,
\* cancels that stop half-way and the SLA timer, in whatever order, never close
\* a task with an open row nor leave one open with nobody to answer.
OverTogether ==
  \A t \in Tasks :
    ledger[t].rows # <<>> => (IsOver(ledger[t]) <=> OpenRows(ledger[t].rows) = {})

\* realignTaskTimer: a task with a deadline keeps its timer while it is open,
\* whichever of its rows fail or answer; nothing else would arm it again.
DeadlineArmed ==
  \A t \in Tasks : ledger[t].deadline /\ ~IsOver(ledger[t]) => t \in timers

Settled(t) ==
  IF t \in Tasks
  THEN {<<i, ledger[t].rows[i].status>> :
           i \in DOMAIN ledger[t].rows \ OpenRows(ledger[t].rows)}
  ELSE {}

Phase(t) ==
  IF t > sent THEN "unsent"
  ELSE IF t \notin Tasks THEN "forgotten"
  ELSE IF IsOver(ledger[t]) THEN "over" ELSE "open"

\* The ledger keeps the contract of TaskContract: no call reopens a task, none
\* rewrites a row that is settled, and no open task is evicted.
Contract == INSTANCE TaskContract WITH
  phase   <- [t \in TaskIds |-> Phase(t)],
  settled <- [t \in TaskIds |-> Settled(t)]

KeepsContract == Contract!Spec

\* A task with a deadline does not stay open for ever, whatever its assignees
\* and its sender do: answer, fall silent or leave.
DeadlineEnds ==
  \A t \in TaskIds :
    (t \in Tasks /\ ledger[t].deadline) ~> (t \in Tasks => IsOver(ledger[t]))

=============================================================================
