-------------------------- MODULE TaskLedgerProofs ---------------------------
(***************************************************************************)
(* Theorems of TaskLedger, for any peers, groups, runners and bounds.      *)
(***************************************************************************)
EXTENDS TaskLedger, SharedFacts

-----------------------------------------------------------------------------
(* What a call may do to one record.                                       *)

\* A well-formed record whose status agrees with its rows.
Sound(r) ==
  /\ r \in Record
  /\ r.rows # <<>> => (IsOver(r) <=> OpenRows(r.rows) = {})

\* Record s may follow record r: settled rows stay, and so does an end.
Follows(r, s) ==
  /\ Sound(s)
  /\ s.deadline = r.deadline
  /\ DOMAIN s.rows = DOMAIN r.rows
  /\ \A i \in DOMAIN r.rows \ OpenRows(r.rows) : s.rows[i] = r.rows[i]
  /\ IsOver(r) => IsOver(s)

\* A record that does not change follows itself.
LEMMA SoundFollows == ASSUME NEW r, Sound(r) PROVE Follows(r, r)
BY DEF Follows

\* A row of a sequence of rows is a row.
LEMMA RowsAreRows ==
  ASSUME NEW r \in Record
  PROVE  /\ DOMAIN r.rows = 1..Len(r.rows)
         /\ Len(r.rows) \in Nat
         /\ r.rows = <<>> <=> DOMAIN r.rows = {}
         /\ \A i \in DOMAIN r.rows : r.rows[i] \in Row
<1>1. r.rows \in Seq(Row)
  BY DEF Record
<1>2. r.rows = <<>> <=> Len(r.rows) = 0
  BY <1>1, EmptySeq
<1>3. DOMAIN r.rows = 1..Len(r.rows) /\ Len(r.rows) \in Nat
  BY <1>1
<1>4. \A i \in DOMAIN r.rows : r.rows[i] \in Row
  BY <1>1
<1>5. DOMAIN r.rows = {} <=> Len(r.rows) = 0
  BY <1>3
<1> QED BY <1>2, <1>3, <1>4, <1>5

\* A record follows another if its rows keep what is settled and its status
\* fits its rows.
LEMMA Rewritten ==
  ASSUME NEW r, Sound(r), r.rows # <<>>,
         NEW s \in Record, s.deadline = r.deadline,
         DOMAIN s.rows = DOMAIN r.rows,
         \A i \in DOMAIN r.rows \ OpenRows(r.rows) : s.rows[i] = r.rows[i],
         IsOver(s) <=> OpenRows(s.rows) = {}
  PROVE  Follows(r, s)
<1>1. Sound(s)
  BY DEF Sound
<1>2. ASSUME IsOver(r) PROVE IsOver(s)
  <2>1. OpenRows(r.rows) = {}
    BY <1>2 DEF Sound
  <2> QED BY <2>1 DEF OpenRows
<1> QED BY <1>1, <1>2 DEF Follows

\* Rows over the domain of a sequence are a sequence again.
LEMMA RowsMakeASequence ==
  ASSUME NEW r \in Record, NEW rows \in [DOMAIN r.rows -> Row]
  PROVE  rows \in Seq(Row) /\ DOMAIN rows = DOMAIN r.rows
<1>1. rows \in [1..Len(r.rows) -> Row] /\ Len(r.rows) \in Nat
  BY RowsAreRows
<1> QED BY <1>1, RowsAreRows

\* New rows with the status derived from them follow the old ones.
LEMMA AggregatedFollows ==
  ASSUME NEW r, Sound(r), r.rows # <<>>,
         NEW rows \in [DOMAIN r.rows -> Row],
         \A i \in DOMAIN r.rows \ OpenRows(r.rows) : rows[i] = r.rows[i]
  PROVE  Follows(r, Aggregated([r EXCEPT !.rows = rows]))
<1> DEFINE s == Aggregated([r EXCEPT !.rows = rows])
<1>1. r \in Record
  BY DEF Sound
<1>2. DOMAIN rows = DOMAIN r.rows /\ DOMAIN rows # {}
  BY <1>1, RowsAreRows
<1>3. \A i \in DOMAIN rows : rows[i].status \in Statuses
  BY <1>2 DEF Row
<1>4. /\ AggregateTaskStatus(rows) \in Statuses
      /\ AggregateTaskStatus(rows) \in Terminal <=> OpenRows(rows) = {}
  BY <1>2, <1>3, AggregateIsRight
<1>5. s = [[r EXCEPT !.rows = rows] EXCEPT !.status = AggregateTaskStatus(rows)]
  BY <1>1 DEF Aggregated, Record
<1> HIDE DEF s
<1>6. /\ s \in Record
      /\ s.rows = rows
      /\ s.status = AggregateTaskStatus(rows)
      /\ s.deadline = r.deadline
  <2>1. rows \in Seq(Row)
    BY <1>1, RowsMakeASequence
  <2> QED BY <1>1, <1>4, <1>5, <2>1 DEF Record
<1>7. Follows(r, s)
  <2>1. IsOver(s) <=> OpenRows(s.rows) = {}
    BY <1>4, <1>6 DEF IsOver
  <2> QED BY <1>2, <1>6, <2>1, Rewritten
<1> QED BY <1>7 DEF s

\* applyAckToLedger.
LEMMA AckedFollows ==
  ASSUME NEW r, Sound(r), NEW p, NEW ack \in Acks
  PROVE  Follows(r, Acked(r, p, ack))
<1> DEFINE moved == OpenRows(r.rows) \cap RowsOf(r, {p})
           rows  == [i \in DOMAIN r.rows |->
                       IF i \in moved
                       THEN [r.rows[i] EXCEPT !.status = NextTaskStatus(r.rows[i].status, ack)]
                       ELSE r.rows[i]]
<1>1. r \in Record
  BY DEF Sound
<1>2. \A i \in DOMAIN r.rows : r.rows[i] \in Row
  BY <1>1, RowsAreRows
<1>3. \A i \in DOMAIN r.rows : rows[i] \in Row
  <2> TAKE i \in DOMAIN r.rows
  <2>1. CASE i \in moved
    <3>1. r.rows[i].status \in Open
      BY <2>1 DEF OpenRows
    <3>2. NextTaskStatus(r.rows[i].status, ack) \in Statuses
      BY <3>1, OpenOrTerminal
    <3> QED BY <1>2, <2>1, <3>2 DEF Row
  <2> QED BY <1>2, <2>1
<1>4. \A i \in DOMAIN r.rows \ OpenRows(r.rows) : rows[i] = r.rows[i]
  OBVIOUS
<1>5. rows = <<>> <=> r.rows = <<>>
  BY <1>1, RowsAreRows
<1>6. Acked(r, p, ack) = IF rows = <<>> THEN r ELSE Aggregated([r EXCEPT !.rows = rows])
  BY DEF Acked
<1>7. rows \in [DOMAIN r.rows -> Row]
  BY <1>3
<1> HIDE DEF rows
<1> QED BY <1>3, <1>4, <1>5, <1>6, <1>7, SoundFollows, AggregatedFollows

\* Mark changes the rows of I, and only their status.
LEMMA MarkRows ==
  ASSUME NEW r \in Record, NEW I, NEW status \in Statuses
  PROVE  \E rows \in [DOMAIN r.rows -> Row] :
           /\ Mark(r, I, status) = [r EXCEPT !.rows = rows]
           /\ \A i \in DOMAIN r.rows : rows[i].peer = r.rows[i].peer
           /\ \A i \in DOMAIN r.rows : i \in I => rows[i].status = status
           /\ \A i \in DOMAIN r.rows : i \notin I => rows[i] = r.rows[i]
<1> DEFINE rows == [i \in DOMAIN r.rows |->
                      IF i \in I THEN [r.rows[i] EXCEPT !.status = status]
                      ELSE r.rows[i]]
<1>1. \A i \in DOMAIN r.rows : r.rows[i] \in Row
  BY RowsAreRows
<1>2. \A i \in DOMAIN r.rows : rows[i] \in Row /\ rows[i].peer = r.rows[i].peer
  BY <1>1 DEF Row
<1>3. \A i \in DOMAIN r.rows : i \in I => rows[i].status = status
  BY <1>1 DEF Row
<1>4. \A i \in DOMAIN r.rows : i \notin I => rows[i] = r.rows[i]
  OBVIOUS
<1>5. rows \in [DOMAIN r.rows -> Row]
  BY <1>2
<1>6. Mark(r, I, status) = [r EXCEPT !.rows = rows]
  BY DEF Mark
<1> HIDE DEF rows
<1> QED BY <1>2, <1>3, <1>4, <1>5, <1>6

\* failTaskForDroppedMessage and failTaskForGoneAssignee.
LEMMA FailedFollows ==
  ASSUME NEW r, Sound(r), NEW peers
  PROVE  Follows(r, Failed(r, peers))
<1>1. CASE Bereft(r, peers) = {}
  BY <1>1, SoundFollows DEF Failed
<1>2. CASE Bereft(r, peers) # {}
  <2> DEFINE I == Bereft(r, peers)
  <2>1. r \in Record
    BY DEF Sound
  <2>2. I \subseteq OpenRows(r.rows)
    BY DEF Bereft
  <2>3. "failed" \in Statuses
    BY DEF Statuses, Terminal
  <2>4. PICK rows \in [DOMAIN r.rows -> Row] :
          /\ Mark(r, I, "failed") = [r EXCEPT !.rows = rows]
          /\ \A i \in DOMAIN r.rows : i \notin I => rows[i] = r.rows[i]
    BY <2>1, <2>3, MarkRows
  <2>5. r.rows # <<>>
    BY <1>2, <2>1, <2>2, RowsAreRows DEF OpenRows
  <2>6. Failed(r, peers) = Aggregated([r EXCEPT !.rows = rows])
    BY <1>2, <2>4 DEF Failed
  <2> QED BY <2>2, <2>4, <2>5, <2>6, AggregatedFollows
<1> QED BY <1>1, <1>2

\* fireTaskTimeout.
LEMMA TimedOutFollows ==
  ASSUME NEW r, Sound(r)
  PROVE  Follows(r, [Mark(r, OpenRows(r.rows), "timeout") EXCEPT !.status = "timeout"])
<1> DEFINE I == OpenRows(r.rows)
           s == [Mark(r, I, "timeout") EXCEPT !.status = "timeout"]
<1>1. r \in Record
  BY DEF Sound
<1>2. "timeout" \in Statuses /\ "timeout" \in Terminal /\ "timeout" \notin Open
  BY DEF Statuses, Open, Terminal
<1>3. PICK rows \in [DOMAIN r.rows -> Row] :
        /\ Mark(r, I, "timeout") = [r EXCEPT !.rows = rows]
        /\ \A i \in DOMAIN r.rows : i \in I => rows[i].status = "timeout"
        /\ \A i \in DOMAIN r.rows : i \notin I => rows[i] = r.rows[i]
  <2> HIDE DEF I
  <2> QED BY <1>1, <1>2, MarkRows
<1>4. rows \in Seq(Row) /\ DOMAIN rows = DOMAIN r.rows
  BY <1>1, RowsMakeASequence
<1>5. /\ s \in Record
      /\ s.rows = rows
      /\ s.status = "timeout"
      /\ s.deadline = r.deadline
  BY <1>1, <1>2, <1>3, <1>4 DEF Record
<1>6. OpenRows(rows) = {}
  BY <1>2, <1>3, <1>4 DEF OpenRows
<1> HIDE DEF s
<1>7. Sound(s)
  BY <1>2, <1>5, <1>6 DEF Sound, IsOver
<1>8. Follows(r, s)
  BY <1>2, <1>3, <1>4, <1>5, <1>7 DEF Follows, IsOver
<1> QED BY <1>8 DEF s

\* The fan-outs of the sender, cancelTask and taskInput, when they stop at an
\* assignee that cannot be reached and when they get to the end.
LEMMA FinishedFollows ==
  ASSUME NEW r, Sound(r), ~IsOver(r), r.rows # <<>>,
         NEW I, I \subseteq OpenRows(r.rows),
         NEW J, J \subseteq DOMAIN r.rows, NEW status \in Statuses,
         Blocked(r, J) # {} =>
           status \in Open \/ (OpenRows(r.rows) \ I # {})
  PROVE  Follows(r, Finished(Mark(r, I, status), J))
<1> DEFINE s == Mark(r, I, status)
<1>1. r \in Record
  BY DEF Sound
<1>2. PICK rows \in [DOMAIN r.rows -> Row] :
        /\ s = [r EXCEPT !.rows = rows]
        /\ \A i \in DOMAIN r.rows : rows[i].peer = r.rows[i].peer
        /\ \A i \in DOMAIN r.rows : i \in I => rows[i].status = status
        /\ \A i \in DOMAIN r.rows : i \notin I => rows[i] = r.rows[i]
  BY <1>1, MarkRows
<1>3. \A i \in DOMAIN r.rows \ OpenRows(r.rows) : rows[i] = r.rows[i]
  BY <1>2
<1>4. rows \in Seq(Row) /\ DOMAIN rows = DOMAIN r.rows
  BY <1>1, RowsMakeASequence
<1>5. /\ s \in Record
      /\ s.rows = rows
      /\ s.status = r.status
      /\ s.deadline = r.deadline
  BY <1>1, <1>2, <1>4 DEF Record
<1>6. CASE Blocked(s, J) = {}
  <2>1. Finished(s, J) = Aggregated([r EXCEPT !.rows = rows])
    BY <1>2, <1>6 DEF Finished
  <2> QED BY <1>3, <2>1, AggregatedFollows
<1>7. CASE Blocked(s, J) # {}
  <2>1. Finished(s, J) = s
    BY <1>7 DEF Finished
  <2>2. Blocked(r, J) # {}
    BY <1>2, <1>5, <1>7 DEF Blocked
  <2>3. OpenRows(rows) # {}
    <3>1. CASE status \in Open
      <4>1. PICK i \in DOMAIN r.rows : i \in OpenRows(r.rows)
        BY <1>1, RowsAreRows DEF Sound, OpenRows
      <4>2. rows[i].status \in Open
        BY <1>2, <3>1, <4>1 DEF OpenRows
      <4> QED BY <1>4, <4>2 DEF OpenRows
    <3>2. CASE OpenRows(r.rows) \ I # {}
      <4>1. PICK i \in OpenRows(r.rows) : i \notin I
        BY <3>2
      <4>2. i \in DOMAIN r.rows /\ rows[i] = r.rows[i]
        BY <1>2, <4>1 DEF OpenRows
      <4> QED BY <1>4, <4>1, <4>2 DEF OpenRows
    <3> QED BY <2>2, <3>1, <3>2
  <2>4. Follows(r, s)
    <3>1. ~IsOver(s)
      BY <1>5 DEF IsOver
    <3> HIDE DEF s
    <3> QED BY <1>3, <1>4, <1>5, <2>3, <3>1, Rewritten
  <2> QED BY <2>1, <2>4
<1> QED BY <1>6, <1>7

-----------------------------------------------------------------------------
(* What a call may do to the ledger.                                       *)

\* The inductive invariant.
IInv == TypeOK /\ OverTogether /\ DeadlineArmed

\* Tasks that stay in the ledger follow what they were, a new one starts with
\* all of its rows open, and the hub forgets only what is over.
Evolves ==
  /\ \A t \in Tasks' :
       \/ t \in Tasks /\ Follows(ledger[t], ledger'[t])
       \/ /\ t = sent + 1 /\ sent' = sent + 1
          /\ Sound(ledger'[t])
          /\ ~IsOver(ledger'[t])
          /\ OpenRows(ledger'[t].rows) = DOMAIN ledger'[t].rows
  /\ \A t \in Tasks \ Tasks' : IsOver(ledger[t])
  /\ sent' # sent => sent' = sent + 1 /\ sent + 1 \in Tasks'

\* Under the invariant every record of the ledger is sound.
LEMMA AllSound ==
  ASSUME TypeOK, OverTogether
  PROVE  \A t \in Tasks : Sound(ledger[t])
BY DEF TypeOK, OverTogether, Sound

\* A call that leaves the ledger alone.
LEMMA LedgerAlone ==
  ASSUME IInv, UNCHANGED <<ledger, timers, sent>>
  PROVE  Evolves /\ DeadlineArmed' /\ timers' \subseteq Tasks'
<1>1. \A t \in Tasks : Follows(ledger[t], ledger[t])
  BY AllSound, SoundFollows DEF IInv
<1> QED BY <1>1 DEF IInv, TypeOK, DeadlineArmed, Evolves, Tasks

\* Copies that are gone for good, whoever lost them.
LEMMA LoseCopiesEvolves ==
  ASSUME IInv, NEW lost, LoseCopies(lost), UNCHANGED sent
  PROVE  Evolves /\ DeadlineArmed' /\ timers' \subseteq Tasks' /\ Tasks' = Tasks
<1> DEFINE losers(t) == {p \in Peers : <<p, t>> \in lost}
           hit       == {t \in Tasks : Bereft(ledger[t], losers(t)) # {}}
<1>1. /\ ledger' = [t \in Tasks |-> Failed(ledger[t], losers(t))]
      /\ timers' = (timers \ {t \in hit : IsOver(ledger'[t])})
                     \cup {t \in hit : ~IsOver(ledger'[t]) /\ ledger'[t].deadline}
  BY DEF LoseCopies
<1> HIDE DEF losers
<1>2. Tasks' = Tasks
  BY <1>1 DEF Tasks
<1>3. \A t \in Tasks : Follows(ledger[t], ledger'[t])
  BY <1>1, AllSound, FailedFollows DEF IInv
<1>4. \A t \in Tasks \ hit : ledger'[t] = ledger[t]
  BY <1>1 DEF Failed
<1>5. timers' \subseteq Tasks
  BY <1>1 DEF IInv, TypeOK
<1>6. ASSUME NEW t \in Tasks, ledger'[t].deadline, ~IsOver(ledger'[t])
      PROVE  t \in timers'
  <2>1. CASE t \in hit
    BY <1>1, <1>6, <2>1
  <2>2. CASE t \notin hit
    <3>1. t \in timers
      BY <1>4, <1>6, <2>2 DEF IInv, DeadlineArmed
    <3> QED BY <1>1, <2>2, <3>1
  <2> QED BY <2>1, <2>2
<1>7. DeadlineArmed'
  BY <1>2, <1>6 DEF DeadlineArmed, IsOver
<1>8. Evolves
  BY <1>2, <1>3 DEF Evolves
<1> QED BY <1>2, <1>5, <1>7, <1>8

\* One record is replaced by one that follows it, and its timer is cleared at
\* most when it is over.
LEMMA OneEvolves ==
  ASSUME IInv, UNCHANGED sent,
         NEW t \in Tasks, NEW s, Follows(ledger[t], s),
         ledger' = [ledger EXCEPT ![t] = s],
         timers' \subseteq timers, timers \ {t} \subseteq timers',
         ~IsOver(s) => timers' = timers
  PROVE  Evolves /\ DeadlineArmed' /\ timers' \subseteq Tasks' /\ Tasks' = Tasks
<1>1. Tasks' = Tasks
  BY DEF Tasks
<1>2. ledger'[t] = s /\ \A u \in Tasks \ {t} : ledger'[u] = ledger[u]
  BY DEF Tasks
<1>3. \A u \in Tasks : Follows(ledger[u], ledger'[u])
  BY <1>2, AllSound, SoundFollows DEF IInv
<1>4. ASSUME NEW u \in Tasks, ledger'[u].deadline, ~IsOver(ledger'[u])
      PROVE  u \in timers'
  <2>1. ledger[u].deadline /\ ~IsOver(ledger[u])
    BY <1>3, <1>4 DEF Follows
  <2>2. u \in timers
    BY <2>1 DEF IInv, DeadlineArmed
  <2> QED BY <1>2, <1>4, <2>2
<1>5. DeadlineArmed'
  BY <1>1, <1>4 DEF DeadlineArmed, IsOver
<1>6. Evolves
  BY <1>1, <1>3 DEF Evolves
<1> QED BY <1>1, <1>5, <1>6 DEF IInv, TypeOK

-----------------------------------------------------------------------------
(* Every action keeps the invariant and lets the ledger evolve.            *)

\* The invariant after a step, from its parts.
LEMMA InvariantAfter ==
  ASSUME IInv, Evolves, DeadlineArmed', timers' \subseteq Tasks',
         registered' \subseteq Peers, parked' \subseteq Peers,
         registered' \cap parked' = {},
         sent' \in 0..MaxSent, sent <= sent',
         held' \in [Peers -> SUBSET (1..sent')],
         running' \in [Peers -> SUBSET (1..sent')]
  PROVE  IInv'
<1>1. \A t \in Tasks' : Sound(ledger'[t])
  BY DEF Evolves, Follows
<1>2. Tasks' \subseteq 1..sent'
  <2> SUFFICES ASSUME NEW t \in Tasks' PROVE t \in 1..sent'
    OBVIOUS
  <2>1. Tasks \subseteq 1..sent /\ sent \in Nat /\ sent' \in Nat
    BY TaskLedgerAssumption DEF IInv, TypeOK
  <2>2. t \in Tasks \/ (t = sent + 1 /\ sent' = sent + 1)
    BY DEF Evolves
  <2>3. CASE t \in Tasks
    <3>1. t \in 1..sent
      BY <2>1, <2>3
    <3> QED BY <2>1, <3>1
  <2>4. CASE t = sent + 1 /\ sent' = sent + 1
    BY <2>1, <2>4
  <2> QED BY <2>2, <2>3, <2>4
<1>3. \A t \in Tasks' : ledger'[t] \in Record
  BY <1>1 DEF Sound
<1>4. TypeOK'
  BY <1>2, <1>3 DEF TypeOK
<1>5. OverTogether'
  BY <1>1 DEF OverTogether, Sound, IsOver
<1> QED BY <1>4, <1>5 DEF IInv

\* The invariant after a call that leaves peers, mailboxes and runners alone.
LEMMA PeersAlone ==
  ASSUME IInv, Evolves, DeadlineArmed', timers' \subseteq Tasks',
         UNCHANGED <<registered, parked, held, running, sent>>
  PROVE  IInv'
BY InvariantAfter, TaskLedgerAssumption DEF IInv, TypeOK

\* register.
LEMMA RegisterKeeps ==
  ASSUME IInv, NEW p \in Peers, Register(p)
  PROVE  IInv' /\ Evolves
<1>1. Evolves /\ DeadlineArmed' /\ timers' \subseteq Tasks'
  BY LedgerAlone DEF Register
<1> QED BY <1>1, InvariantAfter DEF Register, IInv, TypeOK

\* unregister of a live or a parked peer.
LEMMA UnregisterKeeps ==
  ASSUME IInv, NEW p \in Peers, Unregister(p)
  PROVE  IInv' /\ Evolves
<1>1. Evolves /\ DeadlineArmed' /\ timers' \subseteq Tasks'
  BY LoseCopiesEvolves DEF Unregister
<1> QED BY <1>1, InvariantAfter DEF Unregister, IInv, TypeOK

\* gcTick, with the mail of the overdue peers and the evicted dead letters.
LEMMA GcTickKeeps ==
  ASSUME IInv, NEW idle, NEW overdue, NEW evicted, GcTick(idle, overdue, evicted)
  PROVE  IInv' /\ Evolves
<1>1. Evolves /\ DeadlineArmed' /\ timers' \subseteq Tasks'
  BY LoseCopiesEvolves DEF GcTick
<1>2. held' \in [Peers -> SUBSET (1..sent)]
  BY DEF GcTick, IInv, TypeOK
<1> QED BY <1>1, <1>2, InvariantAfter DEF GcTick, IInv, TypeOK

\* A take, a commit, a nack or a delivery.
LEMMA MoveMailKeeps ==
  ASSUME IInv, NEW p \in Peers, NEW gone, NEW evicted, MoveMail(p, gone, evicted)
  PROVE  IInv' /\ Evolves
<1>1. Evolves /\ DeadlineArmed' /\ timers' \subseteq Tasks'
  BY LoseCopiesEvolves DEF MoveMail
<1> QED BY <1>1, InvariantAfter DEF MoveMail, IInv, TypeOK

\* applyAckToLedger, for a peer that acks and for a runner.
LEMMA ApplyEvolves ==
  ASSUME IInv, NEW p, NEW t \in Tasks, NEW ack \in Acks, Apply(p, t, ack), UNCHANGED sent
  PROVE  Evolves /\ DeadlineArmed' /\ timers' \subseteq Tasks' /\ Tasks' = Tasks
<1> DEFINE s == Acked(ledger[t], p, ack)
<1>1. Follows(ledger[t], s)
  BY AllSound, AckedFollows DEF IInv
<1>2. ledger' = [ledger EXCEPT ![t] = s] /\ ledger'[t] = s
  BY DEF Apply, Tasks
<1>3. timers' = IF IsOver(s) THEN timers \ {t} ELSE timers
  BY <1>2 DEF Apply
<1> HIDE DEF s
<1> QED BY <1>1, <1>2, <1>3, OneEvolves

\* sendAck.
LEMMA AckKeeps ==
  ASSUME IInv, NEW p \in Peers, NEW t, NEW ack \in Acks, Ack(p, t, ack)
  PROVE  IInv' /\ Evolves
<1>1. Evolves /\ DeadlineArmed' /\ timers' \subseteq Tasks'
  BY ApplyEvolves DEF Ack
<1> QED BY <1>1, PeersAlone DEF Ack

\* ackForRunner at the end of a run.
LEMMA RunnerEndsKeeps ==
  ASSUME IInv, NEW p \in Peers, NEW t, NEW ack \in Acks, RunnerEnds(p, t, ack)
  PROVE  IInv' /\ Evolves
<1>1. Evolves /\ DeadlineArmed' /\ timers' \subseteq Tasks'
  BY ApplyEvolves, LedgerAlone DEF RunnerEnds
<1> QED BY <1>1, InvariantAfter DEF RunnerEnds, IInv, TypeOK

\* cancelTask by an assignee.
LEMMA CancelAsAssigneeKeeps ==
  ASSUME IInv, NEW p \in Peers, NEW t, CancelAsAssignee(p, t)
  PROVE  IInv' /\ Evolves
BY AckKeeps DEF CancelAsAssignee, Acks

\* cancelTask by the sender, also when it stops half-way.
LEMMA CancelAsSenderKeeps ==
  ASSUME IInv, NEW t, CancelAsSender(t)
  PROVE  IInv' /\ Evolves
<1> DEFINE r     == ledger[t]
           going == OpenRows(r.rows)
           I     == Reached(r, going)
           s     == Finished(Mark(r, I, "canceled"), going)
<1>1. t \in Tasks /\ ~IsOver(r) /\ I # {} /\ ledger' = [ledger EXCEPT ![t] = s]
  BY DEF CancelAsSender
<1>2. Sound(r) /\ r \in Record
  BY <1>1, AllSound DEF IInv, Sound
<1>3. going \subseteq DOMAIN r.rows /\ I \subseteq going
  BY DEF OpenRows, Reached
<1>4. r.rows # <<>>
  BY <1>1, <1>2, <1>3, RowsAreRows
<1>5. Blocked(r, going) # {} => going \ I # {}
  <2> SUFFICES ASSUME NEW j \in Blocked(r, going) PROVE j \in going \ I
    BY DEF Blocked
  <2>1. j \in going /\ j \in Nat
    BY <1>2, <1>3, RowsAreRows DEF Blocked
  <2>2. ~(j < j)
    BY <2>1
  <2> QED BY <2>1, <2>2 DEF Reached
<1>6. "canceled" \in Statuses
  BY DEF Statuses, Terminal
<1>7. Follows(r, s)
  <2> HIDE DEF r, I
  <2> QED BY <1>1, <1>2, <1>3, <1>4, <1>5, <1>6, FinishedFollows
<1> HIDE DEF s, I, going
<1>8. Evolves /\ DeadlineArmed' /\ timers' \subseteq Tasks'
  BY <1>1, <1>7, OneEvolves DEF CancelAsSender
<1> QED BY <1>8, PeersAlone DEF CancelAsSender

\* taskInput, also when it stops half-way.
LEMMA TaskInputKeeps ==
  ASSUME IInv, NEW t, TaskInput(t)
  PROVE  IInv' /\ Evolves
<1> DEFINE r       == ledger[t]
           asking  == {i \in DOMAIN r.rows : r.rows[i].status = "input-required"}
           targets == IF asking # {} THEN asking ELSE DOMAIN r.rows
           I       == Reached(r, targets) \cap asking
           s       == Finished(Mark(r, I, "working"), targets)
<1>1. /\ t \in Tasks /\ ~IsOver(r) /\ Reached(r, targets) # {}
      /\ ledger' = [ledger EXCEPT ![t] = s]
  BY DEF TaskInput
<1>2. Sound(r) /\ r \in Record
  BY <1>1, AllSound DEF IInv, Sound
<1>3. targets \subseteq DOMAIN r.rows /\ I \subseteq OpenRows(r.rows)
  BY DEF OpenRows, Reached, Open
<1>4. r.rows # <<>>
  BY <1>1, <1>2, <1>3, RowsAreRows DEF Reached
<1>5. "working" \in Statuses /\ "working" \in Open
  BY DEF Statuses, Open
<1>6. Follows(r, s)
  <2> HIDE DEF r, I, targets
  <2> QED BY <1>1, <1>2, <1>3, <1>4, <1>5, FinishedFollows
<1> HIDE DEF s, I, targets, asking
<1>7. Evolves /\ DeadlineArmed' /\ timers' \subseteq Tasks'
  BY <1>1, <1>6, OneEvolves DEF TaskInput
<1> QED BY <1>7, PeersAlone DEF TaskInput

\* fireTaskTimeout.
LEMMA FireTaskTimeoutKeeps ==
  ASSUME IInv, NEW t, FireTaskTimeout(t)
  PROVE  IInv' /\ Evolves
<1> DEFINE s == IF IsOver(ledger[t]) THEN ledger[t]
                ELSE [Mark(ledger[t], OpenRows(ledger[t].rows), "timeout")
                        EXCEPT !.status = "timeout"]
<1>1. t \in Tasks /\ Sound(ledger[t])
  BY AllSound DEF FireTaskTimeout, IInv, TypeOK
<1>2. Follows(ledger[t], s)
  BY <1>1, SoundFollows, TimedOutFollows
<1>3. /\ Tasks' = Tasks
      /\ ledger'[t] = s
      /\ \A u \in Tasks \ {t} : ledger'[u] = ledger[u]
  BY <1>1 DEF FireTaskTimeout, Tasks
<1>4. IsOver(s)
  BY <1>1 DEF IsOver, Sound, Record, Terminal, Mark
<1> HIDE DEF s
<1>5. \A u \in Tasks : Follows(ledger[u], ledger'[u])
  BY <1>2, <1>3, AllSound, SoundFollows DEF IInv
<1>6. Evolves
  BY <1>3, <1>5 DEF Evolves, FireTaskTimeout
<1>7. DeadlineArmed'
  <2> SUFFICES ASSUME NEW u \in Tasks, ledger'[u].deadline, ~IsOver(ledger'[u])
               PROVE  u \in timers'
    BY <1>3 DEF DeadlineArmed, IsOver
  <2>1. u # t
    BY <1>3, <1>4
  <2>2. u \in timers
    BY <1>3, <2>1 DEF IInv, DeadlineArmed
  <2> QED BY <2>1, <2>2 DEF FireTaskTimeout
<1>8. timers' \subseteq Tasks'
  BY <1>3 DEF FireTaskTimeout, IInv, TypeOK
<1> QED BY <1>6, <1>7, <1>8, PeersAlone DEF FireTaskTimeout

\* evictOverflowTasks removes nothing that is still open.
LEMMA OnlyOverIsEvicted ==
  ASSUME NEW tasks, NEW evicted \in Overflow(tasks)
  PROVE  \A t \in evicted : t \in Tasks /\ IsOver(ledger[t])
<1> DEFINE over   == {t \in Tasks : IsOver(ledger[t])}
           excess == Cardinality(tasks) - MaxTasks
<1>1. Overflow(tasks) = IF excess <= 0 THEN {{}}
                        ELSE IF Cardinality(over) <= excess THEN {over}
                        ELSE kSubset(excess, over)
  BY DEF Overflow
<1>2. evicted \subseteq over
  <2> HIDE DEF over, excess
  <2> QED BY <1>1 DEF kSubset
<1> QED BY <1>2

\* sendTask, with what it evicts from the ledger.
LEMMA SendTaskKeeps ==
  ASSUME IInv, NEW from \in Peers, NEW to \in Peers \cup Groups \cup {Broadcast},
         NEW deadline \in BOOLEAN, NEW order, NEW kept, NEW queued,
         SendTask(from, to, deadline, order, kept, queued)
  PROVE  IInv' /\ Evolves
<1> DEFINE new == sent + 1
           rows == [i \in DOMAIN order |-> [peer |-> order[i], status |-> "pending"]]
           r == [from |-> from, status |-> "pending", deadline |-> deadline, rows |-> rows]
<1>1. PICK evicted \in Overflow(Tasks \cup {new}) :
        /\ ledger' = [t \in (Tasks \cup {new}) \ evicted |-> IF t = new THEN r ELSE ledger[t]]
        /\ timers' = (timers \ evicted) \cup {t \in {new} : deadline}
  BY DEF SendTask
<1>2. sent \in Nat /\ new \in 1..MaxSent /\ sent' = new
  BY TaskLedgerAssumption DEF SendTask, IInv, TypeOK
<1>3. new \notin Tasks
  BY <1>2 DEF IInv, TypeOK
<1>4. \A t \in evicted : t \in Tasks /\ IsOver(ledger[t])
  BY OnlyOverIsEvicted
<1>5. Audience(from, to) \subseteq Peers
  BY TaskLedgerAssumption DEF Audience, Known, IInv, TypeOK
<1>6. order \in Seq(Peers)
  <2>1. Cardinality(Audience(from, to)) \in Nat
    BY <1>5, TaskLedgerAssumption, FS_Subset, FS_CardinalityType
  <2>2. order \in [1..Cardinality(Audience(from, to)) -> Peers]
    BY <1>5 DEF SendTask, Orders
  <2> QED BY <2>1, <2>2
<1>7. Sound(r) /\ OpenRows(rows) = DOMAIN rows /\ ~IsOver(r)
  <2>1. "pending" \in Statuses /\ "pending" \in Open /\ "pending" \notin Terminal
    BY DEF Statuses, Open, Terminal
  <2>2. rows \in Seq(Row)
    <3>1. DOMAIN order = 1..Len(order) /\ Len(order) \in Nat
      BY <1>6
    <3>2. \A i \in DOMAIN order : order[i] \in Peers
      BY <1>6
    <3>3. \A i \in DOMAIN order : [peer |-> order[i], status |-> "pending"] \in Row
      BY <2>1, <3>2 DEF Row
    <3>4. rows \in [1..Len(order) -> Row]
      BY <3>1, <3>3
    <3> QED BY <3>1, <3>4
  <2>3. OpenRows(rows) = DOMAIN rows
    BY <2>1 DEF OpenRows
  <2>4. r \in Record
    BY <2>1, <2>2 DEF Record
  <2>5. rows # <<>> => DOMAIN rows # {}
    BY <2>4, RowsAreRows
  <2> QED BY <2>1, <2>3, <2>4, <2>5 DEF Sound, IsOver
<1> HIDE DEF r
<1>8. /\ Tasks' = (Tasks \cup {new}) \ evicted
      /\ new \in Tasks' /\ ledger'[new] = r
      /\ \A t \in Tasks \ evicted : ledger'[t] = ledger[t]
  BY <1>1, <1>3, <1>4 DEF Tasks
<1>9. Evolves
  <2>1. \A t \in Tasks : Follows(ledger[t], ledger[t])
    BY AllSound, SoundFollows DEF IInv
  <2>2. OpenRows(r.rows) = DOMAIN r.rows
    BY <1>7 DEF r
  <2> QED BY <1>2, <1>3, <1>4, <1>7, <1>8, <2>1, <2>2 DEF Evolves
<1>10. DeadlineArmed'
  <2> SUFFICES ASSUME NEW t \in Tasks', ledger'[t].deadline, ~IsOver(ledger'[t])
               PROVE  t \in timers'
    BY DEF DeadlineArmed, IsOver
  <2>1. CASE t = new
    BY <1>1, <1>8, <2>1 DEF r
  <2>2. CASE t # new
    <3>1. t \in timers
      BY <1>8, <2>2 DEF IInv, DeadlineArmed
    <3> QED BY <1>1, <1>8, <3>1
  <2> QED BY <2>1, <2>2
<1>11. timers' \subseteq Tasks'
  BY <1>1, <1>8 DEF IInv, TypeOK
<1>12. 1..sent \subseteq 1..new /\ new \in 1..new /\ sent <= new /\ new \in 0..MaxSent
  BY <1>2, TaskLedgerAssumption
<1>13. held' \in [Peers -> SUBSET (1..new)] /\ running' \in [Peers -> SUBSET (1..new)]
  BY <1>12 DEF SendTask, IInv, TypeOK
<1> QED BY <1>2, <1>9, <1>10, <1>11, <1>12, <1>13, InvariantAfter DEF SendTask, IInv, TypeOK

-----------------------------------------------------------------------------
(* The theorems.                                                           *)

\* The empty hub satisfies the inductive invariant.
LEMMA InvariantAtStart == Init => IInv
BY TaskLedgerAssumption DEF Init, IInv, TypeOK, OverTogether, DeadlineArmed, Tasks

\* Every step keeps the inductive invariant, and every record follows its past.
LEMMA StepKeeps ==
  ASSUME IInv, [Next]_vars
  PROVE  IInv' /\ Evolves
<1>1. CASE Next
  <2>1. ASSUME NEW p \in Peers, Register(p) PROVE IInv' /\ Evolves
    BY <2>1, RegisterKeeps
  <2>2. ASSUME NEW p \in Peers, Unregister(p) PROVE IInv' /\ Evolves
    BY <2>2, UnregisterKeeps
  <2>3. ASSUME NEW idle, NEW overdue, NEW evicted, GcTick(idle, overdue, evicted)
        PROVE  IInv' /\ Evolves
    BY <2>3, GcTickKeeps
  <2>4. ASSUME NEW p \in Peers, NEW gone, NEW evicted, MoveMail(p, gone, evicted)
        PROVE  IInv' /\ Evolves
    BY <2>4, MoveMailKeeps
  <2>5. ASSUME NEW from \in Peers, NEW to \in Peers \cup Groups \cup {Broadcast},
               NEW deadline \in BOOLEAN, NEW order, NEW kept, NEW queued,
               SendTask(from, to, deadline, order, kept, queued)
        PROVE  IInv' /\ Evolves
    BY <2>5, SendTaskKeeps
  <2>6. ASSUME NEW p \in Peers, NEW t, NEW ack \in ClientAcks, Ack(p, t, ack)
        PROVE  IInv' /\ Evolves
    BY <2>6, AckKeeps, OpenOrTerminal
  <2>7. ASSUME NEW p \in Peers, NEW t, NEW ack \in {"done", "failed"}, RunnerEnds(p, t, ack)
        PROVE  IInv' /\ Evolves
    BY <2>7, RunnerEndsKeeps DEF Acks, ClientAcks
  <2>8. ASSUME NEW p \in Peers, NEW t, CancelAsAssignee(p, t) PROVE IInv' /\ Evolves
    BY <2>8, CancelAsAssigneeKeeps
  <2>9. ASSUME NEW t, CancelAsSender(t) PROVE IInv' /\ Evolves
    BY <2>9, CancelAsSenderKeeps
  <2>10. ASSUME NEW t, TaskInput(t) PROVE IInv' /\ Evolves
    BY <2>10, TaskInputKeeps
  <2>11. ASSUME NEW t, FireTaskTimeout(t) PROVE IInv' /\ Evolves
    BY <2>11, FireTaskTimeoutKeeps
  <2> QED BY <1>1, <2>1, <2>2, <2>3, <2>4, <2>5, <2>6, <2>7, <2>8, <2>9, <2>10, <2>11
          DEF Next
<1>2. CASE UNCHANGED vars
  <2>1. Evolves /\ DeadlineArmed' /\ timers' \subseteq Tasks'
    BY <1>2, LedgerAlone DEF vars
  <2> QED BY <1>2, <2>1, PeersAlone DEF vars
<1> QED BY <1>1, <1>2

\* The inductive invariant holds in every state of every instance.
THEOREM Invariant == Spec => []IInv
<1>1. Init => IInv
  BY InvariantAtStart
<1>2. IInv /\ [Next]_vars => IInv'
  BY StepKeeps
<1> QED BY <1>1, <1>2, PTL DEF Spec

\* The maps of the hub always hold what their declarations say.
THEOREM TypeCorrect == Spec => []TypeOK
<1>1. IInv => TypeOK
  BY DEF IInv
<1> QED BY <1>1, Invariant, PTL

\* A task is over exactly when all of its rows are, after any calls of any
\* peers, for any number of assignees.
THEOREM TasksEndTogether == Spec => []OverTogether
<1>1. IInv => OverTogether
  BY DEF IInv
<1> QED BY <1>1, Invariant, PTL

\* No call leaves an open task with a deadline without its SLA timer.
THEOREM DeadlinesAreArmed == Spec => []DeadlineArmed
<1>1. IInv => DeadlineArmed
  BY DEF IInv
<1> QED BY <1>1, Invariant, PTL

\* What an assignee has settled is in the ledger as long as the task is.
LEMMA SettledStays ==
  ASSUME IInv, Evolves, NEW t \in Tasks, t \in Tasks'
  PROVE  /\ Settled(t) \subseteq Settled(t)'
         /\ IsOver(ledger[t]) => IsOver(ledger'[t]) /\ Settled(t)' = Settled(t)
<1> DEFINE r == ledger[t]
           s == ledger'[t]
<1>1. Sound(r) /\ r \in Record
  BY AllSound DEF IInv, Sound
<1>2. Follows(r, s)
  <2>1. t # sent + 1
    BY TaskLedgerAssumption DEF IInv, TypeOK
  <2> QED BY <2>1 DEF Evolves
<1>3. s \in Record
  BY <1>2 DEF Follows, Sound
<1> HIDE DEF r, s
<1>4. ASSUME NEW i \in DOMAIN r.rows \ OpenRows(r.rows)
      PROVE  i \in DOMAIN s.rows \ OpenRows(s.rows) /\ s.rows[i] = r.rows[i]
  BY <1>2, <1>4 DEF Follows, OpenRows
<1>5. Settled(t) = {<<i, r.rows[i].status>> : i \in DOMAIN r.rows \ OpenRows(r.rows)}
  BY DEF Settled, r
<1>6. Settled(t)' = {<<i, s.rows[i].status>> : i \in DOMAIN s.rows \ OpenRows(s.rows)}
  BY DEF Settled, s, Tasks
<1>7. Settled(t) \subseteq Settled(t)'
  BY <1>4, <1>5, <1>6
<1>8. ASSUME IsOver(r) PROVE IsOver(s) /\ Settled(t)' = Settled(t)
  <2>1. IsOver(s)
    BY <1>2, <1>8 DEF Follows
  <2>2. OpenRows(r.rows) = {}
    BY <1>1, <1>8, RowsAreRows DEF Sound, OpenRows
  <2>3. DOMAIN s.rows = DOMAIN r.rows
    BY <1>2 DEF Follows
  <2> QED BY <1>4, <1>5, <1>6, <2>1, <2>2, <2>3
<1> QED BY <1>7, <1>8 DEF r, s

\* Every step of the ledger is a step or a stutter of the contract, for each task.
LEMMA ContractStep ==
  ASSUME IInv, Evolves, sent' \in 0..MaxSent, NEW t \in TaskIds
  PROVE  \/ Phase(t)' = Phase(t) /\ Settled(t)' = Settled(t)
         \/ Phase(t) = "unsent" /\ Phase(t)' = "open" /\ Settled(t)' = {}
         \/ /\ Phase(t) = "open"
            /\ Phase(t)' \in {"open", "over"}
            /\ Settled(t) \subseteq Settled(t)'
         \/ Phase(t) = "over" /\ Phase(t)' = "forgotten" /\ Settled(t)' = {}
<1>1. /\ sent \in Nat /\ t \in Nat
      /\ sent' = sent \/ sent' = sent + 1
      /\ \A u \in Tasks : u <= sent
  BY TaskLedgerAssumption DEF IInv, TypeOK, Evolves, TaskIds
<1>2. CASE t \in Tasks /\ t \in Tasks'
  <2>1. ~(t > sent) /\ ~(t > sent')
    BY <1>1, <1>2
  <2>2. Phase(t) = IF IsOver(ledger[t]) THEN "over" ELSE "open"
    BY <1>2, <2>1 DEF Phase
  <2>3. Phase(t)' = IF IsOver(ledger'[t]) THEN "over" ELSE "open"
    BY <1>2, <2>1 DEF Phase, IsOver, Tasks
  <2> QED BY <1>2, <2>2, <2>3, SettledStays
<1>3. CASE t \in Tasks /\ t \notin Tasks'
  <2>1. IsOver(ledger[t]) /\ ~(t > sent) /\ ~(t > sent')
    BY <1>1, <1>3 DEF Evolves
  <2>2. Phase(t) = "over" /\ Phase(t)' = "forgotten" /\ Settled(t)' = {}
    BY <1>3, <2>1 DEF Phase, Settled, Tasks
  <2> QED BY <2>2
<1>4. CASE t \notin Tasks /\ t \in Tasks'
  <2>1. /\ t = sent + 1 /\ sent' = sent + 1 /\ ~IsOver(ledger'[t])
        /\ OpenRows(ledger'[t].rows) = DOMAIN ledger'[t].rows
    BY <1>4 DEF Evolves
  <2>2. Phase(t) = "unsent"
    BY <1>1, <2>1 DEF Phase
  <2>3. Phase(t)' = "open"
    BY <1>1, <1>4, <2>1 DEF Phase, IsOver, Tasks
  <2>4. Settled(t)' = {}
    BY <2>1 DEF Settled, Tasks, OpenRows
  <2> QED BY <2>2, <2>3, <2>4
<1>5. CASE t \notin Tasks /\ t \notin Tasks'
  <2>1. Settled(t) = {} /\ Settled(t)' = {}
    BY <1>5 DEF Settled, Tasks
  <2>2. t > sent <=> t > sent'
    BY <1>1, <1>5 DEF Evolves
  <2>3. Phase(t) = Phase(t)'
    BY <1>5, <2>2 DEF Phase, Tasks
  <2> QED BY <2>1, <2>3
<1> QED BY <1>2, <1>3, <1>4, <1>5

\* The ledger implements TaskContract: whatever the hub does, a task is open
\* until it is over, over for good, and forgotten only then; and what a row has
\* settled is never rewritten.
THEOREM LedgerKeepsContract == Spec => KeepsContract
<1>1. Init => Contract!Init
  BY TaskLedgerAssumption
     DEF Init, Contract!Init, Phase, Settled, Tasks, TaskIds
<1>2. IInv /\ IInv' /\ [Next]_vars => [Contract!Next]_(Contract!vars)
  <2> SUFFICES ASSUME IInv, IInv', [Next]_vars PROVE Contract!Next
    OBVIOUS
  <2>1. Evolves /\ sent' \in 0..MaxSent
    BY StepKeeps DEF IInv, TypeOK
  <2> QED BY <2>1, ContractStep DEF Contract!Next, Contract!Step
<1> QED BY <1>1, <1>2, Invariant, PTL DEF Spec, KeepsContract, Contract!Spec

=============================================================================
