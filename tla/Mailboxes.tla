------------------------------ MODULE Mailboxes ------------------------------
(***************************************************************************)
(* The mailboxes of a hub: the registry of live and parked peers, routing  *)
(* (compose, dispatch, deliver), the tools a peer takes mail with, leases, *)
(* dead letters and the idle GC, for messages that carry no ledger row     *)
(* (chat, notice, and an ack of one).                                      *)
(*                                                                         *)
(* Every action is one synchronous call of the hub: a tool call of a       *)
(* registered peer, a tick of the GC timer, or the passing of an instant   *)
(* (a lease or a message reaches its expiresAt, a wait spends its budget). *)
(***************************************************************************)
EXTENDS Mailbox

CONSTANTS
  Broadcast,    \* BROADCAST, the address `all`
  Groups,       \* ids of group channels
  Members,      \* the members of each group
  Shapes,       \* the priority, thread and deadline a sender may choose
  Filters,      \* the from and thread filters a waiter may use
  Batches,      \* the values of maxMessages
  RateLimited,  \* TRUE when ratePerMin > 0: the bucket may refuse a message
  MaxSeq,       \* bound: messages composed
  MaxId,        \* bound: ids of messages and notices
  MaxHandOuts,  \* bound: hand-outs of one message under a lease
  MaxWaiters    \* bound: waits pending at one peer

ASSUME MailboxesAssumption ==
  /\ Members \in [Groups -> SUBSET Peers]
  /\ Groups \cap Peers = {}
  /\ Broadcast \notin Peers \cup Groups
  /\ Shapes \subseteq [prio : 0..2, thread : Threads \cup {None}, mortal : BOOLEAN]
  /\ Filters \subseteq [from : Peers \cup {Hub, None}, thread : Threads \cup {None}]
  /\ Batches \subseteq Nat \ {0}
  /\ RateLimited \in BOOLEAN
  /\ MaxSeq \in Nat /\ MaxSeq <= NoticeGap
  /\ MaxId \in Nat /\ MaxHandOuts \in Nat /\ MaxWaiters \in Nat

VARIABLES
  registered,  \* lastSeen.keys()
  parked,      \* parkedAt.keys()
  box,         \* the mailbox of each peer
  seq,         \* seqCounter, as far as composed messages move it
  due          \* ids of messages whose expiresAt has passed

vars == <<registered, parked, box, seq, due>>

Init ==
  /\ registered = {}
  /\ parked = {}
  /\ box = [p \in Peers |-> EmptyBox]
  /\ seq = 0
  /\ due = {}

Known == registered \cup parked

OwnsMailbox(p) == p \in parked \/ box[p].present

-----------------------------------------------------------------------------
(* The registry.                                                           *)

Register(p, reclaim) ==
  /\ p \notin registered
  /\ reclaim \/ ~OwnsMailbox(p)
  /\ registered' = registered \cup {p}
  /\ parked' = parked \ {p}
  /\ UNCHANGED <<box, seq, due>>

\* bridge_unregister: a peer leaves, or a manager kicks a live or parked one.
Unregister(p) ==
  /\ p \in Known
  /\ registered' = registered \ {p}
  /\ parked' = parked \ {p}
  /\ box' = [box EXCEPT ![p] = ResolveWaiters(DropMailboxState(@))]
  /\ UNCHANGED <<seq, due>>

\* Mutant: the tick parks a peer without its mail.
GcTickDropsIdle(idle, overdue) ==
  /\ idle \subseteq registered
  /\ overdue \subseteq parked \ registered
  /\ registered' = registered \ idle
  /\ parked' = (parked \cup idle) \ overdue
  /\ box' = [p \in Peers |-> IF p \in idle \cup overdue
                             THEN ResolveWaiters(DropMailboxState(box[p]))
                             ELSE ReapLeases(box[p])]
  /\ UNCHANGED <<seq, due>>

\* Mutant: the tick leaves the leases to the next take.
GcTickReapsNothing(idle, overdue) ==
  /\ idle \subseteq registered
  /\ overdue \subseteq parked \ registered
  /\ registered' = registered \ idle
  /\ parked' = (parked \cup idle) \ overdue
  /\ box' = [p \in Peers |-> CASE p \in overdue -> DropMailboxState(box[p])
                              [] p \in idle    -> ResolveWaiters(box[p])
                              [] OTHER         -> box[p]]
  /\ UNCHANGED <<seq, due>>

\* gcTick parks the idle peers, reaps the leases of every peer and drops the
\* parked mailboxes whose time is over.  A peer parked by this very tick is
\* not overdue.
GcTick(idle, overdue) ==
  /\ idle \subseteq registered
  /\ overdue \subseteq parked \ registered
  /\ registered' = registered \ idle
  /\ parked' = (parked \cup idle) \ overdue
  /\ box' = [p \in Peers |->
               LET quiet  == IF p \in idle THEN ResolveWaiters(box[p]) ELSE box[p]
                   reaped == ReapLeases(quiet)
               IN  IF p \in overdue THEN DropMailboxState(reaped) ELSE reaped]
  /\ UNCHANGED <<seq, due>>

-----------------------------------------------------------------------------
(* Routing.                                                                *)

\* Who a message reaches; empty for an address compose refuses.
Targets(from, to) ==
  CASE to = Broadcast                            -> Known \ {from}
    [] to \in Groups /\ from \in Members[to]     -> Members[to] \ {from}
    [] to \in Known                              -> {to}
    [] OTHER                                     -> {}

Refused(from, to) ==
  \/ to \in Groups /\ from \notin Members[to]
  \/ to \in Peers /\ to \notin Known

\* send: compose, then dispatch to every target.  `late` is a message whose
\* sender gave it a deadline already behind it.
Send(from, to, shape, late, admitted) ==
  /\ seq < MaxSeq
  /\ from \in registered
  /\ ~Refused(from, to)
  /\ late => shape.mortal
  /\ seq' = seq + 1
  /\ due' = IF late THEN due \cup {seq + 1} ELSE due
  /\ LET m == [id |-> seq + 1, from |-> from, prio |-> shape.prio,
               thread |-> shape.thread, mortal |-> shape.mortal]
     IN  box' = [p \in Peers |-> IF p \in Targets(from, to)
                                 THEN Deliver(box[p], m, late, p \in admitted)
                                 ELSE box[p]]
  /\ UNCHANGED <<registered, parked>>

-----------------------------------------------------------------------------
(* Taking mail.                                                            *)

\* The bounds on leases: hand-outs of one message, and notices about the loss
\* of notices, which a taker that never commits can go on producing.
MayLease(p) ==
  /\ \A i \in DOMAIN box[p].attempts : box[p].attempts[i] < MaxHandOuts
  /\ \A i \in box[p].offered : i <= MaxId

PollMail(p, from, manual) ==
  /\ p \in registered
  /\ manual => MayLease(p)
  /\ box' = [box EXCEPT ![p] = Poll(@, due, from, manual)]
  /\ UNCHANGED <<registered, parked, seq, due>>

WaitForMail(p, filter, manual, most) ==
  /\ p \in registered
  /\ manual => MayLease(p)
  /\ Len(box[p].waiters) < MaxWaiters
  /\ box' = [box EXCEPT ![p] =
               Wait(@, due, [from |-> filter.from, thread |-> filter.thread,
                             manual |-> manual], most)]
  /\ UNCHANGED <<registered, parked, seq, due>>

CommitMail(p, ids) ==
  /\ p \in registered
  /\ box' = [box EXCEPT ![p] = Commit(@, ids)]
  /\ UNCHANGED <<registered, parked, seq, due>>

NackMail(p, ids) ==
  /\ p \in registered
  /\ box' = [box EXCEPT ![p] = Nack(@, ids)]
  /\ UNCHANGED <<registered, parked, seq, due>>

-----------------------------------------------------------------------------
(* Instants.                                                               *)

WaitEnds(p, i) ==
  /\ i \in DOMAIN box[p].waiters
  /\ box' = [box EXCEPT ![p] = EndWait(@, i)]
  /\ UNCHANGED <<registered, parked, seq, due>>

LeaseLapses(p) ==
  /\ \E l \in Elements(box[p].leases) : ~l.lapsed
  /\ box' = [box EXCEPT ![p] = LapseLease(@)]
  /\ UNCHANGED <<registered, parked, seq, due>>

\* The deadline of a message still held somewhere passes.
DeadlinePasses(i) ==
  /\ i \notin due
  /\ \E p \in Peers :
       \E m \in Elements(box[p].queue) \cup Elements(Msgs(box[p].leases))
                \cup Elements(box[p].dead) : m.id = i /\ m.mortal
  /\ due' = due \cup {i}
  /\ UNCHANGED <<registered, parked, box, seq>>

-----------------------------------------------------------------------------

Addresses == Peers \cup Groups \cup {Broadcast}

\* The peers a token bucket admits a message for.
Admissions == IF RateLimited THEN SUBSET Peers ELSE {Peers}

Tick(owners) ==
  \E idle \in SUBSET (registered \cap owners), overdue \in SUBSET (parked \cap owners) :
    GcTick(idle, overdue)

\* The steps in which only `senders` send, only to `addresses`, and only
\* `owners` come, go and take their mail.
NextAmong(senders, addresses, owners) ==
  \/ \E p \in owners, reclaim \in BOOLEAN : Register(p, reclaim)
  \/ \E p \in owners : Unregister(p)
  \/ Tick(owners)
  \/ \E p \in senders, to \in addresses, shape \in Shapes, late \in BOOLEAN,
        admitted \in Admissions : Send(p, to, shape, late, admitted)
  \/ \E p \in owners, from \in {f.from : f \in Filters}, manual \in BOOLEAN :
        PollMail(p, from, manual)
  \/ \E p \in owners, filter \in Filters, manual \in BOOLEAN, most \in Batches :
        WaitForMail(p, filter, manual, most)
  \/ \E p \in owners : \E ids \in SUBSET DOMAIN box[p].attempts : CommitMail(p, ids)
  \/ \E p \in owners :
        \E ids \in SUBSET (Ids(Msgs(box[p].leases)) \cup Ids(box[p].dead)) :
          NackMail(p, ids)
  \/ \E p \in owners : \E i \in DOMAIN box[p].waiters : WaitEnds(p, i)
  \/ \E p \in owners : LeaseLapses(p)
  \/ \E i \in 1..seq : DeadlinePasses(i)

Next == NextAmong(Peers, Addresses, Peers)

Spec == Init /\ [][Next]_vars

-----------------------------------------------------------------------------
(* Properties.                                                             *)

\* The types: every map of the hub holds what its declaration says, a peer is
\* never both live and parked, and a lease counter is never zero.  A mailbox
\* never outgrows maxQueue nor the dead letters MAX_DEAD_LETTERS, also when
\* leases come back to a mailbox that has filled up since, and every path into
\* the queue keeps the more urgent first.
TypeOK ==
  /\ registered \subseteq Peers
  /\ parked \subseteq Peers
  /\ registered \cap parked = {}
  /\ \A p \in Peers : BoxOK(box[p])
  /\ seq \in 0..MaxSeq
  /\ due \subseteq 1..seq

\* deliver, handOut, reapLeases, requeue, deadLetter, commit and nack move a
\* message between the queue, the leases and the dead letters: at no time is
\* it in two of them, or twice in one, and no settled message is in any.
EveryCopyInOnePlace == \A p \in Peers : OnePlace(box[p])

\* No path through the hub loses a message in silence: whatever a mailbox was
\* offered is still held, or was read, or is in the drop counters, or went
\* with the mailbox of a peer that left or never came back.
NothingLostInSilence ==
  \A p \in Peers : LET x == box[p] IN
    x.offered = Held(x) \cup x.read \cup x.dropped \cup x.discarded

\* What a step from mailbox x to mailbox y gives the owner.
Given(x, y) ==
  {i \in DOMAIN y.attempts : Attempts(y, i) > Attempts(x, i)} \cup (y.read \ x.read)

\* A message whose deadline has passed is never handed out, on the direct way
\* to a waiter, by a take, or after it came back from a lease or a dead letter.
\* The commit of a lease only settles what was given before.
ExpiredNeverHandedOut ==
  [][\A p \in Peers :
       \/ Given(box[p], box'[p]) \cap due' = {}
       \/ \E ids \in SUBSET Ids(Msgs(box[p].leases)) : CommitMail(p, ids)]_vars

\* The idle GC parks, it does not lose: mail is discarded only when its owner
\* ends up neither registered nor parked.
OnlyLeavingDiscards ==
  [][\A p \in Peers : box'[p].discarded # box[p].discarded
                        => p \notin registered' \cup parked']_vars

\* The count of hand-outs is kept as long as the message is: only reviving a
\* dead letter resets it.  A nack followed by a commit, a sweep, or a requeue
\* that overflows must not buy a message more hand-outs (commit, hub.ts).
AttemptsAreKept ==
  [][\A p \in Peers :
       \A i \in DOMAIN box[p].attempts \ DOMAIN box'[p].attempts :
         i \in Ids(box[p].dead) \/ i \notin Held(box'[p])]_vars

\* Nothing but a nack offers an exhausted message again: not the tick, and not
\* a take or a wait that reaps the lease and drains the queue in one call.
OnlyNackRetriesExhausted ==
  [][\A p \in Peers :
       \/ \A i \in Ids(Msgs(box[p].leases)) :
            Exhausted(box[p], i) =>
              /\ i \notin Ids(box'[p].queue)
              /\ Attempts(box'[p], i) <= Attempts(box[p], i)
       \/ \E ids \in SUBSET Held(box[p]) : NackMail(p, ids)]_vars

\* The mailboxes keep the contract of MailContract.
Contract == INSTANCE MailContract WITH
  pending   <- [p \in Peers |-> Held(box[p])],
  read      <- [p \in Peers |-> box[p].read],
  dropped   <- [p \in Peers |-> box[p].dropped],
  discarded <- [p \in Peers |-> box[p].discarded]

KeepsContract == Contract!Spec

\* The timers of the process keep running: leases reach their expiresAt, and
\* setInterval goes on calling gcTick, whoever is idle or overdue at the time.
Timers(owners) ==
  /\ \A p \in owners : WF_vars(LeaseLapses(p))
  /\ WF_vars(Tick(owners))

\* A taker that never commits does not keep a message from everybody for
\* ever: time and again it is back in the queue, dead-lettered or settled.
LeasesEnd ==
  \A p \in Peers, i \in 1..(MaxSeq + NoticeGap) :
    []<>(i \notin Ids(Msgs(box[p].leases)))

=============================================================================
