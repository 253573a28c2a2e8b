------------------------------- MODULE Mailbox -------------------------------
(***************************************************************************)
(* One peer's mailbox of the hub (src/src/hub.ts, class AgentHub).         *)
(*                                                                         *)
(* The hub keeps the state of a mailbox in several maps keyed by peer id:  *)
(* `queues`, `leases`, `deadLetters`, `leaseAttempts` and `waiters`.  A    *)
(* box is the record of what those maps hold for one peer, and every       *)
(* operator below is one method of the hub as a function from the box      *)
(* before the call to the box after it.  The hub is single-threaded, so a  *)
(* method runs to its end before another one starts.                       *)
(*                                                                         *)
(* Time is abstracted: a lease carries whether its expiresAt has passed,   *)
(* and the operators that look at a message's own deadline take the set    *)
(* due of the ids whose deadline has passed.                               *)
(***************************************************************************)
EXTENDS Naturals, FiniteSets, SequencesExt, Lists

CONSTANTS
  Peers,        \* peer ids
  Hub,          \* HUB_PEER, the sender of the hub's own notices
  Threads,      \* thread ids
  None,         \* an absent filter, an absent threadId
  MaxQueue,     \* HubOptions.maxQueue
  MaxAttempts,  \* HubOptions.maxAttempts, 0 for no limit
  MaxDead,      \* MAX_DEAD_LETTERS
  NoticeGap     \* the notice about the loss of message i has id i + NoticeGap

ASSUME MailboxAssumption ==
  /\ MaxQueue \in Nat \ {0}
  /\ MaxAttempts \in Nat
  /\ MaxDead \in Nat \ {0}
  /\ NoticeGap \in Nat \ {0}
  /\ Hub \notin Peers
  /\ None \notin Peers \cup {Hub} \cup Threads

Message == [id : Nat, from : Peers \cup {Hub}, prio : 0..2,
            thread : Threads \cup {None}, mortal : BOOLEAN]
Lease   == [msg : Message, lapsed : BOOLEAN]
Waiter  == [from : Peers \cup {Hub, None}, thread : Threads \cup {None},
            manual : BOOLEAN]

(***************************************************************************)
(* The box.  `present` is queues.has(peer).  `attempts` has a key for each *)
(* message handed out under a lease and not forgotten since.  `offered`,   *)
(* `read`, `dropped` and `discarded` are history: the ids the mailbox was  *)
(* asked to take, gave to its owner for good, dropped with a count in the  *)
(* owner's counters, and lost with the whole mailbox.                      *)
(***************************************************************************)
EmptyBox ==
  [present   |-> FALSE,
   queue     |-> <<>>,
   leases    |-> <<>>,
   dead      |-> <<>>,
   attempts  |-> [i \in {} |-> 0],
   waiters   |-> <<>>,
   offered   |-> {},
   read      |-> {},
   dropped   |-> {},
   discarded |-> {}]

-----------------------------------------------------------------------------
(* Sequences and counters.                                                 *)

Ids(s)      == {s[i].id : i \in DOMAIN s}
Msgs(ls)    == [i \in DOMAIN ls |-> ls[i].msg]

Held(b) == Ids(b.queue) \cup Ids(Msgs(b.leases)) \cup Ids(b.dead)

Attempts(b, i) == IF i \in DOMAIN b.attempts THEN b.attempts[i] ELSE 0

CountHandOut(f, I) ==
  [i \in DOMAIN f \cup I |->
     (IF i \in DOMAIN f THEN f[i] ELSE 0) + (IF i \in I THEN 1 ELSE 0)]

Forget(f, I) == [i \in DOMAIN f \ I |-> f[i]]

-----------------------------------------------------------------------------
(* The order of a mailbox.                                                 *)

\* insertByPriority for one message: behind everything at least as urgent.
InsertOne(queue, m) ==
  LET ahead == {i \in DOMAIN queue : queue[i].prio >= m.prio}
      at    == IF ahead = {} THEN 0
               ELSE CHOOSE i \in ahead : \A j \in ahead : j <= i
  IN  InsertAt(queue, at + 1, m)

InsertByPriority(queue, messages) ==
  LET after[i \in 0..Len(messages)] ==
        IF i = 0 THEN queue ELSE InsertOne(after[i - 1], messages[i])
  IN  after[Len(messages)]

\* The first message of the run of equal priorities that ends the queue.
LowestPriorityIndex(queue) ==
  LET run == {i \in DOMAIN queue :
                \A j \in i..Len(queue) : queue[j].prio = queue[Len(queue)].prio}
  IN  CHOOSE i \in run : \A j \in run : i <= j

DrainFrom(queue, from) ==
  KeepIn(queue, {m \in Elements(queue) : m.from \in {from, Hub}})

-----------------------------------------------------------------------------
(* Waiters and hand-outs.                                                  *)

MatchesWaiter(w, m) ==
  /\ m.from = Hub \/ w.from \in {None, m.from}
  /\ w.thread \in {None, m.thread}

Listeners(b, m) == {i \in DOMAIN b.waiters : MatchesWaiter(b.waiters[i], m)}

\* handOut for a list of messages: a lease for each, or gone for good.
HandOut(b, messages, manual) ==
  IF manual
  THEN [b EXCEPT !.attempts = CountHandOut(@, Ids(messages)),
                 !.leases   = @ \o [i \in DOMAIN messages |->
                                      [msg |-> messages[i], lapsed |-> FALSE]]]
  ELSE [b EXCEPT !.read = @ \cup Ids(messages)]

\* The first waiter that listens takes the message and leaves the list.
HandToWaiter(b, m) ==
  LET first == CHOOSE i \in Listeners(b, m) : \A j \in Listeners(b, m) : i <= j
  IN  HandOut([b EXCEPT !.waiters = RemoveAt(@, first),
                        !.offered = @ \cup {m.id}],
              <<m>>, b.waiters[first].manual)

\* Never queues: a notice nobody is waiting for is not made at all.
DeliverToWaiter(b, m) ==
  IF Listeners(b, m) = {} THEN b ELSE HandToWaiter(b, m)

-----------------------------------------------------------------------------
(* Losses that are counted.                                                *)

NoticeAbout(m) == [id |-> m.id + NoticeGap, from |-> Hub, prio |-> 0,
                   thread |-> None, mortal |-> FALSE]

\* countDrop with reason `overflow` or `rate`: only a waiting owner hears it.
CountDrop(b, m) ==
  DeliverToWaiter([b EXCEPT !.dropped = @ \cup {m.id}], NoticeAbout(m))

\* countDrop with reason `expired`: the notice is queued while there is room.
CountExpired(b, m) ==
  IF Len(b.queue) < MaxQueue
  THEN [b EXCEPT !.dropped = @ \cup {m.id},
                 !.present = TRUE,
                 !.queue   = Append(@, NoticeAbout(m)),
                 !.offered = @ \cup {NoticeAbout(m).id}]
  ELSE CountDrop(b, m)

\* A message that leaves the mailbox by overflow forgets its attempts first.
Evict(b, m) == CountDrop([b EXCEPT !.attempts = Forget(@, {m.id})], m)

EvictAll(b, messages) ==
  LET after[i \in 0..Len(messages)] ==
        IF i = 0 THEN b ELSE Evict(after[i - 1], messages[i])
  IN  after[Len(messages)]

\* Mutant: the surplus of the dead letters vanishes.
DeadLetterSilently(b, messages) ==
  LET dead == b.dead \o messages
  IN  [b EXCEPT !.dead = SubSeq(dead, (IF Len(dead) > MaxDead THEN Len(dead) - MaxDead
                                      ELSE 0) + 1, Len(dead))]

\* The list of dead letters is bounded, and its oldest entries go first.
DeadLetter(b, messages) ==
  LET dead    == b.dead \o messages
      surplus == IF Len(dead) > MaxDead THEN Len(dead) - MaxDead ELSE 0
  IN  EvictAll([b EXCEPT !.dead = SubSeq(dead, surplus + 1, Len(dead))],
               SubSeq(dead, 1, surplus))

\* Mutant: what comes back takes a slot beyond the bound.
RequeueUntrimmed(b, messages) ==
  [b EXCEPT !.present = TRUE, !.queue = InsertByPriority(@, messages)]

\* What comes back competes for a slot; the tail that does not fit is popped
\* into the dead letters, last one first.
Requeue(b, messages) ==
  IF messages = <<>> THEN b
  ELSE LET queue == InsertByPriority(b.queue, messages)
           room  == IF Len(queue) > MaxQueue THEN MaxQueue ELSE Len(queue)
       IN  DeadLetter([b EXCEPT !.present = TRUE,
                                !.queue   = SubSeq(queue, 1, room)],
                      Reverse(SubSeq(queue, room + 1, Len(queue))))

Exhausted(b, i) == MaxAttempts > 0 /\ Attempts(b, i) >= MaxAttempts

\* Mutant: a lapsed lease goes back however often it was handed out.
ReapAllBack(b) ==
  LET lapsed == {l \in Elements(b.leases) : l.lapsed}
  IN  Requeue([b EXCEPT !.leases = KeepIn(@, Elements(@) \ lapsed)],
              Msgs(KeepIn(b.leases, lapsed)))

\* reapLeases: a lapsed lease goes back, or to the dead letters once its
\* message has been handed out too often.
ReapLeases(b) ==
  LET lapsed == {l \in Elements(b.leases) : l.lapsed}
      tired  == {l \in lapsed : Exhausted(b, l.msg.id)}
      back   == Msgs(KeepIn(b.leases, lapsed \ tired))
      dead   == Msgs(KeepIn(b.leases, tired))
      still  == KeepIn(b.leases, Elements(b.leases) \ lapsed)
  IN  DeadLetter(Requeue([b EXCEPT !.leases = still], back), dead)

\* sweepExpired walks the queue from its tail.  Each message it takes out
\* leaves room for its own notice, which is pushed behind the queue.
SweepExpired(b, due) ==
  LET late    == {m \in Elements(b.queue) : m.id \in due}
      gone    == Reverse(KeepIn(b.queue, late))
      notices == [i \in DOMAIN gone |-> NoticeAbout(gone[i])]
  IN  [b EXCEPT !.queue    = KeepIn(@, Elements(@) \ late) \o notices,
                !.attempts = Forget(@, Ids(gone)),
                !.dropped  = @ \cup Ids(gone),
                !.offered  = @ \cup Ids(notices)]

-----------------------------------------------------------------------------
(* The calls on a mailbox.                                                 *)

\* deliver.  `late` says that the message expired on its way, `admitted` what
\* the token bucket of takeToken answers.
MakeRoom(b) ==
  IF Len(b.queue) < MaxQueue THEN b
  ELSE LET victim == LowestPriorityIndex(b.queue)
       IN  Evict([b EXCEPT !.queue = RemoveAt(@, victim)], b.queue[victim])

Enqueue(b, m) ==
  LET roomy == MakeRoom(b)
  IN  [roomy EXCEPT !.present = TRUE,
                    !.queue   = InsertOne(@, m)]

Deliver(b, m, late, admitted) ==
  LET asked == [b EXCEPT !.offered = @ \cup {m.id}]
  IN  IF late                     THEN CountExpired(asked, m)
      ELSE IF Listeners(b, m) # {} THEN HandToWaiter(asked, m)
      ELSE IF ~admitted           THEN CountDrop(asked, m)
      ELSE Enqueue(asked, m)

\* Mutant: the deadlines are swept before the leases come back.
PollReapsLast(b, due, from, manual) ==
  LET ready == ReapLeases(SweepExpired(b, due))
      taken == IF from = None THEN ready.queue ELSE DrainFrom(ready.queue, from)
  IN  HandOut([ready EXCEPT !.queue = KeepIn(@, Elements(@) \ Elements(taken))],
              taken, manual)

\* poll: all of the queue, or what one sender and the hub put there.
Poll(b, due, from, manual) ==
  LET ready == SweepExpired(ReapLeases(b), due)
      taken == IF from = None THEN ready.queue ELSE DrainFrom(ready.queue, from)
  IN  HandOut([ready EXCEPT !.queue = KeepIn(@, Elements(@) \ Elements(taken))],
              taken, manual)

\* wait: up to `most` matching messages now, or a waiter in the list.
Wait(b, due, w, most) ==
  LET ready    == SweepExpired(ReapLeases(b), due)
      matching == KeepIn(ready.queue,
                         {m \in Elements(ready.queue) : MatchesWaiter(w, m)})
      taken    == SubSeq(matching, 1, IF Len(matching) < most THEN Len(matching) ELSE most)
  IN  IF matching = <<>>
      THEN [ready EXCEPT !.waiters = Append(@, w)]
      ELSE HandOut([ready EXCEPT !.queue = KeepIn(@, Elements(@) \ Elements(taken))],
                   taken, w.manual)

\* Mutant: a commit forgets the attempts of every id it names.
CommitForgetsAll(b, ids) ==
  LET released == {l \in Elements(b.leases) : l.msg.id \in ids}
  IN  [b EXCEPT !.leases   = KeepIn(@, Elements(@) \ released),
                !.attempts = Forget(@, ids),
                !.read     = @ \cup {l.msg.id : l \in released}]

\* commit: only leases are released, whether or not they have lapsed.
Commit(b, ids) ==
  LET released == {l \in Elements(b.leases) : l.msg.id \in ids}
      gone     == Ids(Msgs(KeepIn(b.leases, released)))
  IN  [b EXCEPT !.leases   = KeepIn(@, Elements(@) \ released),
                !.attempts = Forget(@, gone),
                !.read     = @ \cup gone]

\* Mutant: a revived dead letter stays in the list it came from.
NackKeepsDead(b, ids) ==
  LET leased == {l \in Elements(b.leases) : l.msg.id \in ids}
  IN  Requeue([b EXCEPT !.leases = KeepIn(@, Elements(@) \ leased)],
              Msgs(KeepIn(b.leases, leased))
                \o KeepIn(b.dead, {m \in Elements(b.dead) : m.id \in ids}))

\* nack: leases keep their attempts, a revived dead letter starts again.
Nack(b, ids) ==
  LET leased  == {l \in Elements(b.leases) : l.msg.id \in ids}
      revived == {m \in Elements(b.dead) : m.id \in ids}
      back    == Msgs(KeepIn(b.leases, leased)) \o KeepIn(b.dead, revived)
  IN  Requeue([b EXCEPT !.leases   = KeepIn(@, Elements(@) \ leased),
                        !.dead     = KeepIn(@, Elements(@) \ revived),
                        !.attempts = Forget(@, {m.id : m \in revived})],
              back)

\* Mutant: only the queue goes.
DropQueueOnly(b) ==
  [b EXCEPT !.present = FALSE, !.queue = <<>>, !.discarded = @ \cup Ids(b.queue)]

\* dropMailboxState: queue, leases, dead letters and attempts go together.
DropMailboxState(b) ==
  [b EXCEPT !.present   = FALSE,
            !.queue     = <<>>,
            !.leases    = <<>>,
            !.dead      = <<>>,
            !.attempts  = [i \in {} |-> 0],
            !.discarded = @ \cup Held(b)]

\* The waits of a peer that leaves the registry end as timeouts.
ResolveWaiters(b) == [b EXCEPT !.waiters = <<>>]

\* A wait whose budget is spent leaves the list.
EndWait(b, i) == [b EXCEPT !.waiters = RemoveAt(@, i)]

\* The oldest lease that has not lapsed yet lapses: all leases have one length.
LapseLease(b) ==
  LET running == {i \in DOMAIN b.leases : ~b.leases[i].lapsed}
  IN  [b EXCEPT !.leases[CHOOSE i \in running : \A j \in running : i <= j].lapsed = TRUE]

-----------------------------------------------------------------------------
(* What a mailbox looks like between two calls.                            *)

BoxOK(x) ==
  /\ x.present \in BOOLEAN
  /\ x.queue \in Seq(Message)
  /\ x.leases \in Seq(Lease)
  /\ x.dead \in Seq(Message)
  /\ x.attempts \in [DOMAIN x.attempts -> Nat \ {0}]
  /\ x.waiters \in Seq(Waiter)
  /\ x.offered \in SUBSET Nat
  /\ x.read \in SUBSET Nat
  /\ x.dropped \in SUBSET Nat
  /\ x.discarded \in SUBSET Nat
  /\ Len(x.queue) <= MaxQueue /\ Len(x.dead) <= MaxDead
  /\ \A i, j \in DOMAIN x.queue : i < j => x.queue[i].prio >= x.queue[j].prio

Distinct(s) == \A i, j \in DOMAIN s : s[i].id = s[j].id => i = j

OnePlace(x) ==
  /\ Distinct(x.queue)
  /\ Distinct(Msgs(x.leases))
  /\ Distinct(x.dead)
  /\ Ids(x.queue) \cap Ids(Msgs(x.leases)) = {}
  /\ Ids(x.queue) \cap Ids(x.dead) = {}
  /\ Ids(Msgs(x.leases)) \cap Ids(x.dead) = {}
  /\ Held(x) \cap (x.read \cup x.dropped \cup x.discarded) = {}

=============================================================================
