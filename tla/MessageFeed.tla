----------------------------- MODULE MessageFeed -----------------------------
(***************************************************************************)
(* What the desktop app shows of the hub's traffic: the message pool of    *)
(* app/src/stores/messagesStore.ts, the archive and the read marks that    *)
(* app/src-tauri/src/sqlite_store.rs keeps for it.                         *)
(*                                                                         *)
(* Messages are numbered in the order of their ts.  They come as pushes,   *)
(* as answers to bridge_wait, as receipts of the app's own sends, and in   *)
(* the answers to a poll that is repeated every three seconds; any of them *)
(* may be late, and all but the poll may be lost.  The read marks are      *)
(* those of one sender whose messages are all addressed to the app.        *)
(***************************************************************************)
EXTENDS Naturals, FiniteSets, Sequences, SequencesExt

CONSTANTS
  MaxSent,   \* bound: messages routed by the hub
  Limit,     \* messages in the answer to a poll
  PoolCap    \* POOL_CAP

ASSUME FeedAssumption ==
  MaxSent \in Nat /\ Limit \in Nat \ {0} /\ PoolCap \in Nat \ {0}

Messages == 1..MaxSent

VARIABLES
  sent,      \* messages routed so far
  arriving,  \* messages pushed or handed to the app, and not yet in the pool
  answers,   \* of each answer to a poll under way: the newest message in it
  pool,      \* messages
  archive,   \* the messages table
  lastRead,  \* lastReadTs of the sender, 0 when there is none
  mark,      \* the unread table's last_read_ts, 0 when there is no row
  marking,   \* calls of unread_clear under way
  restored,  \* the answer to unread_list under way, as a set
  seen       \* history: the messages that have come since the app started

feed == <<sent, arriving, answers, pool, archive, lastRead, mark, marking, restored, seen>>

FeedInit ==
  /\ sent = 0
  /\ arriving = {} /\ answers = {} /\ pool = <<>> /\ archive = {} /\ seen = {}
  /\ lastRead = 0 /\ mark = 0 /\ marking = {} /\ restored = {0}

-----------------------------------------------------------------------------
(* The pool.                                                               *)

Newest(S, n) == {m \in S : Cardinality({x \in S : x > m}) < n}

\* A set of messages, oldest first.
Ascending(S) ==
  CHOOSE s \in SetToSeqs(S) : \A i, j \in DOMAIN s : i < j => s[i] < s[j]

\* Mutant: the cap keeps the tail of the array.
CapTail(messages) ==
  IF Len(messages) <= PoolCap THEN messages
  ELSE SubSeq(messages, Len(messages) - PoolCap + 1, Len(messages))

\* capPool: beyond its cap the pool is sorted, and the oldest go.
CapPool(messages) ==
  IF Len(messages) <= PoolCap THEN messages
  ELSE LET sorted == Ascending(ToSet(messages))
       IN SubSeq(sorted, Len(sorted) - PoolCap + 1, Len(sorted))

\* A list of messages is appended, without those that are there already.
New(S)      == S \ ToSet(pool)
Merge(list) == CapPool(pool \o list)

\* The hub routes a message.  It may reach the app by a push, by a wait, and as
\* the receipt of a send; and it may not.
Route(reaches) ==
  /\ sent < MaxSent
  /\ sent' = sent + 1
  /\ arriving' = IF reaches THEN arriving \cup {sent + 1} ELSE arriving
  /\ UNCHANGED <<answers, pool, archive, lastRead, mark, marking, restored, seen>>

\* pushMessage.
Arrive(m) ==
  /\ m \in arriving
  /\ arriving' = arriving \ {m}
  /\ pool' = Merge(Ascending(New({m})))
  /\ seen' = seen \cup {m}
  /\ UNCHANGED <<sent, answers, archive, lastRead, mark, marking, restored>>

Answer(last) == Newest(1..last, Limit)

\* bridge_history: the tail of the hub's ring, which the command archives.
Poll ==
  /\ answers' = answers \cup {sent}
  /\ archive' = archive \cup Answer(sent)
  /\ UNCHANGED <<sent, arriving, pool, lastRead, mark, marking, restored, seen>>

\* refresh, when the answer is there.  Answers overtake each other.
Refresh(last) ==
  /\ last \in answers
  /\ answers' = answers \ {last}
  /\ pool' = Merge(Ascending(New(Answer(last))))
  /\ seen' = seen \cup Answer(last)
  /\ UNCHANGED <<sent, arriving, archive, lastRead, mark, marking, restored>>

\* restoreLocal, the /history command: the archive, newest first.
RestoreLocal(n) ==
  LET records == Newest(archive, n) IN
  /\ records # {}
  /\ pool' = Merge(Reverse(Ascending(New(records))))
  /\ seen' = seen \cup records
  /\ UNCHANGED <<sent, arriving, answers, archive, lastRead, mark, marking, restored>>

-----------------------------------------------------------------------------
(* Read marks.                                                             *)

\* markPeerRead: with the ts of a message that is opened, or, when the
\* conversation is, with the time.  An older ts leaves lastReadTs as it is, and is
\* sent to be stored all the same.
MarkPeerRead(ts) ==
  /\ ts \in ToSet(pool) \/ ts = sent
  /\ lastRead' = IF ts > lastRead THEN ts ELSE lastRead
  /\ marking' = marking \cup {ts}
  /\ UNCHANGED <<sent, arriving, answers, pool, archive, mark, restored, seen>>

\* clear_unread, in whichever order the calls get there.
ClearUnread(ts) ==
  /\ ts \in marking
  /\ marking' = marking \ {ts}
  /\ mark' = ts
  /\ UNCHANGED <<sent, arriving, answers, pool, archive, lastRead, restored, seen>>

\* Mutant: what was stored wins.
RestoreMarkOver ==
  /\ restored # {}
  /\ lastRead' = IF restored = {0} THEN lastRead ELSE CHOOSE n \in restored : TRUE
  /\ restored' = {}
  /\ UNCHANGED <<sent, arriving, answers, pool, archive, mark, marking, seen>>

\* The stored marks arrive after the start; a mark made meanwhile wins.
RestoreMark ==
  /\ restored # {}
  /\ lastRead' = IF lastRead = 0 THEN CHOOSE n \in restored : TRUE ELSE lastRead
  /\ restored' = {}
  /\ UNCHANGED <<sent, arriving, answers, pool, archive, mark, marking, seen>>

-----------------------------------------------------------------------------

\* The app is closed and opened again: it starts with an empty pool, and reads
\* the marks.
RestartFeed ==
  /\ arriving' = {} /\ answers' = {} /\ pool' = <<>> /\ seen' = {}
  /\ lastRead' = 0 /\ marking' = {} /\ restored' = {mark}
  /\ UNCHANGED <<sent, archive, mark>>

FeedNext ==
  \/ \E reaches \in BOOLEAN : Route(reaches)
  \/ \E m \in Messages : Arrive(m) \/ MarkPeerRead(m) \/ ClearUnread(m)
  \/ Poll
  \/ \E last \in 0..MaxSent : Refresh(last)
  \/ \E n \in 1..MaxSent : RestoreLocal(n)
  \/ RestoreMark
  \/ RestartFeed

-----------------------------------------------------------------------------
(* Properties.                                                             *)

\* The types; the pool has no message twice and stays within its cap.
FeedTypeOK ==
  /\ sent \in 0..MaxSent
  /\ arriving \subseteq 1..sent /\ archive \subseteq 1..sent
  /\ answers \subseteq 0..sent
  /\ pool \in Seq(1..sent) /\ IsInjective(pool) /\ Len(pool) <= PoolCap
  /\ lastRead \in 0..sent /\ mark \in 0..sent /\ marking \subseteq 1..sent
  /\ restored \subseteq 0..sent /\ Cardinality(restored) <= 1
  /\ seen \subseteq 1..sent

\* Whichever way and in whichever order messages come, the pool holds the newest
\* of those that came since the app was started.
NewestKept == ToSet(pool) = Newest(seen, PoolCap)

\* While the app runs, a message the user has read does not become unread: not
\* by an old mark, and not by the marks of an earlier run that arrive late.
ReadStaysRead == [][lastRead' >= lastRead \/ RestartFeed]_feed

=============================================================================
