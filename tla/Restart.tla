------------------------------ MODULE Restart -------------------------------
(***************************************************************************)
(* What the hub saves, when it saves it, and what a restart brings back:   *)
(* the debounced saver, the boot and the close of src/src/index.ts, the    *)
(* SQLite store of src/src/persist.ts, and the exports and imports of      *)
(* src/src/hub.ts.  Both files, the database and the roster, are set up.   *)
(*                                                                         *)
(* A flush is one synchronous call, but every statement of it commits on   *)
(* its own: a crash or an error leaves the tables before it new and those  *)
(* after it old.  The memory of a process that ended stays in the          *)
(* variables until the next boot, where it can be compared with what that  *)
(* boot restores.  Priorities, deadlines and the text of messages are      *)
(* left out; of the notices the hub makes only the numbers are modelled.   *)
(***************************************************************************)
EXTENDS Naturals, FiniteSets, FiniteSetsExt

CONSTANTS
  Ids,           \* ids of peers and groups
  GroupIds,      \* bound: the ids that groups are created under
  Mailed,        \* bound: the peers that are sent mail, go idle or leave
  MaxSent,       \* bound: messages sent
  TaskIds,       \* those of them that are tasks
  MaxQueue,      \* options.maxQueue
  HistoryLimit   \* options.historyLimit

ASSUME RestartAssumption ==
  /\ GroupIds \subseteq Ids
  /\ Mailed \subseteq Ids /\ IsFiniteSet(Mailed)
  /\ MaxSent \in Nat
  /\ TaskIds \subseteq 1..MaxSent
  /\ MaxQueue \in Nat \ {0}
  /\ HistoryLimit \in Nat \ {0}

Messages == 1..MaxSent

VARIABLES
  up,           \* the process has not been closed
  store,        \* dbStore is defined
  registered,   \* lastSeen.keys()
  parked,       \* parkedAt.keys()
  profiles,     \* profiles.keys(), below MAX_PROFILES
  groups,       \* groups.keys()
  queue,        \* queues, as sets
  leased,       \* leases, as sets
  dead,         \* deadLetters, as sets, below MAX_DEAD_LETTERS
  ledger,       \* of a task: none, open, noted (open, a lost copy recorded) or over
  ring,         \* historyRing, as a set
  number,       \* seqCounter
  buffer,       \* SQLiteStateStore.buffer: messages with their numbers
  rosterDirty, dbDirty,
  saveTimer,    \* saveTimer is armed
  db,           \* the rows of each table
  roster,       \* the ids in roster.json
  sent,         \* history: messages sent so far
  handed,       \* history: tasks that were handed out for good
  settled,      \* history: messages nobody held any more when a flush completed
  synced,       \* history: a flush completed since the boot, and none failed after
  tainted       \* history: a flush has failed, or was cut short by a crash

directory == <<registered, parked, profiles, groups>>
mail      == <<queue, leased, dead>>
dirt      == <<rosterDirty, dbDirty, saveTimer>>
disk      == <<db, roster, settled, synced, tainted>>
process   == <<up, store>>
vars      == <<process, directory, mail, ledger, ring, number, buffer, dirt, disk, sent, handed>>

Nothing == [p \in Mailed |-> {}]

\* The hub has started for the first time, with an empty data directory.
Init ==
  /\ up = TRUE /\ store = TRUE
  /\ registered = {} /\ parked = {} /\ profiles = {} /\ groups = {}
  /\ queue = Nothing /\ leased = Nothing /\ dead = Nothing
  /\ ledger = [n \in TaskIds |-> "none"]
  /\ ring = {} /\ number = 0 /\ buffer = {}
  /\ rosterDirty = FALSE /\ dbDirty = FALSE /\ saveTimer = FALSE
  /\ db = [messages |-> {}, mailboxes |-> {}, profiles |-> {}, groups |-> {}, tasks |-> {}]
  /\ roster = {} /\ settled = {} /\ synced = FALSE /\ tainted = FALSE
  /\ sent = 0 /\ handed = {}

Holds(p) == queue[p] \cup leased[p] \cup dead[p]

\* The newest n of a set of messages.
Newest(S, n) == {x \in S : Cardinality({y \in S : y > x}) < n}

\* The ledger when the copies in S are lost, and st becomes of the open tasks.
Lose(book, S, st) ==
  [n \in TaskIds |-> IF n \in S /\ book[n] \in {"open", "noted"} THEN st ELSE book[n]]

-----------------------------------------------------------------------------
(* The hooks of the hub.                                                   *)

Quiet == UNCHANGED dirt

\* onMessage, onMailboxesChanged, onTaskChanged, onGroupsChanged, onMailboxExpired.
StateChanged ==
  /\ dbDirty' = (dbDirty \/ store)
  /\ saveTimer' = (saveTimer \/ store)
  /\ UNCHANGED rosterDirty

\* onPeersChanged.
PeersChanged == rosterDirty' = TRUE /\ dbDirty' = TRUE /\ saveTimer' = TRUE

-----------------------------------------------------------------------------
(* Peers and groups.                                                       *)

Register(p) ==
  /\ up /\ p \notin groups \cup registered
  /\ registered' = registered \cup {p}
  /\ parked' = parked \ {p}
  /\ profiles' = profiles \cup {p}
  /\ PeersChanged
  /\ UNCHANGED <<process, groups, mail, ledger, ring, number, buffer, disk, sent, handed>>

\* unregister with keepMailbox, by the idle GC.
Park(p) ==
  /\ up /\ p \in registered
  /\ registered' = registered \ {p}
  /\ parked' = parked \cup {p}
  /\ PeersChanged
  /\ UNCHANGED <<process, profiles, groups, mail, ledger, ring, number, buffer, disk, sent, handed>>

\* dropMailboxState: the mailbox goes, and settles the tasks it held a copy of.
DropMailbox(p) ==
  /\ queue' = [queue EXCEPT ![p] = {}]
  /\ leased' = [leased EXCEPT ![p] = {}]
  /\ dead' = [dead EXCEPT ![p] = {}]
  /\ ledger' = Lose(ledger, Holds(p), "over")
  /\ parked' = parked \ {p}

\* unregister: the peer leaves, or a manager kicks it.
Leave(p) ==
  /\ up /\ p \in registered \cup parked
  /\ registered' = registered \ {p}
  /\ DropMailbox(p)
  /\ PeersChanged
  /\ UNCHANGED <<process, profiles, groups, ring, number, buffer, disk, sent, handed>>

\* expireParkedMailboxes.
Expire(p) ==
  /\ up /\ p \in parked
  /\ DropMailbox(p)
  /\ IF Holds(p) # {} THEN StateChanged ELSE Quiet
  /\ UNCHANGED <<process, registered, profiles, groups, ring, number, buffer, disk, sent, handed>>

CreateGroup(g) ==
  /\ up /\ registered # {}
  /\ g \notin groups \cup registered \cup parked \cup profiles
  /\ g \in Mailed => queue[g] = {}
  /\ groups' = groups \cup {g}
  /\ StateChanged
  /\ UNCHANGED <<process, registered, parked, profiles, mail, ledger, ring, number, buffer, disk, sent, handed>>

DeleteGroup(g) ==
  /\ up /\ g \in groups
  /\ groups' = groups \ {g}
  /\ StateChanged
  /\ UNCHANGED <<process, registered, parked, profiles, mail, ledger, ring, number, buffer, disk, sent, handed>>

-----------------------------------------------------------------------------
(* Mail.                                                                   *)

\* remember: into the ring and the buffer of the store.
Remember(m) ==
  /\ ring' = Newest(ring \cup {m}, HistoryLimit)
  /\ buffer' = IF store THEN buffer \cup {<<m, number + 1>>} ELSE buffer

\* A message for which somebody waits, who commits it later when `manual`.
HandToWaiter(p, manual) ==
  /\ up /\ p \in registered /\ sent < MaxSent
  /\ sent' = sent + 1
  /\ number' = number + 1
  /\ Remember(sent + 1)
  /\ ledger' = [n \in TaskIds |-> IF n = sent + 1 THEN "open" ELSE ledger[n]]
  /\ IF manual
     THEN leased' = [leased EXCEPT ![p] = @ \cup {sent + 1}] /\ UNCHANGED handed
     ELSE handed' = handed \cup ({sent + 1} \cap TaskIds) /\ UNCHANGED leased
  /\ StateChanged
  /\ UNCHANGED <<process, directory, queue, dead, disk>>

\* A message for the mailbox of p.  A full one loses another for it, which
\* is noted for a task and takes a number for the notice.
Queue(p) ==
  /\ up /\ registered # {} /\ p \in registered \cup parked /\ sent < MaxSent
  /\ sent' = sent + 1
  /\ Remember(sent + 1)
  /\ \E victims \in SUBSET queue[p] :
        /\ Cardinality(victims) = IF Cardinality(queue[p]) < MaxQueue THEN 0 ELSE 1
        /\ queue' = [queue EXCEPT ![p] = (@ \ victims) \cup {sent + 1}]
        /\ number' = number + 1 + Cardinality(victims)
        /\ ledger' = [n \in TaskIds |-> IF n = sent + 1 THEN "open"
                                        ELSE Lose(ledger, victims, "noted")[n]]
  /\ StateChanged
  /\ UNCHANGED <<process, directory, leased, dead, disk, handed>>

\* Mutant: who drains a mailbox does not say so.
PollSilently(p, manual) ==
  /\ up /\ p \in registered /\ queue[p] # {}
  /\ queue' = [queue EXCEPT ![p] = {}]
  /\ IF manual
     THEN leased' = [leased EXCEPT ![p] = @ \cup queue[p]] /\ UNCHANGED handed
     ELSE handed' = handed \cup (queue[p] \cap TaskIds) /\ UNCHANGED leased
  /\ Quiet
  /\ UNCHANGED <<process, directory, dead, ledger, ring, number, buffer, disk, sent>>

\* poll.
Poll(p, manual) ==
  /\ up /\ p \in registered /\ queue[p] # {}
  /\ queue' = [queue EXCEPT ![p] = {}]
  /\ IF manual
     THEN leased' = [leased EXCEPT ![p] = @ \cup queue[p]] /\ UNCHANGED handed
     ELSE handed' = handed \cup (queue[p] \cap TaskIds) /\ UNCHANGED leased
  /\ StateChanged
  /\ UNCHANGED <<process, directory, dead, ledger, ring, number, buffer, disk, sent>>

Commit(p, m) ==
  /\ up /\ m \in leased[p]
  /\ leased' = [leased EXCEPT ![p] = @ \ {m}]
  /\ handed' = handed \cup ({m} \cap TaskIds)
  /\ StateChanged
  /\ UNCHANGED <<process, directory, queue, dead, ledger, ring, number, buffer, disk, sent>>

\* requeue: a lease that was nacked or has lapsed, or a dead letter that is
\* revived.  What does not fit into the mailbox becomes a dead letter.
Requeue(p, m) ==
  /\ up /\ m \in leased[p] \cup dead[p]
  /\ leased' = [leased EXCEPT ![p] = @ \ {m}]
  /\ \E victims \in SUBSET (queue[p] \cup {m}) :
        /\ Cardinality(victims) = IF Cardinality(queue[p]) < MaxQueue THEN 0 ELSE 1
        /\ queue' = [queue EXCEPT ![p] = (@ \cup {m}) \ victims]
        /\ dead' = [dead EXCEPT ![p] = (@ \ {m}) \cup victims]
        /\ ledger' = Lose(ledger, victims, "noted")
  /\ StateChanged
  /\ UNCHANGED <<process, directory, ring, number, buffer, disk, sent, handed>>

\* reapLeases of a message whose attempts are exhausted.  Nobody says that the
\* mailbox has changed, unless the sender of a task is sent a notice about it.
DeadLetter(p, m) ==
  /\ up /\ m \in leased[p]
  /\ leased' = [leased EXCEPT ![p] = @ \ {m}]
  /\ dead' = [dead EXCEPT ![p] = @ \cup {m}]
  /\ ledger' = Lose(ledger, {m}, "noted")
  /\ Quiet \/ (m \in TaskIds /\ StateChanged)
  /\ UNCHANGED <<process, directory, queue, ring, number, buffer, disk, sent, handed>>

\* A final ack, a cancel or a deadline.
EndTask(n) ==
  /\ up /\ ledger[n] \in {"open", "noted"}
  /\ ledger' = [ledger EXCEPT ![n] = "over"]
  /\ StateChanged
  /\ UNCHANGED <<process, directory, mail, ring, number, buffer, disk, sent, handed>>

-----------------------------------------------------------------------------
(* Saving.                                                                 *)

\* Mutant: leases are not part of the snapshot.
ExportQueues == UNION {{p} \X queue[p] : p \in Mailed}

\* exportMailboxes: dead letters stay behind.
ExportMailboxes == UNION {{p} \X (queue[p] \cup leased[p]) : p \in Mailed}

ExportTasks == {<<n, ledger[n]>> : n \in {i \in TaskIds : ledger[i] # "none"}}

Snapshot == [messages  |-> db.messages \cup buffer,
             mailboxes |-> ExportMailboxes,
             profiles  |-> profiles,
             groups    |-> groups,
             tasks     |-> ExportTasks]

\* The order in which a flush writes the tables.
Place == [messages |-> 1, mailboxes |-> 2, profiles |-> 3, groups |-> 4, tasks |-> 5]
Done  == 6

\* The messages are cut to historyLimit once there are twice as many.
Pruned(rows) ==
  IF Cardinality(rows) <= 2 * HistoryLimit THEN rows
  ELSE {r \in rows : r[1] \in Newest({q[1] : q \in rows}, HistoryLimit)}

\* Mutant: the mailboxes are written without clearing the table first.
WrittenOver(stop, part) ==
  [t \in DOMAIN db |->
     CASE stop > Place[t] -> IF t = "mailboxes" THEN db[t] \cup Snapshot[t] ELSE Snapshot[t]
       [] OTHER           -> db[t]]

\* flush, up to the table at which it stops, with `part` of the rows of that one.
Written(stop, part) ==
  [t \in DOMAIN db |->
     CASE stop > Place[t] -> IF stop = Done /\ t = "messages" THEN Pruned(Snapshot[t]) ELSE Snapshot[t]
       [] stop = Place[t] -> IF t = "messages" THEN db[t] \cup part ELSE part
       [] stop < Place[t] -> db[t]]

Flush(stop, part) ==
  /\ db' = Written(stop, part)
  /\ buffer' = {}
  /\ synced' = (stop = Done)
  /\ tainted' = (tainted \/ stop # Done)
  /\ settled' = IF stop = Done
                THEN settled \cup {m \in 1..sent : \A p \in Mailed : m \notin Holds(p)}
                ELSE settled

\* Where a flush can stop, and what it has written of that table by then.
\* Bound: one flush stops early.
Stops ==
  {<<Done, {}>>} \cup
  IF tainted THEN {} ELSE UNION {{Place[t]} \X SUBSET Snapshot[t] : t \in DOMAIN Place}

\* writeRosterFile: a new file, or the old one.  Bound: not after another failure.
WriteRoster ==
  roster' \in IF ~rosterDirty THEN {roster} ELSE {profiles} \cup (IF tainted THEN {} ELSE {roster})

\* The timer of scheduleSave fires: flushSaves.  An error is logged, and a crash
\* at the same place is an error with a crash behind it.
Save ==
  /\ up /\ saveTimer
  /\ saveTimer' = FALSE
  /\ rosterDirty' = FALSE
  /\ WriteRoster
  /\ IF dbDirty /\ store
     THEN /\ dbDirty' = FALSE
          /\ \E s \in Stops : Flush(s[1], s[2])
     ELSE UNCHANGED <<dbDirty, db, buffer, synced, tainted, settled>>
  /\ UNCHANGED <<process, directory, mail, ledger, ring, number, sent, handed>>

\* close: what is dirty is saved, and the database once more in any case.
Close ==
  /\ up
  /\ up' = FALSE
  /\ saveTimer' = FALSE /\ rosterDirty' = FALSE /\ dbDirty' = FALSE
  /\ WriteRoster
  /\ IF store THEN \E s \in Stops : Flush(s[1], s[2])
     ELSE UNCHANGED <<db, buffer, synced, tainted, settled>>
  /\ UNCHANGED <<store, directory, mail, ledger, ring, number, sent, handed>>

-----------------------------------------------------------------------------
(* Booting, after a close or a crash.                                      *)

\* importProfiles, from the roster when the database has none.
ImportProfiles == IF db.profiles = {} THEN roster ELSE db.profiles

\* Mutant: a group is restored whoever has its id.
ImportGroupsAll == db.groups

\* importGroups: never under the id of a peer.
ImportGroups == db.groups \ ImportProfiles

\* What importMailboxes finds for p: never the mail of a group.
Stored(p) == IF p \in ImportGroups THEN {} ELSE {m \in Messages : <<p, m>> \in db.mailboxes}

\* A mailbox is trimmed to maxQueue.
Fits(kept) ==
  \A p \in Mailed :
     /\ kept[p] \subseteq Stored(p)
     /\ Cardinality(kept[p]) = Min({Cardinality(Stored(p)), MaxQueue})

\* importHistory.
ImportRing   == Newest({r[1] : r \in db.messages}, HistoryLimit)
ImportNumber == Max({0} \cup {r[2] : r \in db.messages})

\* The stored ledger.
StoredTask(n) ==
  IF \E row \in db.tasks : row[1] = n
  THEN (CHOOSE row \in db.tasks : row[1] = n)[2] ELSE "none"

\* importTasks, then what importMailboxes notes in the ledger.
ImportTasks(evicted) == Lose([n \in TaskIds |-> StoredTask(n)], evicted, "noted")

\* The boot with a database that opens.  What is restored counts as dirty, but
\* no save is scheduled.
Boot(kept) ==
  /\ Fits(kept)
  /\ up' = TRUE /\ store' = TRUE
  /\ registered' = {}
  /\ profiles' = ImportProfiles
  /\ groups' = ImportGroups
  /\ queue' = kept /\ leased' = Nothing /\ dead' = Nothing
  /\ parked' = {p \in Mailed : Stored(p) # {}}
  /\ LET evicted == UNION {{p} \X (Stored(p) \ kept[p]) : p \in Mailed} IN
     /\ ledger' = ImportTasks({e[2] : e \in evicted})
     /\ number' = ImportNumber + Cardinality(evicted)
  /\ ring' = ImportRing
  /\ buffer' = {}
  /\ rosterDirty' = FALSE /\ saveTimer' = FALSE
  /\ dbDirty' = (ring' # {} \/ kept # Nothing \/ groups' # {})
  /\ synced' = FALSE
  /\ UNCHANGED <<db, roster, settled, tainted, sent, handed>>

\* The boot with a database that does not open: memory only.
BootWithoutStore ==
  /\ up' = TRUE /\ store' = FALSE
  /\ registered' = {} /\ parked' = {} /\ profiles' = roster /\ groups' = {}
  /\ queue' = Nothing /\ leased' = Nothing /\ dead' = Nothing
  /\ ledger' = [n \in TaskIds |-> "none"]
  /\ ring' = {} /\ number' = 0 /\ buffer' = {}
  /\ rosterDirty' = FALSE /\ dbDirty' = FALSE /\ saveTimer' = FALSE
  /\ synced' = FALSE
  /\ UNCHANGED <<db, roster, settled, tainted, sent, handed>>

-----------------------------------------------------------------------------

Next ==
  \/ \E p \in Ids : Register(p)
  \/ \E p \in Mailed : Park(p) \/ Leave(p) \/ Expire(p) \/ Queue(p)
  \/ \E g \in GroupIds : CreateGroup(g) \/ DeleteGroup(g)
  \/ \E p \in Mailed, manual \in BOOLEAN : HandToWaiter(p, manual) \/ Poll(p, manual)
  \/ \E p \in Mailed, m \in Messages : Commit(p, m) \/ Requeue(p, m) \/ DeadLetter(p, m)
  \/ \E n \in TaskIds : EndTask(n)
  \/ Save \/ Close
  \/ \E kept \in [Mailed -> SUBSET Messages] : Boot(kept)
  \/ BootWithoutStore

Spec == Init /\ [][Next]_vars

-----------------------------------------------------------------------------
(* Properties.                                                             *)

\* The types, no peer both live and parked, no mailbox above its limit, whatever a
\* restart put into it, and no group with the id of a peer that is known, parked
\* or has mail, not even from tables that are half old and half new.
TypeOK ==
  /\ registered \subseteq profiles /\ profiles \subseteq Ids
  /\ parked \subseteq Ids \ registered
  /\ groups \subseteq GroupIds
  /\ \A p \in Mailed : Holds(p) \subseteq 1..sent /\ Cardinality(queue[p]) <= MaxQueue
  /\ ledger \in [TaskIds -> {"none", "open", "noted", "over"}]
  /\ ring \subseteq 1..sent /\ Cardinality(ring) <= HistoryLimit
  /\ number \in Nat
  /\ up => groups \cap (registered \cup parked \cup profiles
                         \cup {p \in Mailed : Holds(p) # {}}) = {}

\* Once everything has been saved, every change is followed by a save: while no
\* timer is armed, the database holds what the hub holds.  Only dead letters may
\* be in the database still, as mail that was not lost.
QuietDiskIsCurrent ==
  up /\ synced /\ ~saveTimer =>
    /\ buffer = {}
    /\ db.profiles = profiles
    /\ db.groups = groups
    /\ ExportMailboxes \subseteq db.mailboxes
    /\ \A row \in db.mailboxes : row[2] \in Holds(row[1])
    /\ \A n \in TaskIds : StoredTask(n) = ledger[n]
                           \/ (StoredTask(n) = "open" /\ ledger[n] = "noted")

\* No mail is unaccounted for.  What had been consumed, or dropped, when a flush
\* completed never comes back, whatever crashes and failed flushes follow; and,
\* unless a flush has failed, an open task either is with somebody, has a copy on
\* its way, or the ledger says that a copy of it was lost.
MailIsAccountedFor ==
  /\ \A p \in Mailed : settled \cap (queue[p] \cup leased[p]) = {}
  /\ up /\ ~tainted =>
       \A n \in TaskIds : ledger[n] = "open" =>
         n \in handed \/ \E p \in Mailed : n \in queue[p] \cup leased[p]

\* A boot is the only step that forgets a completed flush, but for a failed one.
Rebooted == synced /\ ~synced' /\ tainted' = tainted /\ store'

\* A hub that was closed, or stopped while nothing waited to be saved, comes
\* back with its profiles, groups, tasks and history, and with the mail that was
\* queued or leased, as far as it fits.
RestartKeepsState ==
  [][Rebooted /\ ~saveTimer =>
       /\ profiles' = profiles
       /\ groups' = groups
       /\ \A n \in TaskIds : (ledger'[n] = "over") = (ledger[n] = "over")
       /\ \A p \in Mailed : \/ queue[p] \cup leased[p] \subseteq queue'[p]
                           \/ Cardinality(queue'[p]) = MaxQueue
       /\ ~tainted => ring' = ring]_vars

=============================================================================
