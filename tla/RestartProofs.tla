--------------------------- MODULE RestartProofs ----------------------------
(***************************************************************************)
(* What Restart keeps, for every value of its constants: what is saved is  *)
(* what the hub has, no mail is unaccounted for whatever flush fails and   *)
(* whenever the process ends, and a restart brings the state back.         *)
(***************************************************************************)
EXTENDS Restart, SharedFacts

-----------------------------------------------------------------------------
(* The inductive invariant.                                                *)

\* A task the ledger has is open, with or without a lost copy noted, or over.
Booked == {"open", "noted", "over"}

\* The process: the peers and groups it knows, its ledger and its ring.
MemoryOK ==
  /\ {up, store, saveTimer, dbDirty, rosterDirty, synced, tainted} \subseteq BOOLEAN
  /\ sent \in 0..MaxSent /\ number \in Nat
  /\ registered \subseteq profiles /\ profiles \subseteq Ids
  /\ parked \subseteq Ids \ registered
  /\ groups \subseteq GroupIds
  /\ groups \cap (registered \cup parked \cup profiles) = {}
  /\ ledger \in [TaskIds -> {"none"} \cup Booked]
  /\ ring \subseteq 1..sent /\ Cardinality(ring) <= HistoryLimit

\* The mailboxes: only who is registered or parked has mail.
MailOK ==
  /\ queue \in [Mailed -> SUBSET (1..sent)]
  /\ leased \in [Mailed -> SUBSET (1..sent)]
  /\ dead \in [Mailed -> SUBSET (1..sent)]
  /\ \A p \in Mailed : Cardinality(queue[p]) <= MaxQueue
  /\ \A p \in Mailed : Holds(p) # {} => p \in registered \cup parked

\* The database, what is to be inserted into it, and the roster.
Tables == {"messages", "mailboxes", "profiles", "groups", "tasks"}
DbOK ==
  /\ DOMAIN db = Tables
  /\ \E N \in Nat : db.messages \cup buffer \subseteq (1..sent) \X (0..N)
  /\ db.mailboxes \subseteq Mailed \X (1..sent)
  /\ db.profiles \subseteq Ids /\ db.groups \subseteq GroupIds
  /\ db.tasks \subseteq TaskIds \X Booked
  /\ roster \subseteq Ids /\ (profiles = {} => roster = {})

\* The database holds what the hub holds.
Current ==
  /\ buffer = {}
  /\ db.profiles = profiles
  /\ db.groups = groups
  /\ ExportMailboxes \subseteq db.mailboxes
  /\ \A row \in db.mailboxes : row[2] \in Holds(row[1])
  /\ \A n \in TaskIds : StoredTask(n) = ledger[n]
                         \/ (StoredTask(n) = "open" /\ ledger[n] = "noted")

\* Without a database nothing is complete; what is armed has something to save.
SavedOK ==
  /\ synced => store
  /\ saveTimer => dbDirty
  /\ synced /\ ~saveTimer => Current

\* The ring can be had from the database and what is to be inserted into it.
RingOK ==
  ~tainted /\ store => ring = Latest({r[1] : r \in db.messages \cup buffer}, HistoryLimit)

\* What is settled is neither in a mailbox nor in the database.
SettledOK ==
  /\ settled \subseteq 1..sent
  /\ \A p \in Mailed : settled \cap Holds(p) = {}
  /\ \A row \in db.mailboxes : row[2] \notin settled

\* An open task is accounted for, in memory and in the database.
TasksOK ==
  ~tainted =>
    /\ \A n \in TaskIds : ledger[n] = "open" =>
         n \in handed \/ \E p \in Mailed : n \in queue[p] \cup leased[p]
    /\ \A n \in TaskIds : StoredTask(n) = "open" =>
         n \in handed \/ \E p \in Mailed : <<p, n>> \in db.mailboxes /\ p \notin db.groups

RestartInv ==
  MemoryOK /\ MailOK /\ DbOK /\ SavedOK /\ RingOK /\ SettledOK /\ TasksOK

-----------------------------------------------------------------------------
(* What the steps share.                                                   *)

\* A lost copy changes an open task, and no other.
LEMMA LoseFacts ==
  ASSUME NEW book \in [TaskIds -> {"none"} \cup Booked], NEW S, NEW st \in {"noted", "over"}
  PROVE  /\ Lose(book, S, st) \in [TaskIds -> {"none"} \cup Booked]
         /\ \A n \in TaskIds :
              /\ Lose(book, S, st)[n] = "open" => book[n] = "open" /\ n \notin S
              /\ Lose(book, S, st)[n] # book[n] => book[n] \in {"open", "noted"} /\ Lose(book, S, st)[n] = st
BY DEF Lose, Booked

\* The invariant holds when the hub starts for the first time.
LEMMA InvInit == Init => RestartInv
<1> SUFFICES ASSUME Init PROVE RestartInv OBVIOUS
<1>1. Cardinality({}) = 0 /\ MaxQueue \in Nat /\ HistoryLimit \in Nat /\ MaxSent \in Nat
  BY FS_EmptySet, RestartAssumption
<1>2. \A p \in Mailed : queue[p] = {} /\ leased[p] = {} /\ dead[p] = {} /\ Holds(p) = {}
  BY DEF Init, Nothing, Holds
<1>3. /\ db.messages = {} /\ db.mailboxes = {} /\ db.profiles = {} /\ db.groups = {} /\ db.tasks = {}
      /\ DOMAIN db = Tables
  BY DEF Init, Tables
<1>4. MemoryOK
  <2>1. {up, store, saveTimer, dbDirty, rosterDirty, synced, tainted} \subseteq BOOLEAN
    BY DEF Init
  <2>2. ledger \in [TaskIds -> {"none"} \cup Booked] BY DEF Init
  <2>3. sent \in 0..MaxSent /\ number \in Nat /\ Cardinality(ring) <= HistoryLimit
    BY <1>1 DEF Init
  <2>4. /\ registered \subseteq profiles /\ profiles \subseteq Ids
        /\ parked \subseteq Ids \ registered /\ groups \subseteq GroupIds
        /\ groups \cap (registered \cup parked \cup profiles) = {} /\ ring \subseteq 1..sent
    BY DEF Init
  <2> QED BY <2>1, <2>2, <2>3, <2>4 DEF MemoryOK
<1>5. MailOK
  <2>1. Nothing \in [Mailed -> SUBSET (1..sent)] BY DEF Nothing
  <2> QED BY <1>1, <1>2, <2>1 DEF Init, MailOK
<1>6. DbOK BY <1>3 DEF Init, DbOK
<1>7. SavedOK BY DEF Init, SavedOK
<1>8. RingOK
  <2>1. {r[1] : r \in db.messages \cup buffer} = {} BY <1>3 DEF Init
  <2>2. ring = {} BY DEF Init
  <2> QED BY <2>1, <2>2 DEF RingOK, Latest
<1>9. SettledOK BY <1>3 DEF Init, SettledOK
<1>10. TasksOK
  <2>1. \A n \in TaskIds : ledger[n] = "none" BY DEF Init
  <2>2. \A n \in TaskIds : StoredTask(n) = "none" BY <1>3 DEF StoredTask
  <2> QED BY <2>1, <2>2 DEF TasksOK
<1> QED BY <1>4, <1>5, <1>6, <1>7, <1>8, <1>9, <1>10 DEF RestartInv

\* A hook marks the state dirty, and a completed flush is not current any more.
LEMMA DirtySaved ==
  ASSUME MemoryOK, SavedOK, StateChanged \/ PeersChanged, UNCHANGED <<process, disk>>
  PROVE  SavedOK' /\ {saveTimer', dbDirty', rosterDirty'} \subseteq BOOLEAN
BY DEF MemoryOK, SavedOK, StateChanged, PeersChanged, process, disk

\* The mailbox of p becomes q, l and d; the others stay, and nobody who has one goes.
MailboxBecomes(p, q, l, d) ==
  /\ queue' = [queue EXCEPT ![p] = q]
  /\ leased' = [leased EXCEPT ![p] = l]
  /\ dead' = [dead EXCEPT ![p] = d]
  /\ sent' = sent \/ sent' = sent + 1
  /\ q \cup l \cup d \subseteq Holds(p) \cup ((1..sent') \ (1..sent))
  /\ Cardinality(q) <= MaxQueue
  /\ q \cup l \cup d # {} => p \in registered' \cup parked'
  /\ \A x \in Mailed \ {p} : x \in registered \cup parked => x \in registered' \cup parked'
  /\ UNCHANGED disk

\* The mailboxes after such a step, and what is settled.
LEMMA MailStep ==
  ASSUME RestartInv, NEW p \in Mailed, NEW q, NEW l, NEW d, MailboxBecomes(p, q, l, d)
  PROVE  /\ MailOK' /\ SettledOK'
         /\ queue'[p] = q /\ leased'[p] = l /\ dead'[p] = d
         /\ \A x \in Mailed : x # p => queue'[x] = queue[x] /\ leased'[x] = leased[x] /\ dead'[x] = dead[x]
<1>1. /\ queue \in [Mailed -> SUBSET (1..sent)] /\ leased \in [Mailed -> SUBSET (1..sent)]
      /\ dead \in [Mailed -> SUBSET (1..sent)]
      /\ \A x \in Mailed : Cardinality(queue[x]) <= MaxQueue
      /\ \A x \in Mailed : Holds(x) # {} => x \in registered \cup parked
      /\ sent \in Nat
  BY RestartAssumption DEF RestartInv, MailOK, MemoryOK
<1>2. /\ queue'[p] = q /\ leased'[p] = l /\ dead'[p] = d
      /\ \A x \in Mailed : x # p => queue'[x] = queue[x] /\ leased'[x] = leased[x] /\ dead'[x] = dead[x]
  BY <1>1 DEF MailboxBecomes
<1>3. Holds(p)' = q \cup l \cup d /\ \A x \in Mailed : x # p => Holds(x)' = Holds(x)
  BY <1>2 DEF Holds
<1>4. 1..sent \subseteq 1..sent' BY <1>1 DEF MailboxBecomes
<1>5. \A x \in Mailed : Holds(x) \subseteq 1..sent BY <1>1 DEF Holds
<1>6. q \subseteq 1..sent' /\ l \subseteq 1..sent' /\ d \subseteq 1..sent'
  BY <1>4, <1>5 DEF MailboxBecomes
<1>7. /\ queue' \in [Mailed -> SUBSET (1..sent')] /\ leased' \in [Mailed -> SUBSET (1..sent')]
      /\ dead' \in [Mailed -> SUBSET (1..sent')]
  <2>1. \A x \in Mailed : /\ queue[x] \subseteq 1..sent' /\ leased[x] \subseteq 1..sent'
                          /\ dead[x] \subseteq 1..sent'
    BY <1>1, <1>4
  <2> QED BY <1>1, <1>6, <2>1 DEF MailboxBecomes
<1>8. MailOK' BY <1>1, <1>2, <1>3, <1>7 DEF MailOK, MailboxBecomes
<1>9. SettledOK'
  <2>1. settled' = settled /\ db' = db BY DEF disk, MailboxBecomes
  <2>2. settled \subseteq 1..sent /\ (\A x \in Mailed : settled \cap Holds(x) = {})
        /\ \A row \in db.mailboxes : row[2] \notin settled
    BY DEF RestartInv, SettledOK
  <2>3. \A x \in Mailed : settled \cap Holds(x)' = {}
    <3> TAKE x \in Mailed
    <3>1. CASE x = p
      <4>1. settled \cap Holds(p) = {} /\ settled \subseteq 1..sent BY <2>2
      <4>2. Holds(p)' \subseteq Holds(p) \cup ((1..sent') \ (1..sent))
        BY <1>3 DEF MailboxBecomes
      <4> QED BY <3>1, <4>1, <4>2
    <3>2. CASE x # p BY <1>3, <2>2, <3>2
    <3> QED BY <3>1, <3>2
  <2> QED BY <1>4, <2>1, <2>2, <2>3 DEF SettledOK
<1> QED BY <1>2, <1>8, <1>9

\* Nothing is written; what is to be inserted may be more.
LEMMA DbStep ==
  ASSUME RestartInv, UNCHANGED disk, profiles \subseteq profiles',
         \/ buffer' = buffer /\ sent' = sent
         \/ buffer' \subseteq buffer \cup {<<sent + 1, number + 1>>} /\ sent' = sent + 1
  PROVE  DbOK'
<1>1. PICK N \in Nat : db.messages \cup buffer \subseteq (1..sent) \X (0..N)
  BY DEF RestartInv, DbOK
<1>2. sent \in Nat /\ number \in Nat BY RestartAssumption DEF RestartInv, MemoryOK
<1>3. PICK M \in Nat : M >= N /\ M >= number + 1
  <2>1. N >= number + 1 \/ number + 1 >= N BY <1>2
  <2> QED BY <1>2, <2>1
<1>4. 1..sent \subseteq 1..sent' /\ 0..N \subseteq 0..M /\ number + 1 \in 0..M
      /\ (sent' = sent + 1 => sent + 1 \in 1..sent')
  BY <1>2, <1>3
<1>5. db.messages \cup buffer' \subseteq (1..sent') \X (0..M) BY <1>1, <1>4
<1>6. /\ DOMAIN db = Tables
      /\ db.mailboxes \subseteq Mailed \X (1..sent)
      /\ db.profiles \subseteq Ids /\ db.groups \subseteq GroupIds
      /\ db.tasks \subseteq TaskIds \X Booked
      /\ roster \subseteq Ids /\ (profiles = {} => roster = {})
  BY DEF RestartInv, DbOK
<1>7. db' = db /\ roster' = roster BY DEF disk
<1>8. db.mailboxes \subseteq Mailed \X (1..sent') BY <1>4, <1>6
<1>9. \E K \in Nat : db'.messages \cup buffer' \subseteq (1..sent') \X (0..K)
  BY <1>3, <1>5, <1>7
<1> QED BY <1>6, <1>7, <1>8, <1>9 DEF DbOK

\* Nothing is written and nothing is to be inserted that was not before.
LEMMA DbSame ==
  ASSUME RestartInv, UNCHANGED <<disk, buffer, sent>>, profiles \subseteq profiles'
  PROVE  DbOK'
<1>1. \/ buffer' = buffer /\ sent' = sent
      \/ buffer' \subseteq buffer \cup {<<sent + 1, number + 1>>} /\ sent' = sent + 1
  OBVIOUS
<1> QED BY <1>1, DbStep

\* Nothing is written, and what was open is accounted for.
LEMMA TasksStep ==
  ASSUME RestartInv, UNCHANGED disk, handed \subseteq handed',
         ~tainted => \A n \in TaskIds : ledger'[n] = "open" =>
           n \in handed' \/ \E p \in Mailed : n \in queue'[p] \cup leased'[p]
  PROVE  TasksOK'
<1>1. db' = db /\ tainted' = tainted BY DEF disk
<1>2. \A n \in TaskIds : StoredTask(n)' = StoredTask(n) BY <1>1 DEF StoredTask
<1> QED BY <1>1, <1>2 DEF RestartInv, TasksOK

\* An open task is accounted for, while no flush has failed.
LEMMA OpenAccounted ==
  ASSUME RestartInv, ~tainted, NEW n \in TaskIds, ledger[n] = "open", n \notin handed
  PROVE  \E p \in Mailed : n \in queue[p] \cup leased[p]
BY DEF RestartInv, TasksOK

\* The ring and the database stay as they are.
LEMMA RingSame ==
  ASSUME RingOK, UNCHANGED <<process, disk, ring, buffer>>
  PROVE  RingOK'
<1>1. db' = db /\ tainted' = tainted /\ store' = store BY DEF disk, process
<1> QED BY <1>1 DEF RingOK

\* The mailboxes stay as they are, and nobody who has one goes.
LEMMA MailSame ==
  ASSUME RestartInv, UNCHANGED <<mail, disk, sent>>,
         registered \cup parked \subseteq registered' \cup parked'
  PROVE  MailOK' /\ SettledOK'
<1>1. /\ queue' = queue /\ leased' = leased /\ dead' = dead
      /\ settled' = settled /\ db' = db /\ sent' = sent
  BY DEF mail, disk
<1>2. \A x : Holds(x)' = Holds(x) BY <1>1 DEF Holds
<1>3. MailOK'
  <2>1. MailOK BY DEF RestartInv
  <2> QED BY <1>1, <1>2, <2>1 DEF MailOK
<1>4. SettledOK'
  <2>1. SettledOK BY DEF RestartInv
  <2> QED BY <1>1, <1>2, <2>1 DEF SettledOK
<1> QED BY <1>3, <1>4

\* The tasks stay as they are.
LEMMA TasksSame ==
  ASSUME RestartInv, UNCHANGED <<mail, ledger, handed, disk>>
  PROVE  TasksOK'
<1>1. queue' = queue /\ leased' = leased /\ ledger' = ledger /\ handed' = handed BY DEF mail
<1>2. ~tainted => \A n \in TaskIds : ledger'[n] = "open" =>
         n \in handed' \/ \E p \in Mailed : n \in queue'[p] \cup leased'[p]
  BY <1>1, OpenAccounted
<1> QED BY <1>1, <1>2, TasksStep

\* The types of what the steps below leave as it is, or change in a simple way.
LEMMA MemoryStep ==
  ASSUME RestartInv, UNCHANGED <<process, disk, sent, number, ring>>,
         {saveTimer', dbDirty', rosterDirty'} \subseteq BOOLEAN,
         ledger' \in [TaskIds -> {"none"} \cup Booked],
         registered' \subseteq profiles', profiles' \subseteq Ids, parked' \subseteq Ids \ registered',
         groups' \subseteq GroupIds,
         groups' \cap (registered' \cup parked' \cup profiles') = {}
  PROVE  MemoryOK'
<1>1. /\ up' = up /\ store' = store /\ synced' = synced /\ tainted' = tainted
      /\ sent' = sent /\ number' = number /\ ring' = ring
  BY DEF process, disk
<1> QED BY <1>1 DEF RestartInv, MemoryOK

\* What the proofs below take from the invariant.
LEMMA MemoryFacts ==
  ASSUME RestartInv
  PROVE  /\ MemoryOK /\ MailOK /\ DbOK /\ SavedOK /\ RingOK /\ SettledOK /\ TasksOK
         /\ registered \subseteq profiles /\ profiles \subseteq Ids
         /\ parked \subseteq Ids \ registered
         /\ groups \subseteq GroupIds
         /\ groups \cap (registered \cup parked \cup profiles) = {}
         /\ ledger \in [TaskIds -> {"none"} \cup Booked]
         /\ sent \in Nat /\ sent \in 0..MaxSent /\ number \in Nat
         /\ {saveTimer, dbDirty, rosterDirty} \subseteq BOOLEAN
         /\ Mailed \subseteq Ids /\ GroupIds \subseteq Ids
         /\ queue \in [Mailed -> SUBSET (1..sent)] /\ leased \in [Mailed -> SUBSET (1..sent)]
         /\ dead \in [Mailed -> SUBSET (1..sent)]
         /\ \A p \in Mailed : Holds(p) # {} => p \in registered \cup parked
         /\ \A p \in Mailed : Holds(p) \subseteq 1..sent
<1>1. MemoryOK /\ MailOK /\ DbOK /\ SavedOK /\ RingOK /\ SettledOK /\ TasksOK BY DEF RestartInv
<1>2. sent \in Nat BY <1>1, RestartAssumption DEF MemoryOK
<1>3. \A p \in Mailed : Holds(p) \subseteq 1..sent BY <1>1 DEF MailOK, Holds
<1> QED BY <1>1, <1>2, <1>3, RestartAssumption DEF MemoryOK, MailOK

-----------------------------------------------------------------------------
(* Peers and groups.                                                       *)

\* register: the peer is live, and was not a group.
LEMMA RegisterSound ==
  ASSUME RestartInv, NEW p \in Ids, Register(p)
  PROVE  RestartInv'
<1>1. /\ p \notin groups /\ registered' = registered \cup {p} /\ parked' = parked \ {p}
      /\ profiles' = profiles \cup {p} /\ PeersChanged
      /\ UNCHANGED <<process, groups, mail, ledger, ring, number, buffer, disk, sent, handed>>
  BY DEF Register
<1>2. SavedOK' /\ {saveTimer', dbDirty', rosterDirty'} \subseteq BOOLEAN
  BY <1>1, DirtySaved, MemoryFacts
<1>3. MemoryOK' BY <1>1, <1>2, MemoryFacts, MemoryStep
<1>4. MailOK' /\ SettledOK'
  <2>1. registered \cup parked \subseteq registered' \cup parked' BY <1>1
  <2> QED BY <1>1, <2>1, MailSame
<1>5. DbOK'
  <2>1. profiles \subseteq profiles' BY <1>1
  <2> QED BY <1>1, <2>1, DbSame
<1>6. RingOK' BY <1>1, RingSame, MemoryFacts
<1>7. TasksOK' BY <1>1, TasksSame
<1> QED BY <1>2, <1>3, <1>4, <1>5, <1>6, <1>7 DEF RestartInv

\* unregister by the idle GC: the mailbox is kept.
LEMMA ParkSound ==
  ASSUME RestartInv, NEW p \in Mailed, Park(p)
  PROVE  RestartInv'
<1>1. /\ p \in registered /\ registered' = registered \ {p} /\ parked' = parked \cup {p} /\ PeersChanged
      /\ UNCHANGED <<process, profiles, groups, mail, ledger, ring, number, buffer, disk, sent, handed>>
  BY DEF Park
<1>2. SavedOK' /\ {saveTimer', dbDirty', rosterDirty'} \subseteq BOOLEAN
  BY <1>1, DirtySaved, MemoryFacts
<1>3. MemoryOK' BY <1>1, <1>2, MemoryFacts, MemoryStep
<1>4. MailOK' /\ SettledOK'
  <2>1. registered \cup parked \subseteq registered' \cup parked' BY <1>1
  <2> QED BY <1>1, <2>1, MailSame
<1>5. DbOK' BY <1>1, DbSame DEF directory
<1>6. RingOK' BY <1>1, RingSame, MemoryFacts
<1>7. TasksOK' BY <1>1, TasksSame
<1> QED BY <1>2, <1>3, <1>4, <1>5, <1>6, <1>7 DEF RestartInv

\* createGroup and deleteGroup.
LEMMA GroupSound ==
  ASSUME RestartInv, NEW g \in GroupIds, CreateGroup(g) \/ DeleteGroup(g)
  PROVE  RestartInv'
<1>1. /\ StateChanged
      /\ \/ g \notin registered \cup parked \cup profiles /\ groups' = groups \cup {g}
         \/ groups' = groups \ {g}
      /\ UNCHANGED <<process, registered, parked, profiles, mail, ledger, ring, number, buffer, disk, sent, handed>>
  BY DEF CreateGroup, DeleteGroup
<1>2. SavedOK' /\ {saveTimer', dbDirty', rosterDirty'} \subseteq BOOLEAN
  BY <1>1, DirtySaved, MemoryFacts
<1>3. MemoryOK'
  <2>1. groups' \subseteq GroupIds /\ groups' \cap (registered' \cup parked' \cup profiles') = {}
    BY <1>1, MemoryFacts
  <2> QED BY <1>1, <1>2, <2>1, MemoryFacts, MemoryStep
<1>4. MailOK' /\ SettledOK' BY <1>1, MailSame
<1>5. DbOK' BY <1>1, DbSame DEF directory
<1>6. RingOK' BY <1>1, RingSame, MemoryFacts
<1>7. TasksOK' BY <1>1, TasksSame
<1> QED BY <1>2, <1>3, <1>4, <1>5, <1>6, <1>7 DEF RestartInv

\* The mailbox of p goes, with the open tasks it held copies of.
LEMMA DropFacts ==
  ASSUME RestartInv, NEW p \in Mailed, DropMailbox(p), UNCHANGED <<disk, sent, handed>>,
         registered \ {p} \subseteq registered'
  PROVE  MailOK' /\ SettledOK' /\ TasksOK' /\ ledger' \in [TaskIds -> {"none"} \cup Booked]
<1>1. /\ queue' = [queue EXCEPT ![p] = {}] /\ leased' = [leased EXCEPT ![p] = {}]
      /\ dead' = [dead EXCEPT ![p] = {}]
      /\ ledger' = Lose(ledger, Holds(p), "over") /\ parked' = parked \ {p}
  BY DEF DropMailbox
<1>2. ({} \cup {}) \cup {} \subseteq Holds(p) \cup ((1..sent') \ (1..sent)) /\ ({} \cup {}) \cup {} = {}
  OBVIOUS
<1>3. Cardinality({}) <= MaxQueue
  <2>1. Cardinality({}) = 0 /\ MaxQueue \in Nat BY FS_EmptySet, RestartAssumption
  <2> QED BY <2>1
<1>4. \A x \in Mailed \ {p} : x \in registered \cup parked => x \in registered' \cup parked'
  BY <1>1
<1>5. /\ MailOK' /\ SettledOK'
      /\ \A x \in Mailed : x # p => queue'[x] = queue[x] /\ leased'[x] = leased[x]
  <2>1. MailboxBecomes(p, {}, {}, {}) BY <1>1, <1>2, <1>3, <1>4 DEF MailboxBecomes
  <2> QED BY <2>1, MailStep
<1>6. /\ ledger' \in [TaskIds -> {"none"} \cup Booked]
      /\ \A n \in TaskIds : ledger'[n] = "open" => ledger[n] = "open" /\ n \notin Holds(p)
  BY <1>1, LoseFacts, MemoryFacts
<1>7. TasksOK'
  <2>1. ASSUME ~tainted, NEW n \in TaskIds, ledger'[n] = "open"
        PROVE  n \in handed' \/ \E x \in Mailed : n \in queue'[x] \cup leased'[x]
    <3>1. ledger[n] = "open" /\ n \notin Holds(p) BY <1>6, <2>1
    <3>2. CASE n \in handed BY <3>2
    <3>3. CASE n \notin handed
      <4>1. PICK x \in Mailed : n \in queue[x] \cup leased[x] BY <2>1, <3>1, <3>3, OpenAccounted
      <4>2. x # p BY <3>1, <4>1 DEF Holds
      <4> QED BY <1>5, <4>1, <4>2
    <3> QED BY <3>2, <3>3
  <2> QED BY <2>1, TasksStep
<1> QED BY <1>5, <1>6, <1>7

\* unregister: the peer and its mailbox go.
LEMMA LeaveSound ==
  ASSUME RestartInv, NEW p \in Mailed, Leave(p)
  PROVE  RestartInv'
<1>1. /\ registered' = registered \ {p} /\ DropMailbox(p) /\ PeersChanged /\ parked' = parked \ {p}
      /\ UNCHANGED <<process, profiles, groups, ring, number, buffer, disk, sent, handed>>
  BY DEF Leave, DropMailbox
<1>2. SavedOK' /\ {saveTimer', dbDirty', rosterDirty'} \subseteq BOOLEAN
  BY <1>1, DirtySaved, MemoryFacts
<1>3. MailOK' /\ SettledOK' /\ TasksOK' /\ ledger' \in [TaskIds -> {"none"} \cup Booked]
  BY <1>1, DropFacts
<1>4. MemoryOK' BY <1>1, <1>2, <1>3, MemoryFacts, MemoryStep
<1>5. DbOK' BY <1>1, DbSame DEF directory
<1>6. RingOK' BY <1>1, RingSame, MemoryFacts
<1> QED BY <1>2, <1>3, <1>4, <1>5, <1>6 DEF RestartInv

\* expireParkedMailboxes: an empty mailbox changes nothing that is saved.
LEMMA ExpireSound ==
  ASSUME RestartInv, NEW p \in Mailed, Expire(p)
  PROVE  RestartInv'
<1>1. /\ DropMailbox(p) /\ parked' = parked \ {p}
      /\ IF Holds(p) # {} THEN StateChanged ELSE Quiet
      /\ UNCHANGED <<process, registered, profiles, groups, ring, number, buffer, disk, sent, handed>>
  BY DEF Expire, DropMailbox
<1>2. MailOK' /\ SettledOK' /\ TasksOK' /\ ledger' \in [TaskIds -> {"none"} \cup Booked]
  BY <1>1, DropFacts
<1>3. SavedOK' /\ {saveTimer', dbDirty', rosterDirty'} \subseteq BOOLEAN
  <2>1. CASE Holds(p) # {} BY <1>1, <2>1, DirtySaved, MemoryFacts
  <2>2. CASE Holds(p) = {}
    <3>1. saveTimer' = saveTimer /\ dbDirty' = dbDirty /\ rosterDirty' = rosterDirty
      BY <1>1, <2>2 DEF Quiet, dirt
    <3>2. queue[p] = {} /\ leased[p] = {} /\ dead[p] = {} BY <2>2 DEF Holds
    <3>3. queue' = queue /\ leased' = leased /\ dead' = dead
      BY <1>1, <3>2, MemoryFacts DEF DropMailbox
    <3>4. ledger' = ledger
      <4>1. ledger' = Lose(ledger, {}, "over") BY <1>1, <2>2 DEF DropMailbox
      <4>2. ledger \in [TaskIds -> {"none"} \cup Booked] BY MemoryFacts
      <4> QED BY <4>1, <4>2 DEF Lose
    <3>5. /\ db' = db /\ synced' = synced /\ store' = store /\ buffer' = buffer
          /\ profiles' = profiles /\ groups' = groups
      BY <1>1 DEF disk, process
    <3>6. Current => Current'
      BY <3>3, <3>4, <3>5 DEF Current, ExportMailboxes, StoredTask, Holds
    <3> QED BY <3>1, <3>5, <3>6, MemoryFacts DEF SavedOK
  <2> QED BY <2>1, <2>2
<1>4. MemoryOK' BY <1>1, <1>2, <1>3, MemoryFacts, MemoryStep
<1>5. DbOK' BY <1>1, DbSame DEF directory
<1>6. RingOK' BY <1>1, RingSame, MemoryFacts
<1> QED BY <1>2, <1>3, <1>4, <1>5, <1>6 DEF RestartInv

\* A task ends.
LEMMA EndTaskSound ==
  ASSUME RestartInv, NEW n \in TaskIds, EndTask(n)
  PROVE  RestartInv'
<1>1. /\ ledger' = [ledger EXCEPT ![n] = "over"] /\ StateChanged
      /\ UNCHANGED <<process, directory, mail, ring, number, buffer, disk, sent, handed>>
      /\ UNCHANGED <<registered, parked, profiles, groups, queue, leased, dead>>
  BY DEF EndTask, directory, mail
<1>2. SavedOK' /\ {saveTimer', dbDirty', rosterDirty'} \subseteq BOOLEAN
  BY <1>1, DirtySaved, MemoryFacts
<1>3. ledger' \in [TaskIds -> {"none"} \cup Booked]
      /\ \A i \in TaskIds : ledger'[i] = "open" => ledger[i] = "open"
  BY <1>1, MemoryFacts DEF Booked
<1>4. MemoryOK' BY <1>1, <1>2, <1>3, MemoryFacts, MemoryStep
<1>5. MailOK' /\ SettledOK' BY <1>1, MailSame
<1>6. DbOK' BY <1>1, DbSame DEF directory
<1>7. RingOK' BY <1>1, RingSame, MemoryFacts
<1>8. TasksOK'
  <2>1. ~tainted => \A i \in TaskIds : ledger'[i] = "open" =>
          i \in handed' \/ \E p \in Mailed : i \in queue'[p] \cup leased'[p]
    BY <1>1, <1>3, OpenAccounted
  <2> QED BY <1>1, <2>1, TasksStep
<1> QED BY <1>2, <1>4, <1>5, <1>6, <1>7, <1>8 DEF RestartInv

-----------------------------------------------------------------------------
(* Mail.                                                                   *)

\* The ring takes a message, whatever it has cut off before.
LEMMA RingTakes ==
  ASSUME NEW N \in Nat, NEW S \in SUBSET (0..N), NEW m \in 0..N
  PROVE  Latest(Latest(S, HistoryLimit) \cup {m}, HistoryLimit) = Latest(S \cup {m}, HistoryLimit)
<1>1. HistoryLimit \in Nat /\ {m} \in SUBSET (0..N) BY RestartAssumption
<1> QED BY <1>1, LatestAbsorbs

\* A message enters the ring, and waits to be inserted.
LEMMA RememberStep ==
  ASSUME RestartInv, sent < MaxSent, sent' = sent + 1, Remember(sent + 1), number' \in Nat,
         UNCHANGED <<process, directory, disk>>,
         {saveTimer', dbDirty', rosterDirty'} \subseteq BOOLEAN,
         ledger' \in [TaskIds -> {"none"} \cup Booked]
  PROVE  MemoryOK' /\ RingOK' /\ DbOK'
<1> DEFINE S == {r[1] : r \in db.messages \cup buffer}
           m == sent + 1
<1>1. /\ ring' = Newest(ring \cup {m}, HistoryLimit)
      /\ buffer' = IF store THEN buffer \cup {<<m, number + 1>>} ELSE buffer
  BY DEF Remember
<1>2. /\ up' = up /\ store' = store /\ synced' = synced /\ tainted' = tainted /\ db' = db
      /\ registered' = registered /\ parked' = parked /\ profiles' = profiles /\ groups' = groups
  BY DEF process, directory, disk
<1>3. /\ sent \in Nat /\ sent' \in Nat /\ sent' \in 0..MaxSent /\ HistoryLimit \in Nat
      /\ m \in 1..sent' /\ 1..sent \subseteq 1..sent' /\ 1..sent' \subseteq 0..sent'
  BY MemoryFacts, RestartAssumption
<1>4. MemoryOK BY MemoryFacts
<1> HIDE DEF S
<1>5. ring' \subseteq 1..sent' /\ Cardinality(ring') <= HistoryLimit
  <2>1. ring \cup {m} \in SUBSET (0..sent') /\ ring \cup {m} \subseteq 1..sent'
    BY <1>3, <1>4 DEF MemoryOK
  <2> HIDE DEF m
  <2>2. Cardinality(Latest(ring \cup {m}, HistoryLimit)) <= HistoryLimit
    BY <1>3, <2>1, LatestFew
  <2>3. Newest(ring \cup {m}, HistoryLimit) = Latest(ring \cup {m}, HistoryLimit)
    BY Zenon DEF Newest, Latest
  <2>4. Newest(ring \cup {m}, HistoryLimit) \subseteq ring \cup {m} BY Zenon DEF Newest
  <2> QED BY <1>1, <2>1, <2>2, <2>3, <2>4
<1>6. MemoryOK' BY <1>2, <1>3, <1>4, <1>5 DEF MemoryOK
<1>7. RingOK'
  <2> SUFFICES ASSUME ~tainted, store
               PROVE  ring' = Latest({r[1] : r \in db.messages \cup buffer'}, HistoryLimit)
    BY <1>2 DEF RingOK
  <2>1. ring = Latest(S, HistoryLimit) BY MemoryFacts DEF RingOK, S
  <2>2. S \in SUBSET (0..sent') /\ {m} \in SUBSET (0..sent')
    <3>1. \A r \in db.messages \cup buffer : r[1] \in 1..sent BY MemoryFacts DEF DbOK
    <3> HIDE DEF m
    <3>2. S \subseteq 1..sent BY <3>1 DEF S
    <3> QED BY <1>3, <3>2
  <2>3. {r[1] : r \in db.messages \cup buffer'} = S \cup {m}
    <3> DEFINE new == <<m, number + 1>>
    <3>1. buffer' = buffer \cup {new} BY <1>1
    <3>2. new[1] = m OBVIOUS
    <3> HIDE DEF m, new
    <3>3. {r[1] : r \in (db.messages \cup buffer) \cup {new}} = S \cup {new[1]} BY DEF S
    <3>4. db.messages \cup buffer' = (db.messages \cup buffer) \cup {new} BY <3>1
    <3> QED BY <3>2, <3>3, <3>4
  <2> HIDE DEF m
  <2>4. Latest(Latest(S, HistoryLimit) \cup {m}, HistoryLimit) = Latest(S \cup {m}, HistoryLimit)
    <3>1. sent' \in Nat /\ S \in SUBSET (0..sent') BY <1>3, <2>2
    <3>2. m \in 0..sent' BY <2>2
    <3> QED BY <3>1, <3>2, RingTakes
  <2>5. ring' = Latest(ring \cup {m}, HistoryLimit) BY <1>1, Zenon DEF Newest, Latest
  <2> QED BY <2>1, <2>3, <2>4, <2>5
<1>8. DbOK'
  <2>1. buffer' \subseteq buffer \cup {<<sent + 1, number + 1>>} BY <1>1
  <2> QED BY <1>2, <2>1, DbStep
<1> QED BY <1>6, <1>7, <1>8

\* The mailbox after a message more, or one more and one less.
LEMMA Room ==
  ASSUME NEW N \in Nat, NEW S \in SUBSET (1..N), NEW T \in SUBSET (1..N), NEW m, T \subseteq S \cup {m},
         MaxQueue \in Nat, Cardinality(S) <= MaxQueue,
         Cardinality(T) = IF Cardinality(S) < MaxQueue THEN 0 ELSE 1
  PROVE  /\ Cardinality((S \cup {m}) \ T) <= MaxQueue
         /\ Cardinality(T) \in {0, 1}
         /\ m \notin T => Cardinality((S \ T) \cup {m}) <= MaxQueue
<1>1. IsFiniteSet(S) /\ Cardinality(S) \in Nat /\ IsFiniteSet(T) /\ Cardinality(T) \in Nat
  <2>1. S \in SUBSET (0..N) /\ T \in SUBSET (0..N)
    <3>1. 1..N \subseteq 0..N OBVIOUS
    <3> QED BY <3>1
  <2> QED BY <2>1, NumbersFinite, FS_CardinalityType
<1>2. /\ IsFiniteSet(S \cup {m}) /\ Cardinality(S \cup {m}) \in Nat
      /\ Cardinality(S \cup {m}) <= Cardinality(S) + 1
  <2>1. CASE m \in S
    <3>1. S \cup {m} = S BY <2>1
    <3> QED BY <1>1, <3>1
  <2>2. CASE m \notin S
    <3>1. IsFiniteSet(S \cup {m}) /\ Cardinality(S \cup {m}) = Cardinality(S) + 1
      BY <1>1, <2>2, FS_AddElement
    <3> QED BY <1>1, <3>1
  <2> QED BY <2>1, <2>2
<1>3. Cardinality((S \cup {m}) \ T) <= MaxQueue
  <2>1. CASE Cardinality(S) < MaxQueue
    <3>1. Cardinality((S \cup {m}) \ T) <= Cardinality(S \cup {m}) /\ Cardinality((S \cup {m}) \ T) \in Nat
      <4>1. (S \cup {m}) \ T \in SUBSET (S \cup {m}) OBVIOUS
      <4>2. IsFiniteSet((S \cup {m}) \ T) /\ Cardinality((S \cup {m}) \ T) <= Cardinality(S \cup {m})
        BY <1>2, <4>1, FS_Subset
      <4> QED BY <4>2, FS_CardinalityType
    <3> QED BY <1>1, <1>2, <2>1, <3>1
  <2>2. CASE ~(Cardinality(S) < MaxQueue)
    <3>1. PICK x : T = {x}
      <4>1. Cardinality(T) = 1 BY <2>2
      <4> QED BY <1>1, <4>1, FS_Singleton
    <3>2. x \in S \cup {m} BY <3>1
    <3>3. Cardinality((S \cup {m}) \ {x}) = Cardinality(S \cup {m}) - 1
      BY <1>2, <3>2, FS_RemoveElement
    <3> QED BY <1>1, <1>2, <2>2, <3>1, <3>3
  <2> QED BY <2>1, <2>2
<1>4. m \notin T => (S \ T) \cup {m} = (S \cup {m}) \ T OBVIOUS
<1> QED BY <1>3, <1>4

\* A message is handed to who waits for it.
LEMMA WaiterSound ==
  ASSUME RestartInv, NEW p \in Mailed, NEW manual \in BOOLEAN, HandToWaiter(p, manual)
  PROVE  RestartInv'
<1> DEFINE m == sent + 1
           l == IF manual THEN leased[p] \cup {m} ELSE leased[p]
<1>1. /\ p \in registered /\ sent < MaxSent /\ sent' = sent + 1 /\ number' = number + 1
      /\ Remember(sent + 1) /\ StateChanged
      /\ ledger' = [n \in TaskIds |-> IF n = m THEN "open" ELSE ledger[n]]
      /\ UNCHANGED <<process, directory, queue, dead, disk>>
      /\ IF manual THEN leased' = [leased EXCEPT ![p] = @ \cup {m}] /\ UNCHANGED handed
         ELSE handed' = handed \cup ({m} \cap TaskIds) /\ UNCHANGED leased
  BY DEF HandToWaiter
<1>2. /\ sent \in Nat /\ number' \in Nat
      /\ queue \in [Mailed -> SUBSET (1..sent)] /\ leased \in [Mailed -> SUBSET (1..sent)]
      /\ dead \in [Mailed -> SUBSET (1..sent)] /\ ledger \in [TaskIds -> {"none"} \cup Booked]
  BY <1>1, MemoryFacts
<1>3. SavedOK' /\ {saveTimer', dbDirty', rosterDirty'} \subseteq BOOLEAN
  BY <1>1, DirtySaved, MemoryFacts
<1>4. ledger' \in [TaskIds -> {"none"} \cup Booked] BY <1>1, <1>2 DEF Booked
<1>5. MemoryOK' /\ RingOK' /\ DbOK' BY <1>1, <1>2, <1>3, <1>4, RememberStep
<1>6. /\ queue' = [queue EXCEPT ![p] = queue[p]] /\ dead' = [dead EXCEPT ![p] = dead[p]]
      /\ leased' = [leased EXCEPT ![p] = l]
  BY <1>1, <1>2
<1>7. registered' = registered /\ parked' = parked BY <1>1 DEF directory
<1>8. queue[p] \cup l \cup dead[p] \subseteq Holds(p) \cup ((1..sent') \ (1..sent))
  <2>1. m \in (1..sent') \ (1..sent) BY <1>1, <1>2
  <2> HIDE DEF m
  <2> QED BY <2>1 DEF Holds
<1>9. Cardinality(queue[p]) <= MaxQueue BY MemoryFacts DEF MailOK
<1> HIDE DEF l
<1>10. /\ MailOK' /\ SettledOK' /\ queue'[p] = queue[p] /\ leased'[p] = l
       /\ \A x \in Mailed : x # p => queue'[x] = queue[x] /\ leased'[x] = leased[x]
  <2>1. MailboxBecomes(p, queue[p], l, dead[p])
    BY <1>1, <1>6, <1>7, <1>8, <1>9 DEF MailboxBecomes
  <2> QED BY <2>1, MailStep
<1>11. TasksOK'
  <2>1. ASSUME ~tainted, NEW n \in TaskIds, ledger'[n] = "open"
        PROVE  n \in handed' \/ \E x \in Mailed : n \in queue'[x] \cup leased'[x]
    <3>1. CASE n = m
      <4>1. CASE manual BY <1>10, <3>1, <4>1 DEF l
      <4>2. CASE ~manual BY <1>1, <3>1, <4>2
      <4> QED BY <4>1, <4>2
    <3>2. CASE n # m
      <4>1. ledger[n] = "open" BY <1>1, <2>1, <3>2
      <4>2. handed \subseteq handed' BY <1>1
      <4>3. CASE n \in handed BY <4>2, <4>3
      <4>4. CASE n \notin handed
        <5>1. PICK x \in Mailed : n \in queue[x] \cup leased[x]
          BY <2>1, <4>1, <4>4, OpenAccounted
        <5> QED BY <1>10, <5>1 DEF l
      <4> QED BY <4>3, <4>4
    <3> QED BY <3>1, <3>2
  <2>2. handed \subseteq handed' BY <1>1
  <2> QED BY <1>1, <2>1, <2>2, TasksStep
<1> QED BY <1>3, <1>5, <1>10, <1>11 DEF RestartInv

\* A message is queued, and may push another out.
LEMMA QueueSound ==
  ASSUME RestartInv, NEW p \in Mailed, Queue(p)
  PROVE  RestartInv'
<1> DEFINE m == sent + 1
<1>1. /\ p \in registered \cup parked /\ sent < MaxSent /\ sent' = sent + 1
      /\ Remember(sent + 1) /\ StateChanged
      /\ UNCHANGED <<process, directory, leased, dead, disk, handed>>
  BY DEF Queue
<1>2. PICK victims \in SUBSET queue[p] :
        /\ Cardinality(victims) = IF Cardinality(queue[p]) < MaxQueue THEN 0 ELSE 1
        /\ queue' = [queue EXCEPT ![p] = (@ \ victims) \cup {m}]
        /\ number' = number + 1 + Cardinality(victims)
        /\ ledger' = [n \in TaskIds |-> IF n = m THEN "open" ELSE Lose(ledger, victims, "noted")[n]]
  BY DEF Queue
<1> DEFINE q == (queue[p] \ victims) \cup {m}
<1>3. /\ sent \in Nat /\ number \in Nat
      /\ queue \in [Mailed -> SUBSET (1..sent)] /\ leased \in [Mailed -> SUBSET (1..sent)]
      /\ dead \in [Mailed -> SUBSET (1..sent)] /\ ledger \in [TaskIds -> {"none"} \cup Booked]
  BY MemoryFacts
<1>4. /\ Cardinality(victims) \in {0, 1} /\ Cardinality(q) <= MaxQueue
  <2>1. Cardinality(queue[p]) <= MaxQueue /\ MaxQueue \in Nat
    BY MemoryFacts, RestartAssumption DEF MailOK
  <2>2. queue[p] \in SUBSET (1..sent) /\ victims \in SUBSET (1..sent) /\ m \notin victims
        /\ victims \subseteq queue[p] \cup {m}
    BY <1>3
  <2> HIDE DEF m
  <2> QED BY <1>2, <1>3, <2>1, <2>2, Room
<1>5. number' \in Nat BY <1>2, <1>3, <1>4
<1>6. SavedOK' /\ {saveTimer', dbDirty', rosterDirty'} \subseteq BOOLEAN
  BY <1>1, DirtySaved, MemoryFacts
<1>7. /\ Lose(ledger, victims, "noted") \in [TaskIds -> {"none"} \cup Booked]
      /\ \A n \in TaskIds : Lose(ledger, victims, "noted")[n] = "open" => ledger[n] = "open" /\ n \notin victims
  BY <1>3, LoseFacts
<1>8. ledger' \in [TaskIds -> {"none"} \cup Booked] BY <1>2, <1>7 DEF Booked
<1>9. MemoryOK' /\ RingOK' /\ DbOK' BY <1>1, <1>5, <1>6, <1>8, RememberStep
<1>10. /\ queue' = [queue EXCEPT ![p] = q] /\ dead' = [dead EXCEPT ![p] = dead[p]]
       /\ leased' = [leased EXCEPT ![p] = leased[p]]
  BY <1>1, <1>2, <1>3
<1>11. registered' = registered /\ parked' = parked BY <1>1 DEF directory
<1>12. q \cup leased[p] \cup dead[p] \subseteq Holds(p) \cup ((1..sent') \ (1..sent))
  <2>1. m \in (1..sent') \ (1..sent) BY <1>1, <1>3
  <2> HIDE DEF m
  <2> QED BY <2>1 DEF Holds
<1>13. m \in q /\ queue[p] \subseteq q \cup victims OBVIOUS
<1> HIDE DEF q
<1>14. /\ MailOK' /\ SettledOK' /\ queue'[p] = q /\ leased'[p] = leased[p]
       /\ \A x \in Mailed : x # p => queue'[x] = queue[x] /\ leased'[x] = leased[x]
  <2>1. MailboxBecomes(p, q, leased[p], dead[p])
    BY <1>1, <1>4, <1>10, <1>11, <1>12 DEF MailboxBecomes
  <2> QED BY <2>1, MailStep
<1>15. TasksOK'
  <2>1. ASSUME ~tainted, NEW n \in TaskIds, ledger'[n] = "open"
        PROVE  n \in handed' \/ \E x \in Mailed : n \in queue'[x] \cup leased'[x]
    <3>1. CASE n = m BY <1>13, <1>14, <3>1
    <3>2. CASE n # m
      <4>1. ledger[n] = "open" /\ n \notin victims BY <1>2, <1>7, <2>1, <3>2
      <4>2. CASE n \in handed BY <1>1, <4>2
      <4>3. CASE n \notin handed
        <5>1. PICK x \in Mailed : n \in queue[x] \cup leased[x]
          BY <2>1, <4>1, <4>3, OpenAccounted
        <5> QED BY <1>13, <1>14, <4>1, <5>1
      <4> QED BY <4>2, <4>3
    <3> QED BY <3>1, <3>2
  <2> QED BY <1>1, <2>1, TasksStep
<1> QED BY <1>6, <1>9, <1>14, <1>15 DEF RestartInv

\* Mail moves within the mailbox of p or out of it, and nothing is sent.
MailMoves(p, q, l, d) ==
  /\ queue' = [queue EXCEPT ![p] = q]
  /\ leased' = [leased EXCEPT ![p] = l]
  /\ dead' = [dead EXCEPT ![p] = d]
  /\ q \cup l \cup d \subseteq Holds(p) /\ Cardinality(q) <= MaxQueue
  /\ ledger' \in [TaskIds -> {"none"} \cup Booked]
  /\ handed \subseteq handed'
  /\ \A n \in TaskIds : ledger'[n] = "open" =>
       ledger[n] = "open" /\ (n \in queue[p] \cup leased[p] => n \in q \cup l \cup handed')
  /\ SavedOK' /\ {saveTimer', dbDirty', rosterDirty'} \subseteq BOOLEAN
  /\ UNCHANGED <<process, directory, ring, number, buffer, disk, sent>>

\* Such a step keeps the invariant.
LEMMA MovesSound ==
  ASSUME RestartInv, NEW p \in Mailed, NEW q, NEW l, NEW d, MailMoves(p, q, l, d)
  PROVE  RestartInv'
<1>1. registered' = registered /\ parked' = parked /\ profiles' = profiles /\ groups' = groups
  BY DEF directory, MailMoves
<1>2. MemoryOK' BY <1>1, MemoryFacts, MemoryStep DEF MailMoves
<1>3. DbOK' BY <1>1, DbSame DEF MailMoves
<1>4. RingOK' BY MemoryFacts, RingSame DEF MailMoves
<1>5. q \cup l \cup d # {} => p \in registered' \cup parked' BY <1>1, MemoryFacts DEF MailMoves
<1>6. /\ MailOK' /\ SettledOK' /\ queue'[p] = q /\ leased'[p] = l
      /\ \A x \in Mailed : x # p => queue'[x] = queue[x] /\ leased'[x] = leased[x]
  <2>1. MailboxBecomes(p, q, l, d)
    BY <1>1, <1>5 DEF MailMoves, MailboxBecomes
  <2> QED BY <2>1, MailStep
<1>7. TasksOK'
  <2>1. ASSUME ~tainted, NEW n \in TaskIds, ledger'[n] = "open"
        PROVE  n \in handed' \/ \E x \in Mailed : n \in queue'[x] \cup leased'[x]
    <3>1. ledger[n] = "open" BY <2>1 DEF MailMoves
    <3>2. CASE n \in handed BY <3>2 DEF MailMoves
    <3>3. CASE n \notin handed
      <4>1. PICK x \in Mailed : n \in queue[x] \cup leased[x] BY <2>1, <3>1, <3>3, OpenAccounted
      <4>2. CASE x = p
        <5>1. n \in q \cup l \cup handed' BY <2>1, <4>1, <4>2 DEF MailMoves
        <5> QED BY <1>6, <5>1
      <4>3. CASE x # p BY <1>6, <4>1, <4>3
      <4> QED BY <4>2, <4>3
    <3> QED BY <3>2, <3>3
  <2> QED BY <2>1, TasksStep DEF MailMoves
<1> QED BY <1>2, <1>3, <1>4, <1>6, <1>7 DEF RestartInv, MailMoves

\* poll.
LEMMA PollSound ==
  ASSUME RestartInv, NEW p \in Mailed, NEW manual \in BOOLEAN, Poll(p, manual)
  PROVE  RestartInv'
<1> DEFINE l == IF manual THEN leased[p] \cup queue[p] ELSE leased[p]
<1>1. /\ queue' = [queue EXCEPT ![p] = {}] /\ StateChanged
      /\ IF manual
         THEN leased' = [leased EXCEPT ![p] = @ \cup queue[p]] /\ UNCHANGED handed
         ELSE handed' = handed \cup (queue[p] \cap TaskIds) /\ UNCHANGED leased
      /\ UNCHANGED <<process, directory, dead, ledger, ring, number, buffer, disk, sent>>
  BY DEF Poll
<1>2. /\ leased \in [Mailed -> SUBSET (1..sent)] /\ dead \in [Mailed -> SUBSET (1..sent)]
      /\ ledger \in [TaskIds -> {"none"} \cup Booked]
  BY MemoryFacts
<1>3. leased' = [leased EXCEPT ![p] = l] /\ dead' = [dead EXCEPT ![p] = dead[p]] BY <1>1, <1>2
<1>4. {} \cup l \cup dead[p] \subseteq Holds(p) BY DEF Holds
<1>5. Cardinality({}) <= MaxQueue
  <2>1. Cardinality({}) = 0 /\ MaxQueue \in Nat BY FS_EmptySet, RestartAssumption
  <2> QED BY <2>1
<1>6. SavedOK' /\ {saveTimer', dbDirty', rosterDirty'} \subseteq BOOLEAN
  BY <1>1, DirtySaved, MemoryFacts
<1>7. /\ handed \subseteq handed'
      /\ \A n \in TaskIds : n \in queue[p] \cup leased[p] => n \in {} \cup l \cup handed'
  BY <1>1
<1> HIDE DEF l
<1> QED
  <2>1. MailMoves(p, {}, l, dead[p]) BY <1>1, <1>2, <1>3, <1>4, <1>5, <1>6, <1>7 DEF MailMoves
  <2> QED BY <2>1, MovesSound

\* commit.
LEMMA CommitSound ==
  ASSUME RestartInv, NEW p \in Mailed, NEW m, Commit(p, m)
  PROVE  RestartInv'
<1> DEFINE l == leased[p] \ {m}
<1>1. /\ leased' = [leased EXCEPT ![p] = @ \ {m}] /\ handed' = handed \cup ({m} \cap TaskIds)
      /\ StateChanged
      /\ UNCHANGED <<process, directory, queue, dead, ledger, ring, number, buffer, disk, sent>>
  BY DEF Commit
<1>2. /\ queue \in [Mailed -> SUBSET (1..sent)] /\ dead \in [Mailed -> SUBSET (1..sent)]
      /\ ledger \in [TaskIds -> {"none"} \cup Booked]
  BY MemoryFacts
<1>3. /\ leased' = [leased EXCEPT ![p] = l] /\ queue' = [queue EXCEPT ![p] = queue[p]]
      /\ dead' = [dead EXCEPT ![p] = dead[p]]
  BY <1>1, <1>2
<1>4. queue[p] \cup l \cup dead[p] \subseteq Holds(p) BY DEF Holds
<1>5. Cardinality(queue[p]) <= MaxQueue BY MemoryFacts DEF MailOK
<1>6. SavedOK' /\ {saveTimer', dbDirty', rosterDirty'} \subseteq BOOLEAN
  BY <1>1, DirtySaved, MemoryFacts
<1>7. /\ handed \subseteq handed'
      /\ \A n \in TaskIds : n \in queue[p] \cup leased[p] => n \in queue[p] \cup l \cup handed'
  BY <1>1
<1> HIDE DEF l
<1> QED
  <2>1. MailMoves(p, queue[p], l, dead[p])
    BY <1>1, <1>2, <1>3, <1>4, <1>5, <1>6, <1>7 DEF MailMoves
  <2> QED BY <2>1, MovesSound

\* requeue, into a mailbox that may be full.
LEMMA RequeueSound ==
  ASSUME RestartInv, NEW p \in Mailed, NEW m, Requeue(p, m)
  PROVE  RestartInv'
<1>1. /\ m \in leased[p] \cup dead[p]
      /\ leased' = [leased EXCEPT ![p] = @ \ {m}] /\ StateChanged
      /\ UNCHANGED <<process, directory, ring, number, buffer, disk, sent, handed>>
  BY DEF Requeue
<1>2. PICK victims \in SUBSET (queue[p] \cup {m}) :
        /\ Cardinality(victims) = IF Cardinality(queue[p]) < MaxQueue THEN 0 ELSE 1
        /\ queue' = [queue EXCEPT ![p] = (@ \cup {m}) \ victims]
        /\ dead' = [dead EXCEPT ![p] = (@ \ {m}) \cup victims]
        /\ ledger' = Lose(ledger, victims, "noted")
  BY DEF Requeue
<1> DEFINE q == (queue[p] \cup {m}) \ victims
           l == leased[p] \ {m}
           d == (dead[p] \ {m}) \cup victims
<1>3. /\ queue \in [Mailed -> SUBSET (1..sent)] /\ leased \in [Mailed -> SUBSET (1..sent)]
      /\ dead \in [Mailed -> SUBSET (1..sent)] /\ ledger \in [TaskIds -> {"none"} \cup Booked]
      /\ sent \in Nat
  BY MemoryFacts
<1>4. queue' = [queue EXCEPT ![p] = q] /\ leased' = [leased EXCEPT ![p] = l] /\ dead' = [dead EXCEPT ![p] = d]
  BY <1>1, <1>2, <1>3
<1>5. q \cup l \cup d \subseteq Holds(p) BY <1>1 DEF Holds
<1>6. Cardinality(q) <= MaxQueue
  <2>1. Cardinality(queue[p]) <= MaxQueue /\ MaxQueue \in Nat
    BY MemoryFacts, RestartAssumption DEF MailOK
  <2>2. queue[p] \in SUBSET (1..sent) /\ victims \in SUBSET (1..sent)
    BY <1>1, <1>3
  <2> QED BY <1>2, <1>3, <2>1, <2>2, Room
<1>7. SavedOK' /\ {saveTimer', dbDirty', rosterDirty'} \subseteq BOOLEAN
  BY <1>1, DirtySaved, MemoryFacts
<1>8. /\ ledger' \in [TaskIds -> {"none"} \cup Booked]
      /\ \A n \in TaskIds : ledger'[n] = "open" => ledger[n] = "open" /\ n \notin victims
  BY <1>2, <1>3, LoseFacts
<1>9. \A n \in TaskIds : ledger'[n] = "open" /\ n \in queue[p] \cup leased[p] => n \in q \cup l \cup handed'
  BY <1>8
<1>10. handed \subseteq handed' BY <1>1
<1>11. \A n \in TaskIds : ledger'[n] = "open" => ledger[n] = "open" BY <1>8
<1>12. UNCHANGED <<process, directory, ring, number, buffer, disk, sent>> BY <1>1
<1> HIDE DEF q, l, d
<1> QED
  <2>1. MailMoves(p, q, l, d)
    BY <1>4, <1>5, <1>6, <1>7, <1>8, <1>9, <1>10, <1>11, <1>12 DEF MailMoves
  <2> QED BY <2>1, MovesSound

\* reapLeases of a message whose attempts are exhausted: the database may hold it
\* still, which is what Current allows for.
LEMMA DeadLetterSound ==
  ASSUME RestartInv, NEW p \in Mailed, NEW m, DeadLetter(p, m)
  PROVE  RestartInv'
<1> DEFINE l == leased[p] \ {m}
           d == dead[p] \cup {m}
<1>1. /\ m \in leased[p]
      /\ leased' = [leased EXCEPT ![p] = @ \ {m}] /\ dead' = [dead EXCEPT ![p] = @ \cup {m}]
      /\ ledger' = Lose(ledger, {m}, "noted") /\ (Quiet \/ StateChanged)
      /\ UNCHANGED <<process, directory, queue, ring, number, buffer, disk, sent, handed>>
  BY DEF DeadLetter
<1>2. /\ queue \in [Mailed -> SUBSET (1..sent)] /\ leased \in [Mailed -> SUBSET (1..sent)]
      /\ dead \in [Mailed -> SUBSET (1..sent)] /\ ledger \in [TaskIds -> {"none"} \cup Booked]
  BY MemoryFacts
<1>3. /\ queue' = [queue EXCEPT ![p] = queue[p]] /\ leased' = [leased EXCEPT ![p] = l]
      /\ dead' = [dead EXCEPT ![p] = d]
  BY <1>1, <1>2
<1>4. queue[p] \cup l \cup d \subseteq Holds(p) BY <1>1 DEF Holds
<1>5. Cardinality(queue[p]) <= MaxQueue BY MemoryFacts DEF MailOK
<1>6. /\ ledger' \in [TaskIds -> {"none"} \cup Booked]
      /\ \A n \in TaskIds :
           /\ ledger'[n] = "open" => ledger[n] = "open" /\ n \notin {m}
           /\ ledger'[n] # ledger[n] => ledger[n] \in {"open", "noted"} /\ ledger'[n] = "noted"
  BY <1>1, <1>2, LoseFacts
<1>7. SavedOK' /\ {saveTimer', dbDirty', rosterDirty'} \subseteq BOOLEAN
  <2>1. CASE StateChanged BY <1>1, <2>1, DirtySaved, MemoryFacts
  <2>2. CASE Quiet
    <3>1. saveTimer' = saveTimer /\ dbDirty' = dbDirty /\ rosterDirty' = rosterDirty
      BY <2>2 DEF Quiet, dirt
    <3>2. /\ db' = db /\ synced' = synced /\ store' = store /\ buffer' = buffer
          /\ profiles' = profiles /\ groups' = groups
      BY <1>1 DEF disk, process, directory
    <3>3. \A x \in Mailed : Holds(x)' = Holds(x) /\ queue'[x] \cup leased'[x] \subseteq queue[x] \cup leased[x]
      BY <1>1, <1>2 DEF Holds
    <3>4. Current => Current'
      <4> SUFFICES ASSUME Current PROVE Current' OBVIOUS
      <4>1. ExportMailboxes' \subseteq db'.mailboxes
        <5>1. ExportMailboxes \subseteq db.mailboxes BY DEF Current
        <5>2. ExportMailboxes' \subseteq ExportMailboxes BY <3>3 DEF ExportMailboxes
        <5> QED BY <3>2, <5>1, <5>2
      <4>2. \A row \in db'.mailboxes : row[2] \in Holds(row[1])'
        <5>1. \A row \in db.mailboxes : row[1] \in Mailed BY MemoryFacts DEF DbOK
        <5> QED BY <3>2, <3>3, <5>1 DEF Current
      <4>3. \A n \in TaskIds : StoredTask(n)' = StoredTask(n) BY <3>2 DEF StoredTask
      <4>4. \A n \in TaskIds : StoredTask(n)' = ledger'[n]
                                \/ (StoredTask(n)' = "open" /\ ledger'[n] = "noted")
        BY <1>6, <4>3 DEF Current
      <4> QED BY <3>2, <4>1, <4>2, <4>4 DEF Current
    <3> QED BY <3>1, <3>2, <3>4, MemoryFacts DEF SavedOK
  <2> QED BY <1>1, <2>1, <2>2
<1>8. \A n \in TaskIds : ledger'[n] = "open" /\ n \in queue[p] \cup leased[p] => n \in queue[p] \cup l \cup handed'
  BY <1>6
<1>9. handed \subseteq handed' BY <1>1
<1>10. \A n \in TaskIds : ledger'[n] = "open" => ledger[n] = "open" BY <1>6
<1>11. UNCHANGED <<process, directory, ring, number, buffer, disk, sent>> BY <1>1
<1> HIDE DEF l, d
<1> QED
  <2>1. MailMoves(p, queue[p], l, d)
    BY <1>3, <1>4, <1>5, <1>6, <1>7, <1>8, <1>9, <1>10, <1>11 DEF MailMoves
  <2> QED BY <2>1, MovesSound

-----------------------------------------------------------------------------
(* Saving.                                                                 *)

\* What a stored ledger says of a task.
LEMMA LedgerRows ==
  ASSUME NEW book \in [TaskIds -> {"none"} \cup Booked], NEW rows,
         rows = {<<i, book[i]>> : i \in {j \in TaskIds : book[j] # "none"}}
  PROVE  /\ rows \subseteq TaskIds \X Booked
         /\ \A n \in TaskIds :
              (IF \E row \in rows : row[1] = n THEN (CHOOSE row \in rows : row[1] = n)[2] ELSE "none") = book[n]
<1>1. rows \subseteq TaskIds \X Booked
  <2>1. \A i \in TaskIds : book[i] # "none" => book[i] \in Booked OBVIOUS
  <2> QED BY <2>1
<1>2. \A row \in rows : row[1] \in TaskIds /\ row[2] = book[row[1]] /\ book[row[1]] # "none" OBVIOUS
<1>3. ASSUME NEW n \in TaskIds
      PROVE  (IF \E row \in rows : row[1] = n THEN (CHOOSE row \in rows : row[1] = n)[2] ELSE "none") = book[n]
  <2>1. CASE book[n] = "none"
    <3>1. ~\E row \in rows : row[1] = n BY <1>2, <2>1
    <3> QED BY <2>1, <3>1
  <2>2. CASE book[n] # "none"
    <3>1. \E row \in rows : row[1] = n
      <4>1. <<n, book[n]>> \in rows /\ <<n, book[n]>>[1] = n BY <2>2
      <4> QED BY <4>1
    <3> DEFINE c == CHOOSE row \in rows : row[1] = n
    <3>2. c \in rows /\ c[1] = n BY <3>1
    <3>3. c[2] = book[n] BY <1>2, <3>2
    <3> QED BY <3>1, <3>3
  <2> QED BY <2>1, <2>2
<1> QED BY <1>1, <1>3

\* A flush runs to its end, or stops once, within the rows of some table.
LEMMA StopsFacts ==
  ASSUME NEW s \in Stops
  PROVE  s[1] = Done \/ (~tainted /\ \E t \in Tables : s[1] = Place[t] /\ s[2] \subseteq Snapshot[t])
<1>1. DOMAIN Place = Tables BY DEF Place, Tables
<1>2. CASE s = <<Done, {}>> BY <1>2
<1>3. CASE ~tainted /\ s \in UNION {{Place[t]} \X SUBSET Snapshot[t] : t \in Tables}
  <2>1. PICK t \in Tables : s \in {Place[t]} \X SUBSET Snapshot[t] BY <1>3
  <2>2. s[1] = Place[t] /\ s[2] \subseteq Snapshot[t] BY <2>1
  <2> QED BY <1>3, <2>2
<1> QED BY <1>1, <1>2, <1>3 DEF Stops

\* The rows that a flush could write.
LEMMA SnapshotFacts ==
  /\ Snapshot["messages"] = db.messages \cup buffer
  /\ Snapshot["mailboxes"] = ExportMailboxes
  /\ Snapshot["profiles"] = profiles
  /\ Snapshot["groups"] = groups
  /\ Snapshot["tasks"] = ExportTasks
BY DEF Snapshot

\* A complete flush.
LEMMA WrittenDone ==
  ASSUME DOMAIN db = Tables, NEW part, NEW w, w = Written(Done, part)
  PROVE  /\ DOMAIN w = Tables
         /\ w.messages = Pruned(db.messages \cup buffer)
         /\ w.mailboxes = ExportMailboxes
         /\ w.profiles = profiles /\ w.groups = groups /\ w.tasks = ExportTasks
<1>1. /\ Place["messages"] = 1 /\ Place["mailboxes"] = 2 /\ Place["profiles"] = 3
      /\ Place["groups"] = 4 /\ Place["tasks"] = 5 /\ Done = 6
  BY DEF Place, Done
<1>2. \A t \in Tables : w[t] =
        CASE Done > Place[t] -> IF t = "messages" THEN Pruned(Snapshot[t]) ELSE Snapshot[t]
          [] Done = Place[t] -> IF t = "messages" THEN db[t] \cup part ELSE part
          [] Done < Place[t] -> db[t]
  BY DEF Written
<1>3. w["messages"] = Pruned(Snapshot["messages"]) BY <1>1, <1>2 DEF Tables
<1>4. w["mailboxes"] = Snapshot["mailboxes"] BY <1>1, <1>2 DEF Tables
<1>5. w["profiles"] = Snapshot["profiles"] BY <1>1, <1>2 DEF Tables
<1>6. w["groups"] = Snapshot["groups"] BY <1>1, <1>2 DEF Tables
<1>7. w["tasks"] = Snapshot["tasks"] BY <1>1, <1>2 DEF Tables
<1>8. DOMAIN w = Tables BY DEF Written
<1> QED BY <1>3, <1>4, <1>5, <1>6, <1>7, <1>8, SnapshotFacts

\* A flush that stops in table s: no table has rows that are neither old nor new.
LEMMA WrittenPart ==
  ASSUME DOMAIN db = Tables, NEW s \in Tables, NEW part, part \subseteq Snapshot[s],
         NEW w, w = Written(Place[s], part)
  PROVE  /\ DOMAIN w = Tables
         /\ w.messages \subseteq db.messages \cup buffer
         /\ w.mailboxes \subseteq db.mailboxes \cup ExportMailboxes
         /\ w.profiles \subseteq db.profiles \cup profiles
         /\ w.groups \subseteq db.groups \cup groups
         /\ w.tasks \subseteq db.tasks \cup ExportTasks
<1>1. /\ Place["messages"] = 1 /\ Place["mailboxes"] = 2 /\ Place["profiles"] = 3
      /\ Place["groups"] = 4 /\ Place["tasks"] = 5 /\ Done = 6
  BY DEF Place, Done
<1>2. Place[s] # Done /\ \A t \in Tables : Place[s] = Place[t] => s = t BY <1>1 DEF Tables
<1>3. \A t \in Tables : w[t] =
        CASE Place[s] > Place[t] -> IF Place[s] = Done /\ t = "messages" THEN Pruned(Snapshot[t]) ELSE Snapshot[t]
          [] Place[s] = Place[t] -> IF t = "messages" THEN db[t] \cup part ELSE part
          [] Place[s] < Place[t] -> db[t]
  BY DEF Written
<1>4. ASSUME NEW t \in Tables PROVE w[t] \subseteq db[t] \cup Snapshot[t]
  <2>1. CASE Place[s] > Place[t]
    <3>1. Place[s] # Place[t] /\ ~(Place[s] < Place[t]) BY <1>1, <2>1 DEF Tables
    <3> QED BY <1>2, <1>3, <2>1, <3>1
  <2>2. CASE Place[s] = Place[t]
    <3>1. s = t BY <1>2, <2>2
    <3>2. ~(Place[s] > Place[t]) /\ ~(Place[s] < Place[t]) BY <1>1, <3>1 DEF Tables
    <3>3. w[t] = IF t = "messages" THEN db[t] \cup part ELSE part BY <1>2, <1>3, <2>2, <3>2
    <3> QED BY <3>1, <3>3
  <2>3. CASE Place[s] < Place[t]
    <3>1. ~(Place[s] > Place[t]) /\ Place[s] # Place[t] BY <1>1, <2>3 DEF Tables
    <3> QED BY <1>3, <2>3, <3>1
  <2>4. Place[s] > Place[t] \/ Place[s] = Place[t] \/ Place[s] < Place[t] BY <1>1 DEF Tables
  <2> QED BY <2>1, <2>2, <2>3, <2>4
<1>5. DOMAIN w = Tables BY DEF Written
<1>6. {"messages", "mailboxes", "profiles", "groups", "tasks"} \subseteq Tables BY DEF Tables
<1>7. Snapshot["messages"] = db["messages"] \cup buffer BY SnapshotFacts
<1>8. w["messages"] \subseteq db["messages"] \cup Snapshot["messages"] BY <1>4, <1>6
<1>9. w["mailboxes"] \subseteq db["mailboxes"] \cup Snapshot["mailboxes"] BY <1>4, <1>6
<1>10. w["profiles"] \subseteq db["profiles"] \cup Snapshot["profiles"] BY <1>4, <1>6
<1>11. w["groups"] \subseteq db["groups"] \cup Snapshot["groups"] BY <1>4, <1>6
<1>12. w["tasks"] \subseteq db["tasks"] \cup Snapshot["tasks"] BY <1>4, <1>6
<1> QED BY <1>5, <1>7, <1>8, <1>9, <1>10, <1>11, <1>12, SnapshotFacts

\* The mail that is saved.
LEMMA ExportFacts ==
  ASSUME RestartInv
  PROVE  /\ ExportMailboxes \subseteq Mailed \X (1..sent)
         /\ \A row \in ExportMailboxes : row[1] \in Mailed /\ row[2] \in queue[row[1]] \cup leased[row[1]]
         /\ \A p \in Mailed : \A m \in queue[p] \cup leased[p] : <<p, m>> \in ExportMailboxes
         /\ ExportTasks \subseteq TaskIds \X Booked
<1>1. \A p \in Mailed : queue[p] \cup leased[p] \subseteq 1..sent BY MemoryFacts
<1>2. \A row \in ExportMailboxes : \E p \in Mailed : row \in {p} \X (queue[p] \cup leased[p])
  BY DEF ExportMailboxes
<1>3. \A p \in Mailed : \A m \in queue[p] \cup leased[p] : <<p, m>> \in ExportMailboxes
  BY DEF ExportMailboxes
<1>4. \A row \in ExportMailboxes : row[1] \in Mailed /\ row[2] \in queue[row[1]] \cup leased[row[1]]
  BY <1>2
<1>5. ExportMailboxes \subseteq Mailed \X (1..sent) BY <1>1, <1>2
<1>6. ExportTasks \subseteq TaskIds \X Booked
  <2>1. ExportTasks = {<<i, ledger[i]>> : i \in {j \in TaskIds : ledger[j] # "none"}}
    BY DEF ExportTasks
  <2> QED BY <2>1, MemoryFacts, LedgerRows
<1> QED BY <1>3, <1>4, <1>5, <1>6

\* The database after a flush: a complete one, or one that stopped.
LEMMA FlushFacts ==
  ASSUME RestartInv, NEW s \in Stops, Flush(s[1], s[2])
  PROVE  /\ buffer' = {} /\ DOMAIN db' = Tables
         /\ {r[1] : r \in db'.messages} \subseteq 1..sent
         /\ db'.messages \subseteq db.messages \cup buffer
         /\ db'.mailboxes \subseteq db.mailboxes \cup ExportMailboxes
         /\ db'.profiles \subseteq db.profiles \cup profiles
         /\ db'.groups \subseteq db.groups \cup groups
         /\ db'.tasks \subseteq db.tasks \cup ExportTasks
         /\ \/ /\ synced' = TRUE /\ tainted' = tainted
               /\ settled' = settled \cup {m \in 1..sent : \A p \in Mailed : m \notin Holds(p)}
               /\ db'.messages = Pruned(db.messages \cup buffer)
               /\ db'.mailboxes = ExportMailboxes
               /\ db'.profiles = profiles /\ db'.groups = groups /\ db'.tasks = ExportTasks
            \/ synced' = FALSE /\ tainted' = TRUE /\ settled' = settled /\ ~tainted
<1>1. /\ db' = Written(s[1], s[2]) /\ buffer' = {}
      /\ synced' = (s[1] = Done) /\ tainted' = (tainted \/ s[1] # Done)
      /\ settled' = IF s[1] = Done
                    THEN settled \cup {m \in 1..sent : \A p \in Mailed : m \notin Holds(p)}
                    ELSE settled
  BY DEF Flush
<1>2. DOMAIN db = Tables /\ tainted \in BOOLEAN /\ \A r \in db.messages \cup buffer : r[1] \in 1..sent
  BY MemoryFacts DEF DbOK, MemoryOK
<1>3. Pruned(db.messages \cup buffer) \subseteq db.messages \cup buffer BY DEF Pruned
<1>4. CASE s[1] = Done
  <2>1. db' = Written(Done, s[2]) BY <1>1, <1>4
  <2>2. /\ DOMAIN db' = Tables
        /\ db'.messages = Pruned(db.messages \cup buffer)
        /\ db'.mailboxes = ExportMailboxes
        /\ db'.profiles = profiles /\ db'.groups = groups /\ db'.tasks = ExportTasks
    BY <1>2, <2>1, WrittenDone
  <2>3. {r[1] : r \in db'.messages} \subseteq 1..sent BY <1>2, <1>3, <2>2
  <2>4. synced' = TRUE /\ tainted' = tainted BY <1>1, <1>2, <1>4
  <2> QED BY <1>1, <1>3, <1>4, <2>2, <2>3, <2>4
<1>5. CASE s[1] # Done
  <2>1. PICK t \in Tables : ~tainted /\ s[1] = Place[t] /\ s[2] \subseteq Snapshot[t]
    BY <1>5, StopsFacts
  <2>2. db' = Written(Place[t], s[2]) BY <1>1, <2>1
  <2>3. /\ DOMAIN db' = Tables
        /\ db'.messages \subseteq db.messages \cup buffer
        /\ db'.mailboxes \subseteq db.mailboxes \cup ExportMailboxes
        /\ db'.profiles \subseteq db.profiles \cup profiles
        /\ db'.groups \subseteq db.groups \cup groups
        /\ db'.tasks \subseteq db.tasks \cup ExportTasks
    BY <1>2, <2>1, <2>2, WrittenPart
  <2>4. {r[1] : r \in db'.messages} \subseteq 1..sent BY <1>2, <2>3
  <2>5. synced' = FALSE /\ tainted' = TRUE /\ settled' = settled BY <1>1, <1>5
  <2> QED BY <1>1, <2>1, <2>3, <2>4, <2>5
<1> QED BY <1>4, <1>5

\* A cut to the latest messages leaves the ring to be had.
LEMMA PrunedRing ==
  ASSUME NEW N \in Nat, NEW rows, \A r \in rows : r[1] \in 0..N
  PROVE  Latest({r[1] : r \in Pruned(rows)}, HistoryLimit) = Latest({r[1] : r \in rows}, HistoryLimit)
<1> DEFINE S == {r[1] : r \in rows}
           L == Newest(S, HistoryLimit)
<1>1. CASE Cardinality(rows) <= 2 * HistoryLimit
  <2>1. Pruned(rows) = rows BY <1>1 DEF Pruned
  <2> QED BY <2>1
<1>2. CASE ~(Cardinality(rows) <= 2 * HistoryLimit)
  <2>1. Pruned(rows) = {r \in rows : r[1] \in L} BY <1>2 DEF Pruned
  <2>2. L \subseteq S BY Zenon DEF Newest
  <2>3. L = Latest(S, HistoryLimit) BY Zenon DEF Newest, Latest
  <2> HIDE DEF L
  <2>4. {r[1] : r \in Pruned(rows)} = L BY <2>1, <2>2
  <2>5. S \in SUBSET (0..N) /\ HistoryLimit \in Nat BY RestartAssumption
  <2> HIDE DEF S
  <2>6. Latest(Latest(S, HistoryLimit), HistoryLimit) = Latest(S, HistoryLimit)
    BY <2>5, LatestAgain
  <2> QED BY <2>3, <2>4, <2>6 DEF S
<1> QED BY <1>1, <1>2

\* Whether it completes or stops, a flush keeps the invariant.
LEMMA FlushSound ==
  ASSUME RestartInv, NEW s \in Stops, Flush(s[1], s[2]), store,
         UNCHANGED <<store, directory, mail, ledger, ring, number, sent, handed>>,
         up' \in BOOLEAN, {saveTimer', dbDirty', rosterDirty'} \subseteq BOOLEAN, ~saveTimer',
         roster' = roster \/ roster' = profiles
  PROVE  RestartInv'
<1>1. /\ buffer' = {} /\ DOMAIN db' = Tables
      /\ {r[1] : r \in db'.messages} \subseteq 1..sent
      /\ db'.messages \subseteq db.messages \cup buffer
      /\ db'.mailboxes \subseteq db.mailboxes \cup ExportMailboxes
      /\ db'.profiles \subseteq db.profiles \cup profiles
      /\ db'.groups \subseteq db.groups \cup groups
      /\ db'.tasks \subseteq db.tasks \cup ExportTasks
  BY FlushFacts
<1>2. \/ /\ synced' = TRUE /\ tainted' = tainted
         /\ settled' = settled \cup {m \in 1..sent : \A p \in Mailed : m \notin Holds(p)}
         /\ db'.messages = Pruned(db.messages \cup buffer)
         /\ db'.mailboxes = ExportMailboxes
         /\ db'.profiles = profiles /\ db'.groups = groups /\ db'.tasks = ExportTasks
      \/ synced' = FALSE /\ tainted' = TRUE /\ settled' = settled /\ ~tainted
  BY FlushFacts
<1>3. /\ store' = store /\ registered' = registered /\ parked' = parked /\ profiles' = profiles
      /\ groups' = groups /\ queue' = queue /\ leased' = leased /\ dead' = dead
      /\ ledger' = ledger /\ ring' = ring /\ number' = number /\ sent' = sent /\ handed' = handed
  BY DEF directory, mail
<1>4. /\ ExportMailboxes \subseteq Mailed \X (1..sent)
      /\ \A row \in ExportMailboxes : row[1] \in Mailed /\ row[2] \in queue[row[1]] \cup leased[row[1]]
      /\ \A p \in Mailed : \A m \in queue[p] \cup leased[p] : <<p, m>> \in ExportMailboxes
      /\ ExportTasks \subseteq TaskIds \X Booked
  BY ExportFacts
<1>5. \A x : Holds(x)' = Holds(x) BY <1>3 DEF Holds
<1>6. MemoryOK'
  <2>1. synced' \in BOOLEAN /\ tainted' \in BOOLEAN
    <3>1. tainted \in BOOLEAN BY MemoryFacts DEF MemoryOK
    <3> QED BY <1>2, <3>1
  <2>2. MemoryOK BY MemoryFacts
  <2> QED BY <1>3, <2>1, <2>2 DEF MemoryOK
<1>7. MailOK'
  <2>1. MailOK BY MemoryFacts
  <2> QED BY <1>3, <1>5, <2>1 DEF MailOK
<1>8. DbOK'
  <2>1. DbOK /\ profiles \subseteq Ids /\ groups \subseteq GroupIds BY MemoryFacts
  <2>2. \E N \in Nat : db'.messages \cup buffer' \subseteq (1..sent) \X (0..N)
    BY <1>1, <2>1 DEF DbOK
  <2>3. /\ db'.mailboxes \subseteq Mailed \X (1..sent)
        /\ db'.profiles \subseteq Ids /\ db'.groups \subseteq GroupIds
        /\ db'.tasks \subseteq TaskIds \X Booked
    BY <1>1, <1>4, <2>1 DEF DbOK
  <2>4. roster' \subseteq Ids /\ (profiles = {} => roster' = {}) BY <2>1 DEF DbOK
  <2> QED BY <1>1, <1>3, <2>2, <2>3, <2>4 DEF DbOK
<1>9. db'.tasks = ExportTasks => \A n \in TaskIds : StoredTask(n)' = ledger[n]
  <2> SUFFICES ASSUME db'.tasks = ExportTasks, NEW n \in TaskIds PROVE StoredTask(n)' = ledger[n]
    OBVIOUS
  <2> DEFINE rows == db'.tasks
  <2>1. rows = {<<i, ledger[i]>> : i \in {j \in TaskIds : ledger[j] # "none"}}
    BY DEF ExportTasks
  <2>2. StoredTask(n)' = IF \E row \in rows : row[1] = n
                         THEN (CHOOSE row \in rows : row[1] = n)[2] ELSE "none"
    BY DEF StoredTask
  <2>3. ledger \in [TaskIds -> {"none"} \cup Booked] BY MemoryFacts
  <2> HIDE DEF rows
  <2> QED BY <2>1, <2>2, <2>3, LedgerRows
<1>10. SavedOK'
  <2>1. synced' => Current'
    <3> SUFFICES ASSUME synced' PROVE Current' OBVIOUS
    <3>1. /\ db'.mailboxes = ExportMailboxes /\ db'.profiles = profiles /\ db'.groups = groups
          /\ db'.tasks = ExportTasks
      BY <1>2
    <3>2. ExportMailboxes' = ExportMailboxes BY <1>3 DEF ExportMailboxes
    <3>3. \A row \in db'.mailboxes : row[2] \in Holds(row[1])' BY <1>4, <1>5, <3>1 DEF Holds
    <3>4. \A n \in TaskIds : StoredTask(n)' = ledger'[n] BY <1>3, <1>9, <3>1
    <3> QED BY <1>1, <1>3, <3>1, <3>2, <3>3, <3>4 DEF Current
  <2> QED BY <1>3, <2>1 DEF SavedOK
<1>11. RingOK'
  <2> SUFFICES ASSUME ~tainted' PROVE ring = Latest({r[1] : r \in db'.messages \cup {}}, HistoryLimit)
    BY <1>1, <1>3 DEF RingOK
  <2>1. ~tainted /\ db'.messages = Pruned(db.messages \cup buffer) BY <1>2
  <2>2. ring = Latest({r[1] : r \in db.messages \cup buffer}, HistoryLimit)
    BY <2>1, MemoryFacts DEF RingOK
  <2>3. \A r \in db.messages \cup buffer : r[1] \in 0..sent
    <3>1. \A r \in db.messages \cup buffer : r[1] \in 1..sent BY MemoryFacts DEF DbOK
    <3>2. 1..sent \subseteq 0..sent BY MemoryFacts
    <3> QED BY <3>1, <3>2
  <2>4. sent \in Nat BY MemoryFacts
  <2>5. Latest({r[1] : r \in Pruned(db.messages \cup buffer)}, HistoryLimit)
          = Latest({r[1] : r \in db.messages \cup buffer}, HistoryLimit)
    BY <2>3, <2>4, PrunedRing
  <2>6. db'.messages \cup {} = Pruned(db.messages \cup buffer) BY <2>1
  <2> QED BY <2>2, <2>5, <2>6
<1>12. SettledOK'
  <2>1. /\ settled \subseteq 1..sent /\ (\A p \in Mailed : settled \cap Holds(p) = {})
        /\ \A row \in db.mailboxes : row[2] \notin settled
    BY MemoryFacts DEF SettledOK
  <2>2. \A row \in ExportMailboxes : row[2] \notin settled /\ \E p \in Mailed : row[2] \in Holds(p)
    BY <1>4, <2>1 DEF Holds
  <2>3. settled' \subseteq 1..sent /\ \A p \in Mailed : settled' \cap Holds(p) = {}
    BY <1>2, <2>1
  <2>4. \A row \in db'.mailboxes : row[2] \notin settled'
    <3>1. CASE db'.mailboxes = ExportMailboxes
                /\ settled' = settled \cup {m \in 1..sent : \A p \in Mailed : m \notin Holds(p)}
      BY <2>2, <3>1
    <3>2. CASE settled' = settled BY <1>1, <2>1, <2>2, <3>2
    <3> QED BY <1>2, <3>1, <3>2
  <2> QED BY <1>3, <1>5, <2>3, <2>4 DEF SettledOK
<1>13. TasksOK'
  <2> SUFFICES ASSUME ~tainted' PROVE TasksOK' BY DEF TasksOK
  <2>1. ~tainted /\ db'.mailboxes = ExportMailboxes /\ db'.groups = groups /\ db'.tasks = ExportTasks
    BY <1>2
  <2>2. \A n \in TaskIds : ledger[n] = "open" =>
          n \in handed \/ \E p \in Mailed : n \in queue[p] \cup leased[p]
    BY <2>1, OpenAccounted
  <2>3. ASSUME NEW n \in TaskIds, StoredTask(n)' = "open"
        PROVE  n \in handed \/ \E p \in Mailed : <<p, n>> \in db'.mailboxes /\ p \notin db'.groups
    <3>1. ledger[n] = "open" BY <1>9, <2>1, <2>3
    <3>2. CASE n \in handed BY <3>2
    <3>3. CASE n \notin handed
      <4>1. PICK p \in Mailed : n \in queue[p] \cup leased[p] BY <2>2, <3>1, <3>3
      <4>2. p \in registered \cup parked
        <5>1. Holds(p) # {} BY <4>1 DEF Holds
        <5> QED BY <5>1, MemoryFacts
      <4>3. p \notin groups BY <4>2, MemoryFacts
      <4> QED BY <1>4, <2>1, <4>1, <4>3
    <3> QED BY <3>2, <3>3
  <2> QED BY <1>3, <2>2, <2>3 DEF TasksOK
<1> QED BY <1>6, <1>7, <1>8, <1>10, <1>11, <1>12, <1>13 DEF RestartInv

\* Without a database, only the roster is written.
LEMMA RosterSound ==
  ASSUME RestartInv, ~store,
         UNCHANGED <<store, directory, mail, ledger, ring, number, sent, handed>>,
         UNCHANGED <<db, buffer, synced, tainted, settled>>,
         up' \in BOOLEAN, {saveTimer', dbDirty', rosterDirty'} \subseteq BOOLEAN, ~saveTimer',
         roster' = roster \/ roster' = profiles
  PROVE  RestartInv'
<1>1. /\ registered' = registered /\ parked' = parked /\ profiles' = profiles
      /\ groups' = groups /\ queue' = queue /\ leased' = leased /\ dead' = dead
  BY DEF directory, mail
<1>2. MemoryOK' BY <1>1, MemoryFacts DEF MemoryOK
<1>3. \A x : Holds(x)' = Holds(x) BY <1>1 DEF Holds
<1>4. MailOK' /\ SettledOK'
  <2>1. MailOK /\ SettledOK BY MemoryFacts
  <2> QED BY <1>1, <1>3, <2>1 DEF MailOK, SettledOK
<1>5. DbOK'
  <2>1. DbOK /\ profiles \subseteq Ids BY MemoryFacts
  <2> QED BY <1>1, <2>1 DEF DbOK
<1>6. SavedOK' BY MemoryFacts DEF SavedOK
<1>7. RingOK' BY MemoryFacts DEF RingOK
<1>8. TasksOK'
  <2>1. \A n : StoredTask(n)' = StoredTask(n) BY DEF StoredTask
  <2>2. TasksOK BY MemoryFacts
  <2> QED BY <1>1, <2>1, <2>2 DEF TasksOK
<1> QED BY <1>2, <1>4, <1>5, <1>6, <1>7, <1>8 DEF RestartInv

\* The timer of scheduleSave fires.
LEMMA SaveSound ==
  ASSUME RestartInv, Save
  PROVE  RestartInv'
<1>1. /\ saveTimer /\ saveTimer' = FALSE /\ rosterDirty' = FALSE /\ WriteRoster
      /\ IF dbDirty /\ store
         THEN dbDirty' = FALSE /\ \E s \in Stops : Flush(s[1], s[2])
         ELSE UNCHANGED <<dbDirty, db, buffer, synced, tainted, settled>>
      /\ UNCHANGED <<process, directory, mail, ledger, ring, number, sent, handed>>
  BY DEF Save
<1>2. up' = up /\ store' = store /\ up \in BOOLEAN /\ dbDirty /\ dbDirty \in BOOLEAN
  BY <1>1, MemoryFacts DEF process, MemoryOK, SavedOK
<1>3. roster' = roster \/ roster' = profiles BY <1>1 DEF WriteRoster
<1>4. CASE store
  <2>1. PICK s \in Stops : Flush(s[1], s[2]) BY <1>1, <1>2, <1>4
  <2>2. dbDirty' = FALSE BY <1>1, <1>2, <1>4
  <2> QED BY <1>1, <1>2, <1>3, <1>4, <2>1, <2>2, FlushSound
<1>5. CASE ~store BY <1>1, <1>2, <1>3, <1>5, RosterSound
<1> QED BY <1>4, <1>5

\* close.
LEMMA CloseSound ==
  ASSUME RestartInv, Close
  PROVE  RestartInv'
<1>1. /\ up' = FALSE /\ saveTimer' = FALSE /\ rosterDirty' = FALSE /\ dbDirty' = FALSE /\ WriteRoster
      /\ IF store THEN \E s \in Stops : Flush(s[1], s[2])
         ELSE UNCHANGED <<db, buffer, synced, tainted, settled>>
      /\ UNCHANGED <<store, directory, mail, ledger, ring, number, sent, handed>>
  BY DEF Close
<1>2. roster' = roster \/ roster' = profiles BY <1>1 DEF WriteRoster
<1>3. CASE store
  <2>1. PICK s \in Stops : Flush(s[1], s[2]) BY <1>1, <1>3
  <2> QED BY <1>1, <1>2, <1>3, <2>1, FlushSound
<1>4. CASE ~store BY <1>1, <1>2, <1>4, RosterSound
<1> QED BY <1>3, <1>4

-----------------------------------------------------------------------------
(* Booting.                                                                *)

\* What a boot reads.
LEMMA ImportFacts ==
  ASSUME RestartInv
  PROVE  /\ ImportProfiles \subseteq Ids /\ ImportGroups \subseteq GroupIds
         /\ ImportGroups \cap ImportProfiles = {}
         /\ (ImportProfiles = {} => roster = {})
         /\ ImportNumber \in Nat
         /\ ImportRing = Latest({r[1] : r \in db.messages}, HistoryLimit)
         /\ ImportRing \subseteq 1..sent /\ Cardinality(ImportRing) <= HistoryLimit
         /\ \A p : Stored(p) \subseteq 1..sent
         /\ \A p \in ImportGroups : Stored(p) = {}
         /\ \A p \in Mailed \ ImportGroups, m \in 1..sent : <<p, m>> \in db.mailboxes => m \in Stored(p)
         /\ \A p : \A m \in Stored(p) : <<p, m>> \in db.mailboxes
         /\ \A n \in TaskIds : StoredTask(n) \in {"none"} \cup Booked
<1>1. DbOK /\ sent \in Nat /\ sent \in 0..MaxSent BY MemoryFacts
<1>2. PICK N \in Nat : db.messages \cup buffer \subseteq (1..sent) \X (0..N) BY <1>1 DEF DbOK
<1>3. /\ ImportProfiles \subseteq Ids /\ ImportGroups \subseteq GroupIds
      /\ ImportGroups \cap ImportProfiles = {} /\ (ImportProfiles = {} => roster = {})
  BY <1>1 DEF ImportProfiles, ImportGroups, DbOK
<1>4. ImportNumber \in Nat
  <2> DEFINE T == {0} \cup {r[2] : r \in db.messages}
  <2>1. T \subseteq 0..N /\ T # {}
    <3>1. \A r \in db.messages : r[2] \in 0..N BY <1>2
    <3> QED BY <3>1
  <2>2. ImportNumber = Max(T) BY DEF ImportNumber
  <2> HIDE DEF T
  <2>3. \E n \in T : \A m \in T : m <= n BY <2>1, GreatestNumber
  <2>4. \A m \in T : m \in Nat
    <3>1. \A m \in 0..N : m \in Nat OBVIOUS
    <3> QED BY <2>1, <3>1
  <2>5. \E n \in T : \A m \in T : n >= m BY <2>3, <2>4
  <2>6. Max(T) \in T BY <2>5 DEF Max
  <2> QED BY <2>2, <2>4, <2>6
<1>5. /\ ImportRing = Latest({r[1] : r \in db.messages}, HistoryLimit)
      /\ ImportRing \subseteq 1..sent /\ Cardinality(ImportRing) <= HistoryLimit
  <2> DEFINE S == {r[1] : r \in db.messages}
  <2>1. S \subseteq 1..sent
    <3>1. \A r \in db.messages : r[1] \in 1..sent BY <1>2
    <3> QED BY <3>1
  <2>2. ImportRing = Newest(S, HistoryLimit) BY DEF ImportRing
  <2> HIDE DEF S
  <2>3. Newest(S, HistoryLimit) = Latest(S, HistoryLimit) BY Zenon DEF Newest, Latest
  <2>4. S \in SUBSET (0..sent) /\ HistoryLimit \in Nat
    <3>1. 1..sent \subseteq 0..sent BY <1>1
    <3> QED BY <2>1, <3>1, RestartAssumption
  <2>5. Cardinality(Latest(S, HistoryLimit)) <= HistoryLimit BY <1>1, <2>4, LatestFew
  <2>6. Latest(S, HistoryLimit) \subseteq S BY DEF Latest
  <2>7. /\ ImportRing = Latest(S, HistoryLimit)
        /\ ImportRing \subseteq 1..sent /\ Cardinality(ImportRing) <= HistoryLimit
    BY <2>1, <2>2, <2>3, <2>5, <2>6
  <2> QED BY <2>7 DEF S
<1>6. 1..sent \subseteq Messages BY <1>1, RestartAssumption DEF Messages
<1>7. db.mailboxes \subseteq Mailed \X (1..sent) BY <1>1 DEF DbOK
<1>8. /\ \A p : Stored(p) \subseteq 1..sent
      /\ \A p \in ImportGroups : Stored(p) = {}
      /\ \A p \in Mailed \ ImportGroups, m \in 1..sent : <<p, m>> \in db.mailboxes => m \in Stored(p)
      /\ \A p : \A m \in Stored(p) : <<p, m>> \in db.mailboxes
  BY <1>6, <1>7 DEF Stored
<1>9. ASSUME NEW n \in TaskIds PROVE StoredTask(n) \in {"none"} \cup Booked
  <2>1. db.tasks \subseteq TaskIds \X Booked BY <1>1 DEF DbOK
  <2>2. CASE \E row \in db.tasks : row[1] = n
    <3> DEFINE c == CHOOSE row \in db.tasks : row[1] = n
    <3>1. c \in db.tasks BY <2>2
    <3>2. c[2] \in Booked BY <2>1, <3>1
    <3> QED BY <2>2, <3>2 DEF StoredTask
  <2>3. CASE ~\E row \in db.tasks : row[1] = n BY <2>3 DEF StoredTask
  <2> QED BY <2>2, <2>3
<1> QED BY <1>3, <1>4, <1>5, <1>8, <1>9

\* What fits into a mailbox: what was stored, or as much as it takes.
LEMMA FitsFacts ==
  ASSUME RestartInv, NEW kept, Fits(kept), NEW p \in Mailed
  PROVE  /\ kept[p] \subseteq Stored(p)
         /\ Cardinality(kept[p]) <= MaxQueue
         /\ kept[p] = Stored(p) \/ Cardinality(kept[p]) = MaxQueue
<1>1. kept[p] \subseteq Stored(p) /\ Cardinality(kept[p]) = Min({Cardinality(Stored(p)), MaxQueue})
  BY DEF Fits
<1>2. IsFiniteSet(Stored(p)) /\ Cardinality(Stored(p)) \in Nat
  <2>1. Stored(p) \subseteq 1..sent BY ImportFacts
  <2>2. sent \in Nat BY MemoryFacts
  <2>3. Stored(p) \in SUBSET (0..sent)
    <3>1. 1..sent \subseteq 0..sent BY <2>2
    <3> QED BY <2>1, <3>1
  <2> QED BY <2>2, <2>3, NumbersFinite
<1>3. MaxQueue \in Nat BY RestartAssumption
<1> DEFINE a == Cardinality(Stored(p))
           S == {a, MaxQueue}
<1>4. Min(S) \in S /\ Min(S) <= MaxQueue
  <2> HIDE DEF a
  <2>1. a \in Nat BY <1>2 DEF a
  <2>2. \E n \in S : \A m \in S : n <= m BY <1>3, <2>1
  <2>3. Min(S) \in S /\ \A m \in S : Min(S) <= m
    <3> HIDE DEF S
    <3> QED BY <2>2 DEF Min
  <2> QED BY <2>3
<1>5. Cardinality(kept[p]) = a => kept[p] = Stored(p) BY <1>1, <1>2, FS_Subset
<1> QED BY <1>1, <1>4, <1>5

\* The boot with a database that opens: a task whose copy does not fit is noted.
LEMMA BootSound ==
  ASSUME RestartInv, NEW kept \in [Mailed -> SUBSET Messages], Boot(kept)
  PROVE  RestartInv'
<1> DEFINE evicted == UNION {{p} \X (Stored(p) \ kept[p]) : p \in Mailed}
           out     == {e[2] : e \in evicted}
<1>1. /\ Fits(kept) /\ up' = TRUE /\ store' = TRUE /\ registered' = {}
      /\ profiles' = ImportProfiles /\ groups' = ImportGroups
      /\ queue' = kept /\ leased' = Nothing /\ dead' = Nothing
      /\ parked' = {p \in Mailed : Stored(p) # {}}
      /\ ledger' = ImportTasks(out) /\ number' = ImportNumber + Cardinality(evicted)
      /\ ring' = ImportRing /\ buffer' = {}
      /\ rosterDirty' = FALSE /\ saveTimer' = FALSE
      /\ dbDirty' = (ring' # {} \/ kept # Nothing \/ groups' # {})
      /\ synced' = FALSE
      /\ UNCHANGED <<db, roster, settled, tainted, sent, handed>>
  BY DEF Boot
<1>2. \A p \in Mailed : \A m \in Stored(p) \ kept[p] : m \in out
  <2> SUFFICES ASSUME NEW p \in Mailed, NEW m \in Stored(p) \ kept[p] PROVE m \in out OBVIOUS
  <2>1. <<p, m>> \in evicted OBVIOUS
  <2> HIDE DEF evicted
  <2>2. <<p, m>>[2] \in out BY <2>1
  <2> QED BY <2>2
<1>3. Cardinality(evicted) \in Nat
  <2>1. IsFiniteSet(Mailed) BY RestartAssumption
  <2>2. IsFiniteSet(1..sent)
    <3>1. 1 \in Int /\ sent \in Int BY MemoryFacts
    <3> QED BY <3>1, FS_Interval
  <2>3. IsFiniteSet(Mailed \X (1..sent)) BY <2>1, <2>2, FS_Product
  <2>4. evicted \subseteq Mailed \X (1..sent)
    <3>1. \A p : Stored(p) \subseteq 1..sent BY ImportFacts
    <3> QED BY <3>1
  <2> HIDE DEF evicted
  <2> QED BY <2>3, <2>4, FS_Subset, FS_CardinalityType
<1> HIDE DEF evicted, out
<1>4. /\ ledger' \in [TaskIds -> {"none"} \cup Booked]
      /\ \A n \in TaskIds : ledger'[n] = "open" => StoredTask(n) = "open" /\ n \notin out
  <2> DEFINE book == [n \in TaskIds |-> StoredTask(n)]
  <2>1. book \in [TaskIds -> {"none"} \cup Booked] BY ImportFacts
  <2>2. ledger' = Lose(book, out, "noted") BY <1>1 DEF ImportTasks
  <2>3. \A n \in TaskIds : book[n] = StoredTask(n) OBVIOUS
  <2> HIDE DEF book
  <2> QED BY <2>1, <2>2, <2>3, LoseFacts
<1>5. \A p \in Mailed : Holds(p)' = kept[p] /\ queue'[p] = kept[p] /\ leased'[p] = {} /\ dead'[p] = {}
  BY <1>1 DEF Holds, Nothing
<1>6. MemoryOK'
  <2>1. MemoryOK /\ sent \in Nat /\ Mailed \subseteq Ids BY MemoryFacts
  <2>2. parked' \subseteq Ids \ registered' /\ groups' \cap parked' = {}
    BY <1>1, <2>1, ImportFacts
  <2>3. number' \in Nat
    <3>1. ImportNumber \in Nat BY ImportFacts
    <3> QED BY <1>1, <1>3, <3>1
  <2>4. dbDirty' \in BOOLEAN BY <1>1
  <2>5. /\ registered' \subseteq profiles' /\ profiles' \subseteq Ids /\ groups' \subseteq GroupIds
        /\ groups' \cap (registered' \cup parked' \cup profiles') = {}
        /\ ring' \subseteq 1..sent' /\ Cardinality(ring') <= HistoryLimit
    BY <1>1, <2>2, ImportFacts
  <2>6. {up', store', saveTimer', dbDirty', rosterDirty', synced', tainted'} \subseteq BOOLEAN
    BY <1>1, <2>1, <2>4 DEF MemoryOK
  <2>7. sent' \in 0..MaxSent BY <1>1, <2>1 DEF MemoryOK
  <2> QED BY <1>4, <2>2, <2>3, <2>5, <2>6, <2>7 DEF MemoryOK
<1>7. MailOK'
  <2>1. \A p \in Mailed : kept[p] \subseteq Stored(p) /\ Cardinality(kept[p]) <= MaxQueue
    BY <1>1, FitsFacts
  <2>2. \A p \in Mailed : Stored(p) \subseteq 1..sent BY ImportFacts
  <2>3. queue' \in [Mailed -> SUBSET (1..sent')] BY <1>1, <2>1, <2>2
  <2>4. leased' \in [Mailed -> SUBSET (1..sent')] /\ dead' \in [Mailed -> SUBSET (1..sent')]
    BY <1>1 DEF Nothing
  <2>5. \A p \in Mailed : Holds(p)' # {} => p \in registered' \cup parked' BY <1>1, <1>5, <2>1
  <2>6. \A p \in Mailed : Cardinality(queue'[p]) <= MaxQueue BY <1>5, <2>1
  <2> QED BY <2>3, <2>4, <2>5, <2>6 DEF MailOK
<1>8. DbOK'
  <2>1. DbOK BY MemoryFacts
  <2>2. profiles' = {} => roster = {} BY <1>1, ImportFacts
  <2>3. \E N \in Nat : db'.messages \cup buffer' \subseteq (1..sent') \X (0..N)
    BY <1>1, <2>1 DEF DbOK
  <2> QED BY <1>1, <2>1, <2>2, <2>3 DEF DbOK
<1>9. SavedOK' BY <1>1 DEF SavedOK
<1>10. RingOK'
  <2>1. db'.messages \cup buffer' = db.messages BY <1>1
  <2>2. ring' = Latest({r[1] : r \in db.messages}, HistoryLimit) BY <1>1, ImportFacts
  <2> QED BY <2>1, <2>2 DEF RingOK
<1>11. SettledOK'
  <2>1. SettledOK BY MemoryFacts
  <2>2. \A p \in Mailed : \A m \in kept[p] : <<p, m>> \in db.mailboxes
    BY <1>1, FitsFacts, ImportFacts
  <2>3. \A p \in Mailed : settled \cap kept[p] = {}
    <3> SUFFICES ASSUME NEW p \in Mailed, NEW m \in kept[p] PROVE m \notin settled OBVIOUS
    <3>1. <<p, m>> \in db.mailboxes /\ <<p, m>>[2] = m BY <2>2
    <3> QED BY <2>1, <3>1 DEF SettledOK
  <2> QED BY <1>1, <1>5, <2>1, <2>3 DEF SettledOK
<1>12. TasksOK'
  <2> SUFFICES ASSUME ~tainted' PROVE TasksOK' BY DEF TasksOK
  <2>1. \A n \in TaskIds : StoredTask(n) = "open" =>
          n \in handed \/ \E p \in Mailed : <<p, n>> \in db.mailboxes /\ p \notin db.groups
    BY <1>1, MemoryFacts DEF TasksOK
  <2>2. \A n \in TaskIds : StoredTask(n)' = StoredTask(n) BY <1>1 DEF StoredTask
  <2>3. ASSUME NEW n \in TaskIds, ledger'[n] = "open"
        PROVE  n \in handed' \/ \E p \in Mailed : n \in queue'[p] \cup leased'[p]
    <3>1. StoredTask(n) = "open" /\ n \notin out BY <1>4, <2>3
    <3>2. CASE n \in handed BY <1>1, <3>2
    <3>3. CASE n \notin handed
      <4>1. PICK p \in Mailed : <<p, n>> \in db.mailboxes /\ p \notin db.groups
        BY <2>1, <3>1, <3>3
      <4>2. n \in 1..sent
        <5>1. db.mailboxes \subseteq Mailed \X (1..sent) BY MemoryFacts DEF DbOK
        <5> QED BY <4>1, <5>1
      <4>3. p \notin ImportGroups BY <4>1 DEF ImportGroups
      <4>4. n \in Stored(p) BY <4>1, <4>2, <4>3, ImportFacts
      <4>5. n \in kept[p] BY <1>2, <3>1, <4>4
      <4> QED BY <1>5, <4>5
    <3> QED BY <3>2, <3>3
  <2> QED BY <1>1, <2>1, <2>2, <2>3 DEF TasksOK
<1> QED BY <1>6, <1>7, <1>8, <1>9, <1>10, <1>11, <1>12 DEF RestartInv

\* The boot with a database that does not open.
LEMMA BootWithoutStoreSound ==
  ASSUME RestartInv, BootWithoutStore
  PROVE  RestartInv'
<1>1. /\ up' = TRUE /\ store' = FALSE
      /\ registered' = {} /\ parked' = {} /\ profiles' = roster /\ groups' = {}
      /\ queue' = Nothing /\ leased' = Nothing /\ dead' = Nothing
      /\ ledger' = [n \in TaskIds |-> "none"]
      /\ ring' = {} /\ number' = 0 /\ buffer' = {}
      /\ rosterDirty' = FALSE /\ dbDirty' = FALSE /\ saveTimer' = FALSE
      /\ synced' = FALSE
      /\ UNCHANGED <<db, roster, settled, tainted, sent, handed>>
  BY DEF BootWithoutStore
<1>2. MemoryOK /\ DbOK /\ SettledOK /\ TasksOK BY MemoryFacts
<1>3. Cardinality({}) = 0 /\ MaxQueue \in Nat /\ HistoryLimit \in Nat
  BY FS_EmptySet, RestartAssumption
<1>4. \A p \in Mailed : Holds(p)' = {} /\ queue'[p] = {} BY <1>1 DEF Holds, Nothing
<1>5. MemoryOK'
  <2>1. {up', store', saveTimer', dbDirty', rosterDirty', synced', tainted'} \subseteq BOOLEAN
    BY <1>1, <1>2 DEF MemoryOK
  <2>2. ledger' \in [TaskIds -> {"none"} \cup Booked] BY <1>1
  <2>3. /\ registered' \subseteq profiles' /\ profiles' \subseteq Ids
        /\ parked' \subseteq Ids \ registered' /\ groups' \subseteq GroupIds
        /\ groups' \cap (registered' \cup parked' \cup profiles') = {} /\ ring' \subseteq 1..sent'
    BY <1>1, <1>2 DEF DbOK
  <2>4. number' \in Nat /\ Cardinality(ring') <= HistoryLimit BY <1>1, <1>3
  <2>5. sent' \in 0..MaxSent BY <1>1, <1>2 DEF MemoryOK
  <2> QED BY <2>1, <2>2, <2>3, <2>4, <2>5 DEF MemoryOK
<1>6. MailOK'
  <2>1. Nothing \in [Mailed -> SUBSET (1..sent')] BY DEF Nothing
  <2>2. \A p \in Mailed : Cardinality(queue'[p]) <= MaxQueue BY <1>3, <1>4
  <2> QED BY <1>1, <1>4, <2>1, <2>2 DEF MailOK
<1>7. DbOK'
  <2>1. \E N \in Nat : db'.messages \cup buffer' \subseteq (1..sent') \X (0..N)
    BY <1>1, <1>2 DEF DbOK
  <2> QED BY <1>1, <1>2, <2>1 DEF DbOK
<1>8. SavedOK' /\ RingOK' BY <1>1 DEF SavedOK, RingOK
<1>9. SettledOK' BY <1>1, <1>2, <1>4 DEF SettledOK
<1>10. TasksOK'
  <2>1. \A n \in TaskIds : StoredTask(n)' = StoredTask(n) /\ ledger'[n] = "none"
    BY <1>1 DEF StoredTask
  <2> QED BY <1>1, <1>2, <2>1 DEF TasksOK
<1> QED BY <1>5, <1>6, <1>7, <1>8, <1>9, <1>10 DEF RestartInv

\* Nothing happens.
LEMMA StutterSound ==
  ASSUME RestartInv, UNCHANGED vars
  PROVE  RestartInv'
<1>1. UNCHANGED <<process, directory, mail, ledger, ring, number, buffer, dirt, disk, sent, handed>>
  BY DEF vars
<1>2. /\ up' = up /\ store' = store /\ registered' = registered /\ parked' = parked
      /\ profiles' = profiles /\ groups' = groups /\ queue' = queue /\ leased' = leased /\ dead' = dead
      /\ ledger' = ledger /\ ring' = ring /\ number' = number /\ buffer' = buffer
      /\ rosterDirty' = rosterDirty /\ dbDirty' = dbDirty /\ saveTimer' = saveTimer
      /\ db' = db /\ roster' = roster /\ settled' = settled /\ synced' = synced /\ tainted' = tainted
      /\ sent' = sent /\ handed' = handed
  BY <1>1 DEF process, directory, mail, dirt, disk
<1>3. MailOK' /\ SettledOK' BY <1>1, <1>2, MailSame
<1>4. MemoryOK' BY <1>2, MemoryFacts DEF MemoryOK
<1>5. DbOK' BY <1>1, <1>2, DbSame
<1>6. SavedOK' BY <1>2, MemoryFacts DEF SavedOK, Current, ExportMailboxes, Holds, StoredTask
<1>7. RingOK' BY <1>1, MemoryFacts, RingSame
<1>8. TasksOK' BY <1>1, TasksSame
<1> QED BY <1>3, <1>4, <1>5, <1>6, <1>7, <1>8 DEF RestartInv

-----------------------------------------------------------------------------
(* The specification.                                                      *)

\* Every step keeps the invariant.
LEMMA InvNext ==
  ASSUME RestartInv, [Next]_vars
  PROVE  RestartInv'
<1>1. CASE \E p \in Ids : Register(p) BY <1>1, RegisterSound
<1>2. CASE \E p \in Mailed : Park(p) \/ Leave(p) \/ Expire(p) \/ Queue(p)
  BY <1>2, ParkSound, LeaveSound, ExpireSound, QueueSound
<1>3. CASE \E g \in GroupIds : CreateGroup(g) \/ DeleteGroup(g) BY <1>3, GroupSound
<1>4. CASE \E p \in Mailed, manual \in BOOLEAN : HandToWaiter(p, manual) \/ Poll(p, manual)
  BY <1>4, WaiterSound, PollSound
<1>5. CASE \E p \in Mailed, m \in Messages : Commit(p, m) \/ Requeue(p, m) \/ DeadLetter(p, m)
  BY <1>5, CommitSound, RequeueSound, DeadLetterSound
<1>6. CASE \E n \in TaskIds : EndTask(n) BY <1>6, EndTaskSound
<1>7. CASE Save \/ Close BY <1>7, SaveSound, CloseSound
<1>8. CASE \E kept \in [Mailed -> SUBSET Messages] : Boot(kept) BY <1>8, BootSound
<1>9. CASE BootWithoutStore BY <1>9, BootWithoutStoreSound
<1>10. CASE UNCHANGED vars BY <1>10, StutterSound
<1> QED BY <1>1, <1>2, <1>3, <1>4, <1>5, <1>6, <1>7, <1>8, <1>9, <1>10 DEF Next

\* In every state the process, its mailboxes and the database are as the invariant
\* says, whatever was saved, cut short or restored before
\* (src/src/index.ts, src/src/persist.ts, the exports and imports of src/src/hub.ts).
THEOREM RestartIsSound == Spec => []RestartInv
<1>1. RestartInv /\ [Next]_vars => RestartInv' BY InvNext
<1> QED BY <1>1, InvInit, PTL DEF Spec

\* The types; no mailbox is above its limit after any boot, and no group has the id
\* of a peer that is known, parked or has mail (importGroups, importMailboxes).
THEOREM RestartIsTyped == Spec => []TypeOK
<1>1. RestartInv => TypeOK
  <2> SUFFICES ASSUME RestartInv PROVE TypeOK OBVIOUS
  <2>1. MemoryOK /\ MailOK BY MemoryFacts
  <2>2. \A p \in Mailed : Holds(p) \subseteq 1..sent /\ Cardinality(queue[p]) <= MaxQueue
    BY <2>1, MemoryFacts DEF MailOK
  <2>3. groups \cap (registered \cup parked \cup profiles \cup {p \in Mailed : Holds(p) # {}}) = {}
    BY <2>1 DEF MemoryOK, MailOK
  <2> QED BY <2>1, <2>2, <2>3 DEF TypeOK, MemoryOK, Booked
<1> QED BY <1>1, RestartIsSound, PTL

\* Once everything has been saved, the database holds what the hub holds whenever no
\* timer is armed: no operation changes what is saved without a save to follow
\* (scheduleSave and the hooks of src/src/index.ts).
THEOREM QuietDiskStaysCurrent == Spec => []QuietDiskIsCurrent
<1>1. RestartInv => QuietDiskIsCurrent BY DEF RestartInv, SavedOK, Current, QuietDiskIsCurrent
<1> QED BY <1>1, RestartIsSound, PTL

\* No mail is unaccounted for: what was consumed before a completed flush never comes
\* back, and an open task is with somebody, on its way, or noted as lost
\* (exportMailboxes, importMailboxes, flush).
THEOREM MailStaysAccountedFor == Spec => []MailIsAccountedFor
<1>1. RestartInv => MailIsAccountedFor
  <2> SUFFICES ASSUME RestartInv PROVE MailIsAccountedFor OBVIOUS
  <2>1. SettledOK /\ TasksOK BY MemoryFacts
  <2>2. \A p \in Mailed : settled \cap (queue[p] \cup leased[p]) = {}
    BY <2>1 DEF SettledOK, Holds
  <2> QED BY <2>1, <2>2 DEF TasksOK, MailIsAccountedFor
<1> QED BY <1>1, RestartIsSound, PTL

\* Of all steps, only a boot forgets a completed flush, unless one fails.
LEMMA OnlyBootsReboot ==
  ASSUME RestartInv, [Next]_vars, Rebooted
  PROVE  \E kept \in [Mailed -> SUBSET Messages] : Boot(kept)
<1>1. synced /\ ~synced' /\ tainted' = tainted /\ store' BY DEF Rebooted
<1>2. ~UNCHANGED disk BY <1>1 DEF disk
<1>3. ~\E p \in Ids : Register(p) BY <1>2 DEF Register
<1>4. ~\E p \in Mailed : Park(p) \/ Leave(p) \/ Expire(p) \/ Queue(p)
  BY <1>2 DEF Park, Leave, Expire, Queue
<1>5. ~\E g \in GroupIds : CreateGroup(g) \/ DeleteGroup(g) BY <1>2 DEF CreateGroup, DeleteGroup
<1>6. ~\E p \in Mailed, manual \in BOOLEAN : HandToWaiter(p, manual) \/ Poll(p, manual)
  BY <1>2 DEF HandToWaiter, Poll
<1>7. ~\E p \in Mailed, m \in Messages : Commit(p, m) \/ Requeue(p, m) \/ DeadLetter(p, m)
  BY <1>2 DEF Commit, Requeue, DeadLetter
<1>8. ~\E n \in TaskIds : EndTask(n) BY <1>2 DEF EndTask
<1>9. ~\E s \in Stops : Flush(s[1], s[2])
  <2> SUFFICES ASSUME NEW s \in Stops, Flush(s[1], s[2]) PROVE FALSE OBVIOUS
  <2>1. synced' = TRUE \/ (tainted' = TRUE /\ ~tainted) BY FlushFacts
  <2> QED BY <1>1, <2>1
<1>10. ~Save /\ ~Close
  <2>1. ASSUME Save PROVE synced' = synced \/ \E s \in Stops : Flush(s[1], s[2])
    BY <2>1 DEF Save
  <2>2. ASSUME Close PROVE synced' = synced \/ \E s \in Stops : Flush(s[1], s[2])
    BY <2>2 DEF Close
  <2> QED BY <1>1, <1>9, <2>1, <2>2
<1>11. ~BootWithoutStore BY <1>1 DEF BootWithoutStore
<1>12. ~UNCHANGED vars BY <1>2 DEF vars
<1> QED BY <1>3, <1>4, <1>5, <1>6, <1>7, <1>8, <1>10, <1>11, <1>12 DEF Next

\* A boot from a database that holds what the hub held.
LEMMA BootFromCurrent ==
  ASSUME RestartInv, Current, store, NEW kept \in [Mailed -> SUBSET Messages], Boot(kept)
  PROVE  /\ profiles' = profiles
         /\ groups' = groups
         /\ \A n \in TaskIds : (ledger'[n] = "over") = (ledger[n] = "over")
         /\ \A p \in Mailed : \/ queue[p] \cup leased[p] \subseteq queue'[p]
                             \/ Cardinality(queue'[p]) = MaxQueue
         /\ ~tainted => ring' = ring
<1> DEFINE out == {e[2] : e \in UNION {{p} \X (Stored(p) \ kept[p]) : p \in Mailed}}
<1>1. /\ Fits(kept) /\ profiles' = ImportProfiles /\ groups' = ImportGroups /\ queue' = kept
      /\ ledger' = ImportTasks(out) /\ ring' = ImportRing
  BY DEF Boot
<1> HIDE DEF out
<1>2. /\ buffer = {} /\ db.profiles = profiles /\ db.groups = groups
      /\ ExportMailboxes \subseteq db.mailboxes
      /\ \A n \in TaskIds : StoredTask(n) = ledger[n]
                             \/ (StoredTask(n) = "open" /\ ledger[n] = "noted")
  BY DEF Current
<1>3. /\ profiles = {} => roster = {}
      /\ groups \cap (registered \cup parked \cup profiles) = {}
  BY MemoryFacts DEF DbOK
<1>4. ImportProfiles = profiles /\ ImportGroups = groups
  BY <1>2, <1>3 DEF ImportProfiles, ImportGroups
<1>5. ASSUME NEW n \in TaskIds PROVE (ledger'[n] = "over") = (ledger[n] = "over")
  <2> DEFINE book == [i \in TaskIds |-> StoredTask(i)]
  <2>1. book \in [TaskIds -> {"none"} \cup Booked] /\ book[n] = StoredTask(n) BY ImportFacts
  <2>2. ledger' = Lose(book, out, "noted") BY <1>1 DEF ImportTasks
  <2> HIDE DEF book
  <2>3. ledger'[n] = book[n] \/ (book[n] \in {"open", "noted"} /\ ledger'[n] = "noted")
    BY <2>1, <2>2, LoseFacts
  <2>4. book[n] = ledger[n] \/ (book[n] = "open" /\ ledger[n] = "noted") BY <1>2, <2>1
  <2> QED BY <2>3, <2>4
<1>6. ASSUME NEW p \in Mailed
      PROVE  queue[p] \cup leased[p] \subseteq queue'[p] \/ Cardinality(queue'[p]) = MaxQueue
  <2>1. kept[p] = Stored(p) \/ Cardinality(kept[p]) = MaxQueue BY <1>1, FitsFacts
  <2>2. queue[p] \cup leased[p] \subseteq Stored(p)
    <3> SUFFICES ASSUME NEW m \in queue[p] \cup leased[p] PROVE m \in Stored(p) OBVIOUS
    <3>1. p \in registered \cup parked
      <4>1. Holds(p) # {} BY DEF Holds
      <4> QED BY <4>1, MemoryFacts
    <3>2. p \notin ImportGroups BY <1>3, <1>4, <3>1
    <3>3. <<p, m>> \in db.mailboxes BY <1>2, ExportFacts
    <3>4. m \in 1..sent BY MemoryFacts
    <3> QED BY <3>2, <3>3, <3>4, ImportFacts
  <2> QED BY <1>1, <2>1, <2>2
<1>7. ASSUME ~tainted PROVE ring' = ring
  <2>1. ring = Latest({r[1] : r \in db.messages \cup buffer}, HistoryLimit)
    BY <1>7, MemoryFacts DEF RingOK
  <2>2. db.messages \cup buffer = db.messages BY <1>2
  <2>3. ImportRing = Latest({r[1] : r \in db.messages}, HistoryLimit) BY ImportFacts
  <2> QED BY <1>1, <2>1, <2>2, <2>3
<1> QED BY <1>1, <1>4, <1>5, <1>6, <1>7

\* A hub that was closed, or stopped while nothing waited to be saved, comes back with
\* its profiles, groups, tasks and history, and with its mail as far as it fits.
THEOREM RestartsKeepTheState == Spec => RestartKeepsState
<1>1. ASSUME RestartInv, [Next]_vars, Rebooted, ~saveTimer
      PROVE  /\ profiles' = profiles
             /\ groups' = groups
             /\ \A n \in TaskIds : (ledger'[n] = "over") = (ledger[n] = "over")
             /\ \A p \in Mailed : \/ queue[p] \cup leased[p] \subseteq queue'[p]
                                 \/ Cardinality(queue'[p]) = MaxQueue
             /\ ~tainted => ring' = ring
  <2>1. PICK kept \in [Mailed -> SUBSET Messages] : Boot(kept) BY <1>1, OnlyBootsReboot
  <2>2. synced BY <1>1 DEF Rebooted
  <2>3. Current /\ store BY <1>1, <2>2, MemoryFacts DEF SavedOK
  <2> QED BY <1>1, <2>1, <2>3, BootFromCurrent
<1>2. RestartInv /\ [Next]_vars =>
        [Rebooted /\ ~saveTimer =>
           /\ profiles' = profiles
           /\ groups' = groups
           /\ \A n \in TaskIds : (ledger'[n] = "over") = (ledger[n] = "over")
           /\ \A p \in Mailed : \/ queue[p] \cup leased[p] \subseteq queue'[p]
                               \/ Cardinality(queue'[p]) = MaxQueue
           /\ ~tainted => ring' = ring]_vars
  BY <1>1
<1> QED BY <1>2, RestartIsSound, PTL DEF Spec, RestartKeepsState

=============================================================================
