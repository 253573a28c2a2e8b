# Formal models of agent-comm-hub

TLA+ specifications of the message hub in `src/src/`, of its desktop app and of what
its admin page does on its own, model-checked with TLC and, but for liveness, proved with TLAPS. Paths below are
relative to the repository's own root, so `hub.ts` is `src/src/hub.ts`.

## 1. The system

The hub is one Node.js process that agents reach over MCP (HTTP + SSE). All
state is in memory and every method of the hub is synchronous: a call runs to
its end before another one starts. What interleaves is the *calls*: tools of
many sessions, timers (`gcTick`, lease expiry, SLA timers, wait timeouts) and
the promises of runners. Time is read with `Date.now()` at the start of a call.

| Component | Code | State | Operations | Talks to |
|---|---|---|---|---|
| Mailbox | `hub.ts` | `queues`, `leases`, `leaseAttempts`, `deadLetters`, `waiters`, `drops`, `buckets` | deliver, poll, wait, commit, nack, reapLeases, sweepExpired | ledger (a lost task), runner (a queued task) |
| Registry and idle GC | `hub.ts` | `lastSeen`, `parkedAt` | register, unregister, touch, gcTick, renamePeer | mailboxes, ledger, sessions (`onPeerGc`) |
| Routing | `hub.ts` | `groups`, `history`, `seqCounter` | compose, dispatch, route, sendToGroup | mailboxes |
| Task ledger | `hub.ts`, `protocol.ts` | `taskLedger`, `taskTimers` | sendTask, sendAck, cancelTask, taskInput, fireTaskTimeout, evictOverflowTasks, foldDuplicateAssignees | mailboxes (notices, copies), `onTaskChanged` |
| Sessions | `mcp-server.ts`, `hub-tools.ts` | `SessionRegistry` | initialize, auto-register, bridge_register, bridge_unregister, bridge_rename, sweep | registry |
| Streams | `mcp-server.ts`, `index.ts` | `sseStreams`, `liveStreams`, `streamCursor` | GET, notify, pushQueued, sweep | sessions, clients |
| Runners and terminals | `index.ts`, `runner.ts`, `herdr-ctl.ts` | `runnerQueue` | runTask, the control tools | ledger; herdr and commands (external) |
| Persistence | `persist.ts`, `index.ts` | SQLite file, buffer, dirty flags | appendMessage, flush, load, imports | everything |
| Profiles and cards | `hub.ts`, `hub-tools.ts` | `profiles` | announce, alias, discover, evict, the merge of a rename | registry |
| Access tokens | `auth.ts`, `cli.ts`, `index.ts`, `mcp-server.ts` | token file, table in force | add, remove, watch, reload, `/admin/api` | transport, admin page |
| Set-up | `setup.ts`, `discover.ts` | the configs of other agents | discover, install, remove | their owners |
| Desktop app | `app/src-tauri/src/*.rs`, `app/src/stores/*.ts` | hub process, MCP client, pool and archive, roster, settings | start, stop, call, subscribe, merge, kick, save | the hub, over HTTP and SSE |
| History, events | `hub.ts` | rings with cursors | read only | - |
| Admin page | `admin/src/App.tsx`, `admin/src/lib/mcp.ts` | MCP session, token table | refresh, reveal, issue, revoke | the hub, over HTTP |
| HTTP framing, other views | the rest | configuration, I/O | - | - |

What is hard in this code, and what makes each part correct:

* **Mailbox.** One message has up to three homes (queue, lease, dead letter) and
  a counter. Correct means: it is in exactly one home until it is settled, it
  is settled once, every loss is counted, the bounds hold on every way in, the
  queue is in delivery order on every way in, no expired message is handed out,
  and no message is held for ever by a taker that died.
* **Registry and GC.** A peer that goes idle is parked, not forgotten. Mail goes
  only when its owner has left or stayed away for the TTL.
* **Task ledger.** A task fans out to a row per assignee. Acks, cancels, losses
  of copies and the timer reach the rows in any order, some stop half-way. A
  task must be over exactly when its rows are, never come back, keep its
  deadline armed while open, and not be evicted while open.
* **Sessions.** Many sessions share a peer; binding and registry are two maps in
  two classes that must agree across refusals, sweeps, GC and renames.
* **Persistence.** Debounced saves of part of the state, without a transaction.
  After a crash anywhere, nothing that was settled may come back, and a loss has
  to be on record; after a clean stop everything has to be there again.
* **Streams and clients.** The hub and the app lose each other at any time, and
  both keep what the other has forgotten. The app has to come back to a session
  the hub knows; a peer with several streams has to get its pushes on all of them.
* **Terminals.** A prompt is typed in two requests, either of which may be lost
  before or after its effect. Two runs must not share an input line, and a run
  must end, or the peer's later tasks wait for ever.
* **Files with several writers.** The token file and the configs of agents are
  written by others while the code reads them.
* **The app's stores.** Answers overtake pushes, and snapshots each other.
* **Settings.** They are saved row by row, and read back in a step of their own, while
  the app may die. What is saved has to be what hubs are launched with.
* **Admin page.** Its calls start together and wait for nothing; each may find, make
  or lose the session of the others, and a listing may be older than the one shown.
* **Profiles.** They outlive their peers and are evicted when there are too many. What a
  live peer announced must stay its own, whatever is renamed onto what.

`PROJECT.json` lists the hazards one by one, with the line where each bites and
the property that watches it, or the reason why none does.

## 2. The modules

| Module | What it models |
|---|---|
| `Mailbox` | one mailbox as a record, and every method of the hub on it as a function from the box before to the box after |
| `Mailboxes` | the state machine: registry, parking, routing, mail tools, instants |
| `MailContract` | abstract: a copy is pending until settled, once, in one of three ways |
| `MCMailboxes` | instances of `Mailboxes` for TLC |
| `MailboxesProofs` | the theorems about `Mailboxes` |
| `TaskStatus` | statuses, `nextTaskStatus`, `aggregateTaskStatus` |
| `TaskLedger` | the state machine of the ledger, its timers, and what leaving, parking and losing mail do to it |
| `TaskContract` | abstract: open, then over for good; settled rows stay; only what is over is forgotten |
| `MCTaskLedger` | instances of `TaskLedger` for TLC |
| `TaskLedgerProofs` | the theorems about `TaskLedger` |
| `Sessions` | the state machine of sessions, peers and groups: who acts for whom, under which id, and what becomes of the mail |
| `MCSessions` | instances of `Sessions` for TLC |
| `SessionsProofs` | the theorems about `Sessions` |
| `Restart` | what makes state dirty, the debounced save, the flush statement by statement with errors and crashes, close, and the boot with its imports |
| `MCRestart` | instances of `Restart` for TLC |
| `RestartProofs` | the theorems about `Restart` |
| `Streams` | the hub's end of the transport: sessions, streams, and the stream a push goes to |
| `DesktopClient` | the app's MCP client, its commands and watchdogs, composed with `Streams` |
| `MCDesktopClient` | instances of `DesktopClient` for TLC |
| `AdminPage` | the token table on the admin page, and the hub's `/admin/api` |
| `Recovery` | `DesktopClient` and `AdminPage`, with the fairness of both |
| `MCRecovery` | an instance of `Recovery` for TLC |
| `StreamsProofs` | the theorems about `Streams`, `DesktopClient` and `AdminPage` |
| `HubProcess` | the app's controller of the hub process, with its monitors and children |
| `MessageFeed` | the app's message pool, its archive and its read marks |
| `Roster` | what the app knows of the hub's peers |
| `Settings` | the panel, the config table and the config in memory |
| `AdminSession` | the MCP session of the admin page, and the hub's end of it |
| `DesktopApp` | `HubProcess`, `MessageFeed`, `Roster`, `Settings` and `AdminSession` side by side |
| `MCDesktopApp` | an instance of `DesktopApp` for TLC |
| `DesktopProofs` | the theorems about `DesktopApp` and its parts |
| `Terminals` | the queue of runs of each peer, and what runs and control tools do to the panes |
| `TaskRecords` | one task in depth: its timeline, what `onTaskChanged` is told, and renames of its assignees |
| `Tokens` | the token file, its writers, and the table the hub made of it |
| `Setup` | a set-up editing the configs of agents while their owners do |
| `Directory` | profiles with their aliases and cards, who carries and who loses them |
| `HubBooks` | `Terminals`, `TaskRecords`, `Tokens`, `Setup` and `Directory` side by side |
| `MCHubBooks` | an instance of `HubBooks` for TLC |
| `HubBooksProofs` | the theorems about `HubBooks` and its parts |
| `Lists` | the elements of a list, and the filter of an array, for `Mailbox` and `Streams` |
| `SharedFacts` | lemmas that several proofs need: numbers and sets of numbers, sequences, the filter of `Lists`, statuses |

`DesktopApp`, `HubBooks` and `Recovery` compose nothing: the state of their parts is
apart, every behaviour is one of one part, and they are checked in one run only
because each is small. Each part is also proved about on its own.

### How state and actions correspond

`Mailboxes`: `registered` is `lastSeen.keys()`, `parked` is `parkedAt.keys()`,
`box[p]` gathers the maps keyed by `p`, `seq` numbers the messages sent. One
action is one synchronous call: `Register`, `Unregister`, `GcTick`, `Send`
(`compose` + `dispatch` + `deliver` to each target), `PollMail`, `WaitForMail`,
`CommitMail`, `NackMail`. The instants a comparison with `Date.now()` depends on
are actions of their own: `LeaseLapses`, `DeadlinePasses`, `WaitEnds`.

`TaskLedger`: `ledger`, `timers` and `running` are `taskLedger`,
`taskTimers.keys()` and `runnerQueue`. Actions: `SendTask`, `Ack`,
`CancelAsAssignee`, `CancelAsSender`, `TaskInput`, `FireTaskTimeout`,
`RunnerEnds`, `Register`, `Unregister`, `GcTick`, `MoveMail`.

`Sessions`: `sessions`, `streams`, `binding` and `suppressed` are the maps of
`SessionRegistry`; `registered`, `parked`, `profiles` and `queues` the keys of
those of the hub; `creator` and `members` are `groups`. One action is one
request, tool call or timer: `Initialize`, `OpenStream`, `CloseStream`, `Sweep`,
`Call` (any tool that needs a peer and changes nothing here), `Send`, `Poll`,
`RegisterMoving` and `RegisterAnew` (the two ways through `bridge_register`),
`Rename`, `Announce` (`bridge_announce`, which gives the caller a profile),
`Leave`, `Kick`, `GcTick`, and the four group tools. `RequirePeer` is the step most
tools begin with: it may register the caller on the way. `RegisterAnew` of the id of
a group binds the session and registers nobody, as `hub-tools.ts:570` does.

`Restart`: the variables are the maps of the hub as far as they are saved, the
flags and the timer of `index.ts`, the buffer of the store, `db` with one set of
rows per table, and `roster` for `roster.json`. Each operation of the hub ends in
`StateChanged`, `PeersChanged` or, where the code calls no hook, `Quiet`. `Save`
and `Close` stop at any statement (`Stops`); `Boot` may follow at any time, which
is what a crash looks like. The memory of the process that ended stays in the
variables until that boot, so that it can be compared with what is restored.

`Streams` and `DesktopClient`: the hub handles a request in the step that sends
it, and the app deals with the answer in a later one (`at` of each command, `dog`
of each client). `StreamCloses` is the close event of a response, late or not.

`HubProcess`: `call[c].at` is the await a call of `start`, `stop` or `restart`
stands at; `watched` and `probing` are the tasks spawned to wait for a child or
probe an external hub.

`MessageFeed` and `Roster`: what is under way (`arriving`, `answers`, `marking`,
`restored`; `arrived`, `synced`, `kicking`, `leaving`, `listing`) is taken in any
order.

`Terminals`: `typing[c].at` is the request a run or a tool call is at. Every
request fails before its effect, or after it. `task[r]` is the row a run is for: closed
by others, or `cut_off` while no ack of the runner would close it, because its peer
was renamed, the sender is gone or the ledger has forgotten the task. `TaskRecords`: `record` is the
`TaskRecord`, `announced` the status of the last `onTaskChanged`. `Tokens`:
`editing` is where a writer is between reading the file, writing `<file>.tmp` and
renaming it. `Setup`: `run` is where a set-up is between reading a config, backing
it up and writing it.

`Settings`: `save[s].at` is the step of a save: writing rows (`config_set`), reading
them back, setting the config, or restarting (`hub_restart_with_saved_config`).
`AdminSession`: `asked[k]` is the request of a call, or the answer that travels back.
`AdminPage`: listings (`asking` at the hub, `listings` on their way back) and changes
(`changing`) are taken in any order. `client` is what the page's MCP session is to the
hub: known (`ready`), not (`stale`), or, for good, gone from a client that takes itself
for ready (`wedged`, see 5). Only a `ready` client's refresh gets as far as a listing.

`Directory`: `live` and `parked` are `lastSeen.keys()` and `parkedAt.keys()`; `said`
is a history variable, what a peer announced last.

### Abstractions

* A message is an id, a sender, a priority, a thread and whether it has a
  deadline. Content, formatting and history are left out.
* Time: a lease carries whether it has lapsed; `due` is the set of ids whose
  deadline has passed. Leases of one mailbox lapse in the order they were taken,
  because all have the same length.
* The notice the hub makes about the loss of message i has the id
  `i + NoticeGap`, so a notice about a notice has one too. `MaxId` keeps mail
  from expiring into notices without end: a bound of the model.
* A waiter filters by sender and thread; the filters by reference and status
  select in the same way.
* The token bucket may admit or refuse any message (`Admissions`).
* `gcTick` may find any registered peer idle and any parked one overdue.
* In `TaskLedger` a mailbox is the set of the tasks it holds a copy of; which
  copies a call on it takes, drops or evicts is left open. Which finished tasks
  an overflow evicts is left open too (the code takes the least recently updated).
* The audience of a task is listed in any order: the maps and groups it comes
  from are insertion-ordered by who came first.
* In `Sessions` a mailbox is the set of its letters, wherever in the mailbox they
  are. A letter that a waiter takes at once is in no mailbox, so waiters need no
  variable.
* Tokens and manager rights are constants of a session, and the ids of the token
  table those of its sessions. `profiles` is below `MAX_PROFILES`, so none is
  evicted. A generated id is any of `Spare`, not only an unused one.
* A session id that was swept may be initialized again; in the code it is a new
  id, and nothing tells the two apart.
* A broadcast is left out of `Sessions`: to the mailboxes it is a send to each peer.
* A tool call that ends in an error is left out where it changes nothing but
  that its caller joined: `Call` is that step.
* `Restart` leaves out priorities, deadlines and texts; of the notices only the
  numbers are there. `profiles` and the dead letters stay below their limits. A
  second failure or cut of a flush, and one of the roster together with it, are
  left out (`tainted`): a bound.
* `Streams` has one program, whose sessions either told their name or did not.
  Ids that nobody remembers are used again.
* `HubProcess` assumes that a kill ends the child. `stopped` and `failed` events,
  logs and arguments are left out.
* `MessageFeed` leaves out the hours window, and numbers messages by their ts.
  The read marks are those of one sender.
* `Roster` takes a sync of a snapshot to the table as one step.
* `Terminals` knows of the ledger the one row of each run. Whoever is renamed may take
  the name back, and a sender that left may return (`Restored`).
* `Terminals` assumes that a runner's target is its peer (the default), so no two
  runners type into one pane.
* `TaskRecords` has one task, whose sender stays. Its deadline passes at any time,
  and more assignees than `MaxAcks` are excluded (200 in the code).
* `Tokens` gives every write a new mtime and every token a new value.
* `Setup` leaves out where in a file things stand. A config holds the hub's
  entries, and its owner's entries and comments.
* `Settings`: a row that is missing, empty or unparsable has no value, and one that
  cannot be read counts as missing (`commands.rs:36` drops the error). The rows an app
  start finds may be those of any time. That a save failed half-way or overlapped
  another one, or that a row could not be read, is noted in `unsure`; the run has one
  save.
* `AdminSession` has one endpoint and one token, so one client. Tools and their results
  are left out.
* `AdminPage` knows a token by its peer. The MCP calls before each listing are those of
  `AdminSession`; here they are answered or not, by what `client` is. A write of the
  file is one step (`Tokens` has the steps).
* `Directory`: a mailbox is there while its owner is registered or parked. That ids of
  groups are apart is part of `Sessions`.
* History variables `offered`, `read`, `dropped`, `discarded` say what became of
  each message. They guard nothing.

## 3. The runs

| Run | Question | Bounds |
|---|---|---|
| `mailbox_safety` | Is any message lost in silence or held twice, or any bound or order broken? | 3 messages of two priorities, queue 2, one dead letter, one attempt |
| `mailbox_leases` | Do attempt counters survive every way back, is nothing handed out after its deadline, and does the mailbox keep `MailContract`? | 2 messages, groups, threads, batches of 2, a bucket, 2 attempts |
| `mailbox_liveness` | Does every lease end? | 2 messages, fair timers |
| `ledger_safety` | Is a task over exactly with its rows, and is an open deadline armed? | 3 peers, one task to any address, a runner |
| `ledger_contract` | Is the ledger an implementation of `TaskContract`, and does a deadline end? | 2 peers, 2 tasks, room for one |
| `sessions_safety` | Do sessions, registry, groups and mailboxes fit together, and is mail lost only when nobody acts for its owner? | 3 sessions of one name (two alike), one token, one that streams, 3 ids of which two may be claimed (the group's too), one group, one letter |
| `restart_safety` | What do crashes, failed and clean stops make of mail, tasks, groups and history? | 2 messages, one of them a task, a mailbox of one, 2 ids, one of which a group may take; one failed flush |
| `desktop_safety` | Do registry and transport agree about streams, and does every stream get pushes? | 2 commands, 2 clients, 2 sessions, 2 responses |
| `desktop_recovers` | Does the app come back to a session after any loss? Does the admin page come to show the token table there is? | 1 command, 2 clients, 2 sessions, 1 response; 1 token, 2 answers at a time |
| `app_parts` | Is a hub or a state left alone by overlapping calls? Does the pool keep the newest, does read stay read, does the roster catch up? Is what is saved in force? Do the admin page's calls stay connected? | 2 calls, 1 monitor, 2 children; 3 messages, pool of 2; 1 peer, 2 snapshots at each stage; 2 settings with 2 values, 1 save; 2 calls, 3 session ids, 1 loss |
| `hub_books` | Are inputs kept apart and runs answered? Is a loss shown, and a rename harmless? Does the table follow the file? Is an owner's config kept? Is what a peer announced what others see? | 2 runs, 1 tool call, 2 peers; 2 assignees, timeline of 3; 3 writers, 3 writes; one config of each kind, one entry, one comment; 2 ids, 1 alias, 2 cards, room for 1 profile, 4 profiles made |
| `fold_unannounced` | Is every change of a task's status reported, as `hub.ts:308` says? It is not: see 5. | those of `hub_books` |

Why the bounds are enough: mailboxes of different peers touch each other only
through sends, so one mailbox is exercised in full while an always registered
peer sends. Three messages in a queue of two force an overflow, one dead letter
slot forces an eviction of a dead letter, one attempt makes every lapsed lease
exhausted, two attempts give a retry. In the ledger two rows show every mix of
an open and a closed row, and `MaxTasks = 1` with two tasks forces an eviction,
including the one the code cannot do because the other task is open.

Of three sessions two can share a peer while the third claims, renames or
kicks; the three ids are the one of the token, the one clients are named by,
which is also the group's, and a generated one. The two sessions without a token are
managers, so that they kick and rename others (a configuration lists managers by peer,
`managerPeers`; the default at `index.ts:167` are the app and the admin page), and
alike, so the run uses their symmetry. The generated id may be claimed, and that of the
group, before and after it is created (the id of the token is left to its session, for
the time a run has; the theorems have no such bound): so each of the four guards of the namespace
refuses something in the run, and the claim refused after its session was bound (the
ghost binding of section 5) happens. The properties say what it leaves and what not.
Streams keep sessions from being swept, and nothing else here; one session that opens
them meets those that do not.

Two messages and a mailbox of one make a restart overflow what it restores; one id
that may be a peer's or a group's makes half-written tables contradict each other.
With two clients one can be superseded while its watchdog still reads; with two
responses one can close late behind the other. Two hub processes are one that
listens and one that finds the port taken. A pool of two with three messages must
drop one, whichever came last. Peers do not touch each other in the roster; with two
different snapshots of one at each of the two stages, either may come first, so that an
older one overtakes a newer, before and after it is synced. Two runs of one peer are
one that types and one that waits; a timeline of three is full after a drop and two
acks. Three writes are one that is read, one in between, and one that must be
noticed still. Two settings can be saved half-way. Two calls of the page that start
together make two sessions, and the third id is for the session after a loss. With one
token a table can be empty or not, and an answer be older than the one shown. Two peers
and room for one profile force an eviction once one of them has left.

The types of `TaskLedger`, of `Streams` and `DesktopClient`, of `AdminPage`, and of the
parts of `DesktopApp` and `HubBooks` are in no run: they are proved.

Deadlock checking is off where the program may come to rest: in the desktop runs
all commands may have returned with the hub down, and in `hub_books` the writes
and runs of the bound are used up.

### Fairness

*Hub.* Only the timers of the process are fair: leases reach their `expiresAt`, SLA
timers fire, and `setInterval` goes on calling `gcTick`. Nothing is assumed of
any agent: it may never take, commit, ack or come back.

*Desktop client.* The async runtime goes on with every command and watchdog, and
the frontend polls every few seconds. A watchdog notices the end of its response
(`StreamBroken`), a response nobody reads is closed in the end, so is the stream
of a client that was given up, and the hub sweeps a session nobody remembers:
each is a time-out of the code or of TCP. `Recovers` itself supposes that the hub
comes to stay up, and that it comes to stop sweeping a session the app still uses.
(`AppRecovers` is `Recovers` for the behaviours of `Recovery` that are the app's.)

*Admin page.* The interval goes on, the hub's timer polls the file, and requests are
answered (`PageFairness`). A refresh lists the tokens only after its MCP calls were
answered (`App.tsx:218`), so the fairness of `PollPage` is that of a step whose guard is
a session the hub knows: after a restart of the hub, or a sweep, the page must come to
another one first (`Reconnects`). That may end in a client which is stuck
(`mcp.ts:143`); `TableShowsTheHub` says nothing of that one, nor of a page whose own token
is not accepted. It supposes that nobody acts any more.

*Roster.* The poll is repeated, and every snapshot that is under way arrives, in
whatever order.

*Terminals.* A process exits or is killed by its timer, a socket answers or times
out, and the timers of a wait fire. Nothing is assumed of what a pane shows, nor of
the row: `RunsAreAnswered` says that a run ends, and that a row which can be reached
then is closed. A row that is cut off at that moment stays open until its deadline, if
it has one: `index.ts:471` acks a second time at once, and nobody does later.

*Tokens.* The hub's timer goes on polling, and a writer that has begun ends.
Nothing is assumed of editors.

## 4. The proofs

`TaskLedgerProofs` proves, for any finite set of peers, any groups and runners,
any size of the ledger and any number of tasks:

* `TypeCorrect`: `Spec => []TypeOK`.
* `TasksEndTogether`: `Spec => []OverTogether`.
* `DeadlinesAreArmed`: `Spec => []DeadlineArmed`.
* `LedgerKeepsContract`: the ledger implements `TaskContract`.

The inductive invariant `IInv` is the conjunction of the three properties: none
is inductive alone. A row may only be marked in a record that is open exactly
when one of its rows is, or the timer would be cleared with rows open; the
timers need their domain. The argument goes through one relation, `Follows`,
between a record and what a call makes of it: rows keep their peers, settled
rows stay, and the status agrees with the rows again. Each operator that
changes a record is shown to produce a follower once; each action is then shown
to be an evolution of the ledger (`Evolves`), and both the invariant and the
contract follow from that. The only assumptions are those of
`TaskLedgerAssumption`: the set of peers is finite, the address spaces are
disjoint, members and runners are peers.

`SessionsProofs` proves, for any sessions, ids, clients' names, tokens, managers
and groups, and whatever ids are claimed, those of groups included:

* `TypeCorrect`: the types.
* `SessionsActForLivePeers`: a session comes to act only for who is registered, and
  keeps to it only while that peer is; the exception, `RefusedClaim`, is the ghost
  binding of section 5, and a session has it by its own claim alone.
* `LeaversAreKeptOut`: only an own claim ends the suppression.
* `PeersAndGroupsApart`: no group has the id of a peer that is live or parked, nor does
  one come by a mailbox, but where a session with a ghost binding created a group: its
  creator is then a member that is a group, and a send to that group fills its mailbox.
* `MailMovesAlong` and `LossIsUnattended`.

These are properties of steps, because the state a refused claim leaves can be told
from others only where it comes about. The separation of the namespaces is not
inductive: a group send fills the mailbox of every member, so the members must not be
groups either. `IInv` says so: a member other than the creator is listed and no group,
whoever is registered or parked has a profile, and none of them has the id of a group.
It is written as four operators of the state they relate (`SessionsFit`, `PeersFit`, `GroupsFit`,
`MailFits`), so that a directory in the middle of a call can be spoken of:
`JoiningFits` is about the caller that has just joined, `RekeyFits` about the
rename that follows, and `bridge_rename` is one after the other. The assumptions
are those of `SessionsAssumption`: the constants have their types, and generated
ids are not those of groups.

`MailboxesProofs` proves, for any finite set of peers, any groups, filters and
bounds, everything the mailbox runs check but liveness: `MailboxesTypeOK`,
`CopiesStayApart`, `NoSilentLoss`, `GcParksMail`, `CountsAreKept`,
`DueIsNeverGiven`, `ExhaustedStaysAway`, and that the mailboxes implement
`MailContract` (`MailboxesKeepContract`). The inductive invariant `MailInv` says of
each box that its lists hold each message once and none of another list, that the
queue is in delivery order, that what was offered is exactly what the lists hold
with what was read, dropped or discarded, that only what was offered has a count
of hand-outs, and that a notice is about a dropped message. `EveryCopyInOnePlace`
alone is not inductive: a notice could have the number of a message that is still
held. A lemma for each method of the code (insert, evict, drain, commit, requeue,
dead-letter, expire) says what it does to the lists, so that the proof of an action
only puts methods together.

`RestartProofs` proves all four properties of `restart_safety`, for any ids, any
number of messages and tasks, any size of mailbox and of history, and any number of
restarts: `RestartIsTyped`, `QuietDiskStaysCurrent`, `MailStaysAccountedFor` and
`RestartsKeepTheState`. None is inductive alone: what a boot restores depends on
rows that an earlier process wrote. `RestartInv` adds what connects memory and disk:

* only who is registered or parked has mail (`MailOK`), so that the mail of an open
  task is never under the id of a group, where a boot would ignore it;
* what is settled is not in the database either (`SettledOK`), and an open task is
  accounted for by its rows as it is in memory (`TasksOK`), unless a flush failed;
* the ring is the latest `HistoryLimit` of rows and buffer together (`RingOK`): it
  is cut at every message and the table only at some flushes, so the proof needs
  that cutting twice is cutting once (`LatestAbsorbs`, `LatestAgain`);
* a timer that is armed has something to save, and a completed flush is current
  while none is armed (`SavedOK`).

A flush that stops leaves every table with rows that are old or new and no others
(`WrittenPart`), which is what keeps the types and `SettledOK` when it is followed
by a crash.

`HubBooksProofs` proves, each for a specification of the part alone:

* `SetupKeepsOthers`: whatever the owner of a config wrote is in it or in a backup,
  whatever a set-up sweeps, writes over or leaves torn. `SetupInv` adds that a file
  that is about to be written has been backed up (`BackedUp`).
* `RunsDoNotMix`: no input line has text of two runs. `TerminalInv` relates the stage
  of each run or call to who works for the peer and what is in the line (`LinesOK`).
* `LossesAreShown` and `RenamesAreFair`: a lost copy is in the timeline, and a rename
  neither ends a task nor opens it. `RecordInv` (`TimelineOK`) counts: the rows of the
  system and those still open are no more than the assignees, so the acks that may be
  cut from a full timeline are never those of a loss.
* `TokensAreSound`: file, temporary file, what is being edited and the table in force
  each have one token per peer and one peer per token. `TokensInv` adds that every
  token was made up before a write that has been made (`MadeBy`), so that a new one
  is in no table.
* `CardsAreSeen`: what a live peer announced is what others see, and decides whether it
  is offered. It is inductive with the types. `OldestGoFirst` (which no run checks): a
  profile goes only by a rename or when there are too many, and then no older one of a
  peer that is not registered stays. Both rest on `EvictedFacts`: an eviction takes no
  live peer, and whoever has more older ones than another goes after it.
* `BooksAreSound`, `BooksTypeOK`: the five parts together, since a step of one leaves
  the others alone.

`DesktopProofs` does the same for the app:

* `HubStaysAttended`: a hub that was spawned has somebody who sees it end, a state that
  says running or starting somebody who will change it. `ProcessInv` adds what a call
  has at each await, and that a monitor that probes has no other call under way.
* `NewestAreKept`: the pool holds the newest of what came. The cap sorts: a set of
  numbers has an ascending enumeration (`SortedExists`, each number at the place that
  counts those below it), and its tail is the latest of the set.
* `ReadMarksGrow`: a read mark does not go back while the app runs.
* `SavedStaysInForce`: once a save is over, the config is what the rows say, whatever
  was saved or failed before, for any number of keys and saves. `SettingsInv` adds
  `AppliedAlone`: unless one failed, two overlapped or a row could not be read, at most
  one save is applied, and what it has read is what the rows say.
* `PageStaysConnected`: while the hub forgets nothing, no call of the page is refused and
  a client that is ready holds a live session, for any number of calls. `SessionInv` adds
  that every call is served by a live session (`IsServed`), and that the client holds one
  while the notification travels after which it says that it is ready.
* `DesktopIsSound`, `DesktopTypeOK`: the five parts together.

`StreamsProofs` proves, for any sessions, responses, commands and clients, what the
transport's run checks but liveness:

* `StreamsAlwaysAgree`: registry and transport agree on which sessions are live, and
  no live session is forgotten, in whatever order responses are superseded and closed.
* `SharesAreEven`: no stream gets a second push before the others got one. That alone
  is not inductive: it says nothing of the cursor. `TurnsOK` adds that the streams
  that have had their push are those from some place up to the cursor, around the
  end of the list (`Had`), and the lemmas say which steps leave that list as it is:
  a binding without a stream (`BoundAtTheEnd`), and the sweep and the idle GC, which
  only take away sessions without one (`BoundTakenAway`).
* `TypeCorrect`: the types of both ends, and that a watchdog reads exactly while it
  listens and shares its response with no other. `MakersApart` adds that a client
  that a command still makes is nobody else's, so that its watchdog starts once.
* `PageIsTyped`, `RecoveryIsTyped`: the types of the admin page's table, and of both.

The assumptions are those of the modules' ASSUMEs, which TLC evaluates in the runs.
Finite sets are assumed of peers (`Peers`, `Mailed`), which are the keys of maps.

Facts about numbers that need induction (a greatest number, an increasing list up to
N) are proved in `SharedFacts` from the well-foundedness of `<` on `Nat`, with the
induction over a *set* of numbers: the provers cannot instantiate the library's
theorems, which take an operator.

An array is filtered with `KeepIn` of `Lists`, a recursive function: the recursion of
the library's `SelectSeq` takes an operator, which the provers cannot unfold.

Only model-checked: all liveness (`LeasesEnd`, `DeadlineEnds`, `AppRecovers`,
`TableShowsTheHub`, `CatchesUp`, `RunsAreAnswered`, `TableFollowsTheFile`), which is beyond the prover.

## 5. Where code and documentation disagree

With a run, `fold_unannounced`: *Silent fold.* `renamePeer` onto the id of another
assignee of a task makes one row of the two, and `foldDuplicateAssignees` derives
the status again without `taskChanged` (`hub.ts:1051`). It may go from `failed` to
`done` or back with no event; `hub.ts:308` says every status change is reported.

Seen while modelling, and not claimed by a run:

* *Nack loops.* `nack` never looks at the attempt limit, so a message taken and
  nacked for ever is never dead-lettered; `hub-tools.ts:969` says it ends up
  dead-lettered instead of looping. `OnlyNackRetriesExhausted` shows that nack
  is the only such way.
* *Missed wake-up.* A message that comes back from a lease wakes no pending
  `bridge_wait`; `hub-tools.ts:916` says that one blocks only until one arrives.
* *Orphan mail.* A group send to a member that left fills a mailbox nobody
  owns; `hub.ts:1807` says such members are skipped.
* *Late ack.* An ack that is not applied can turn `timeout` into `failed`;
  `hub.ts:1457` says it moves no status.
* *Partial cancel.* The sender's cancel stops at the first assignee that left;
  `hub.ts:1210` says that it stops every one.
* *Ghost binding.* `bridge_register` of a session that is bound to nobody, or shares its
  peer, binds it before `register` refuses the id of a group, and leaves it bound
  (`hub-tools.ts:570`); `test/smoke.mjs:2126` says that the state "a peer whose own id is
  a group name" is unreachable from the MCP side. `BoundPeersAreLive` and `OneNamespace`
  make the exception, and show that there is no other.
* *Renamed creator.* A rename moves a group's `members` but not its `createdBy`,
  so a renamed creator may no longer manage its group, and may be removed from it
  (`hub.ts:1788` says that would orphan it).
* *Generated id.* A session that was given one cannot take its parked id back with
  `bridge_register`, as the error text at `hub.ts:892` advises: it goes by way of
  `renamePeer`, whose error that is.
* *Numbers.* Notices take sequence numbers but are not in the history, so a restart
  hands those numbers out again; `hub.ts:1900` says the counter never goes back.
  Event numbers start again with every process.
* *Restart.* `reapLeases` dead-letters a chat without `onMailboxesChanged`, so the
  database keeps it as mail (the only deviation `QuietDiskIsCurrent` allows). A
  flush that fails loses the buffered history rows, and is not tried again before
  the next change.
* *Events.* `events()` cuts to the newest `limit` and says `truncated` only when
  the ring did; `hub.ts:289` says a reader that fell behind is told.
* *Stopping for ever.* In the app, `stop` reads the pid; if the child is given up
  or ends before `stop` sets its state, the state stays `stopping`. Two starts that
  overlap may both spawn, and the end of the one that finds the port taken clears
  the pid of the other, which can then not be stopped.
* *Stray identity.* When its stream is refused with 404, the app forgets its session
  id and subscribes again without one; the hub mints a session with no client name,
  the app adopts it, and its later calls act as another peer.
* *Stored mark.* `markPeerRead` with an older ts leaves the mark in memory alone but
  lowers the stored one (`messagesStore.ts:284`); `messagesStore.ts:423` says marks
  are restored so that a restart does not badge again what was read.
* *Kicked row.* A snapshot taken before a kick and synced between its two steps, or
  a second one after it, brings the kicked peer back to the app's roster.
* *Late prompt.* A run of an agent whose prompt was submitted may report `failed` on
  a time-out, and the next run starts while the agent still works; the text of a
  prompt whose Enter failed is submitted with the next one (`InputsApart` allows
  exactly that).
* *Rename during a run.* The runner acks under the id the peer had. Nothing checks the
  assignee there: the ack is routed to the sender and recorded, but no row has that id,
  so it is not applied, and the task stays open until its deadline. `hub.ts:1143` calls
  the peer of a runner "an assignee by construction".
* *Swallowed verdict.* `ackForRunner` throws when the sender is gone or the ledger has
  forgotten the task; `runTask` tries once more and drops the error (`index.ts:471`, "The
  task may already be terminal"), and an open row stays open (`CutOff` in `Terminals`).
* *Fold.* The comment at `hub.ts:1052` says that a fold can re-open a task, one row still
  running and the other terminal, and re-arms its timer for that. The status is always
  derived from the rows, so with one row running it is not terminal before the fold
  either: `RenameNeitherEndsNorReopens` holds, and `RenamesAreFair` proves it for any
  number of assignees. The guard of the re-arming is never true.
* *Comments and neighbours.* A set-up that replaces the hub's entry in a text also
  removes comments behind it, and in a DSH patch every top-level entry that mentions the
  plugin's name, its owner's own included (`setup.ts:250`); they are in the backup. An
  edit made between backup and write is lost.
* *Unreadable setting.* `apply_saved_config` turns an error of the store into the default
  (`commands.rs:36`); its comment has defaults for keys that are missing or unparsable.
* *Many sessions.* The admin page makes its calls at once, and each of them that finds
  the client not ready (`admin/src/lib/mcp.ts:132`) initializes a session; the comment at
  line 130 says one session per client, reused by every poll.
* *Ready without a session.* `connect` says that the client is ready after its notification
  (`mcp.ts:143`), also when another call was told meanwhile that the session is gone: no
  call initializes again, and each is refused; `mcp.ts:115` says that the next refresh
  re-initializes.
* *Typo in the token file.* `listTokens` and `removeToken` throw on an invalid file
  (`mcp-server.ts:646`), and `handleAdminApi` is called with `void` (`mcp-server.ts:425`):
  a listing of the admin page ends the hub. `auth.ts:148` says that an invalid edit keeps
  the previous table.
* *Two saves.* `hub_restart_with_saved_config` reads the rows and sets the config in two
  steps (`commands.rs:1259`): of two saves that overlap, the first may stay in force with
  the rows of the second in the table. The comment at `commands.rs:1247` says that the saved
  values take effect.
* *Mixed launch.* `start` reads the config for the port it probes and again for the
  arguments (`hub_process.rs:447`); the comment at line 445 says one read.
* *Parked profiles.* `evictOverflowProfiles` spares only registered peers (`hub.ts:1067`);
  `hub.ts:670` says that a parked id keeps its profile.
* *Offers of the departed.* `discover` goes through all profiles (`hub.ts:800`), also of
  peers that left; `hub.ts:789` says that it is for finding somebody to hand work to.
* *Empty table.* `auth.ts:207` says a running hub with no tokens refuses everybody;
  a reload that finds none keeps the previous table.

## 6. Not modelled, and what could come next

* The re-entrant calls of `noteTaskDeliveryDropped` inside `deliver`, which may fill
  a mailbox to `maxQueue + 1`: mailbox, ledger and notices in one state space are
  too large for TLC at bounds that show it.
* The event ring and the cursors of the history: bounded lists that are only read.
* HTTP framing, JSON-RPC, the other views of the admin console and of the app, LAN
  discovery, health and metrics: I/O and display. That, with the tests, is most of
  what `map` in `PROJECT.json` does not cover.
* Session-token binding and the requests that look a token up; the skills a set-up
  copies; herdr itself, and what a pane shows.

Next: the readers of the history and of the event ring, with their cursors and
windows, as a part of `HubBooks`.
