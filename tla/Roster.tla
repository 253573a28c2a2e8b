------------------------------- MODULE Roster -------------------------------
(***************************************************************************)
(* What the desktop app knows of the hub's peers: the live map, the local  *)
(* roster and the suppressed ids of app/src/stores/peersStore.ts, and the  *)
(* peers table and the kicked set that app/src-tauri/src/commands.rs keeps *)
(* behind them.                                                            *)
(*                                                                         *)
(* Every answer to bridge_peers and every peers_changed push is a snapshot *)
(* of the hub's list.  It is first written to the table and then handed to *)
(* the views, and two of them may overtake each other at either stage.     *)
(***************************************************************************)
EXTENDS Naturals, FiniteSets

CONSTANTS
  Peers,
  MaxUnderWay   \* bound: snapshots at each of the two stages

ASSUME RosterAssumption == IsFiniteSet(Peers) /\ MaxUnderWay \in Nat \ {0}

\* A peer that is not listed is "absent".
Presence == {"absent", "offline", "online"}
Lists == [Peers -> Presence]

VARIABLES
  hub,         \* Lists: what the hub would answer
  arrived,     \* snapshots at the app and not yet in the table
  synced,      \* snapshots in the table and not yet in the views
  rows,        \* Lists: the peers table
  kicked,      \* ids the next snapshot is not to bring back to the table
  kicking,     \* peer -> how far a kick of it has come
  leaving,     \* peer -> how far forgetting it, or giving it another id, has come
  live,        \* Lists: the newest snapshot the views got
  baseline,    \* liveBaselineSeen
  rosterLocal, \* Lists: what roster_list restored
  suppressed,  \* kickedSuppress
  listing      \* the answer to roster_list under way, as a set

table == <<hub, rows, kicked>>
views == <<live, baseline, rosterLocal, suppressed>>
roster == <<arrived, synced, kicking, leaving, listing, table, views>>

Nobody == [p \in Peers |-> "absent"]
Idle == [p \in Peers |-> "idle"]

RosterInit ==
  /\ hub = Nobody /\ arrived = {} /\ synced = {}
  /\ rows = Nobody /\ kicked = {} /\ kicking = Idle /\ leaving = Idle
  /\ live = Nobody /\ baseline = FALSE /\ rosterLocal = Nobody /\ suppressed = {}
  /\ listing = {Nobody}

-----------------------------------------------------------------------------

\* A peer joins, leaves, or gets or loses its connections.
HubChanges(p) ==
  /\ \E s \in Presence \ {hub[p]} : hub' = [hub EXCEPT ![p] = s]
  /\ UNCHANGED <<arrived, synced, rows, kicked, kicking, leaving, listing, views>>

\* bridge_peers is answered, or peers_changed is pushed.
Arrives ==
  /\ Cardinality(arrived) < MaxUnderWay
  /\ arrived' = arrived \cup {hub}
  /\ UNCHANGED <<synced, kicking, leaving, listing, table, views>>

\* Mutant: suppression lasts as long as the peer is listed.
SyncNever(list) ==
  /\ list \in arrived
  /\ Cardinality(synced) < MaxUnderWay
  /\ arrived' = arrived \ {list} /\ synced' = synced \cup {list}
  /\ rows' = [p \in Peers |-> IF list[p] = "absent" \/ p \in kicked THEN rows[p] ELSE list[p]]
  /\ UNCHANGED <<hub, kicked, kicking, leaving, listing, views>>

\* sync_roster_to_store: the first sight of a suppressed id only lifts the
\* suppression.  A peer that is not listed keeps its row.
Sync(list) ==
  /\ list \in arrived
  /\ Cardinality(synced) < MaxUnderWay
  /\ arrived' = arrived \ {list} /\ synced' = synced \cup {list}
  /\ rows' = [p \in Peers |-> IF list[p] = "absent" \/ p \in kicked THEN rows[p] ELSE list[p]]
  /\ kicked' = {p \in kicked : list[p] = "absent"}
  /\ UNCHANGED <<hub, kicking, leaving, listing, views>>

\* applyLiveRoster: the snapshot replaces the last one.
ApplyLive(list) ==
  /\ list \in synced
  /\ synced' = synced \ {list}
  /\ live' = list
  /\ baseline' = TRUE
  /\ UNCHANGED <<arrived, kicking, leaving, listing, table, rosterLocal, suppressed>>

\* applyLocalRoster, with the rows roster_list found when the app started.
ApplyLocal(list) ==
  /\ list \in listing
  /\ listing' = {}
  /\ rosterLocal' = [p \in Peers |-> IF list[p] = "absent" THEN rosterLocal[p] ELSE list[p]]
  /\ UNCHANGED <<arrived, synced, kicking, leaving, table, live, baseline, suppressed>>

-----------------------------------------------------------------------------
(* What the user does, and how far it has come.                            *)

\* mergePeers.
Shown(p) ==
  IF p \in suppressed THEN "absent"
  ELSE IF live[p] # "absent" THEN live[p]
  ELSE IF rosterLocal[p] # "absent" /\ baseline THEN "offline"
  ELSE rosterLocal[p]

\* removePeer: the hub unregisters the peer, unless it has gone already ...
Kick(p) ==
  /\ Shown(p) = "online" /\ kicking[p] = "idle"
  /\ hub[p] # "absent"
  /\ hub' = [hub EXCEPT ![p] = "absent"]
  /\ kicking' = [kicking EXCEPT ![p] = "unregistered"]
  /\ UNCHANGED <<arrived, synced, rows, kicked, leaving, listing, views>>

\* ... its row is deleted ...
KickDeletes(p) ==
  /\ kicking[p] = "unregistered"
  /\ kicking' = [kicking EXCEPT ![p] = "deleted"]
  /\ rows' = [rows EXCEPT ![p] = "absent"]
  /\ UNCHANGED <<hub, kicked, arrived, synced, leaving, listing, views>>

\* ... the next snapshot is kept from bringing the row back ...
KickSuppresses(p) ==
  /\ kicking[p] = "deleted"
  /\ kicking' = [kicking EXCEPT ![p] = "answered"]
  /\ kicked' = kicked \cup {p}
  /\ UNCHANGED <<hub, rows, arrived, synced, leaving, listing, views>>

\* ... and the views drop it until the app is started again.
KickAnswered(p) ==
  /\ kicking[p] = "answered"
  /\ kicking' = [kicking EXCEPT ![p] = "idle"]
  /\ live' = [live EXCEPT ![p] = "absent"]
  /\ rosterLocal' = [rosterLocal EXCEPT ![p] = "absent"]
  /\ suppressed' = suppressed \cup {p}
  /\ UNCHANGED <<arrived, synced, leaving, listing, table, baseline>>

\* forgetPeer: the row of a peer that is shown offline is deleted ...
Forget(p) ==
  /\ Shown(p) = "offline" /\ leaving[p] = "idle"
  /\ leaving' = [leaving EXCEPT ![p] = "forgotten"]
  /\ rows' = [rows EXCEPT ![p] = "absent"]
  /\ UNCHANGED <<hub, kicked, arrived, synced, kicking, listing, views>>

\* ... and the views drop it.
ForgetAnswered(p) ==
  /\ leaving[p] = "forgotten"
  /\ leaving' = [leaving EXCEPT ![p] = "idle"]
  /\ rosterLocal' = [rosterLocal EXCEPT ![p] = "absent"]
  /\ suppressed' = suppressed \cup {p}
  /\ UNCHANGED <<arrived, synced, kicking, listing, table, live, baseline>>

\* renamePeer to an id that is free, one of Peers or (new is empty) another: the
\* hub moves the peer ...
Rename(p, new) ==
  /\ Shown(p) # "absent" /\ leaving[p] = "idle"
  /\ hub[p] # "absent" /\ \A q \in new : hub[q] = "absent"
  /\ hub' = [q \in Peers |-> IF q = p THEN "absent" ELSE IF q \in new THEN hub[p] ELSE hub[q]]
  /\ leaving' = [leaving EXCEPT ![p] = "renamed"]
  /\ UNCHANGED <<rows, kicked, arrived, synced, kicking, listing, views>>

\* ... the row of the old id is deleted ...
RenameDeletes(p) ==
  /\ leaving[p] = "renamed"
  /\ leaving' = [leaving EXCEPT ![p] = "deleted"]
  /\ rows' = [rows EXCEPT ![p] = "absent"]
  /\ UNCHANGED <<hub, kicked, arrived, synced, kicking, listing, views>>

\* ... and the views drop the old id.
RenameAnswered(p) ==
  /\ leaving[p] = "deleted"
  /\ leaving' = [leaving EXCEPT ![p] = "idle"]
  /\ live' = [live EXCEPT ![p] = "absent"]
  /\ rosterLocal' = [rosterLocal EXCEPT ![p] = "absent"]
  /\ UNCHANGED <<arrived, synced, kicking, listing, table, baseline, suppressed>>

\* The app is closed and opened again.
RestartRoster ==
  /\ arrived' = {} /\ synced' = {} /\ kicked' = {} /\ kicking' = Idle /\ leaving' = Idle
  /\ live' = Nobody /\ baseline' = FALSE /\ rosterLocal' = Nobody /\ suppressed' = {}
  /\ listing' = {rows}
  /\ UNCHANGED <<hub, rows>>

\* What happens to peers, at the hub or by the user.
Stir ==
  \/ \E p \in Peers :
       \/ HubChanges(p) \/ Kick(p) \/ Forget(p)
       \/ \E new \in {{}} \cup {{q} : q \in Peers \ {p}} : Rename(p, new)
  \/ RestartRoster

RosterNext ==
  \/ Stir
  \/ Arrives
  \/ \E list \in Lists : Sync(list) \/ ApplyLive(list) \/ ApplyLocal(list)
  \/ \E p \in Peers :
       \/ KickDeletes(p) \/ KickSuppresses(p) \/ KickAnswered(p)
       \/ ForgetAnswered(p) \/ RenameDeletes(p) \/ RenameAnswered(p)

-----------------------------------------------------------------------------
(* Properties.                                                             *)

\* The types.
RosterTypeOK ==
  /\ hub \in Lists /\ rows \in Lists /\ live \in Lists /\ rosterLocal \in Lists
  /\ arrived \subseteq Lists /\ synced \subseteq Lists /\ listing \subseteq Lists
  /\ kicked \subseteq Peers /\ suppressed \subseteq Peers /\ baseline \in BOOLEAN
  /\ kicking \in [Peers -> {"idle", "unregistered", "deleted", "answered"}]
  /\ leaving \in [Peers -> {"idle", "forgotten", "renamed", "deleted"}]

\* Once nothing happens to peers any more, the views come to show what the hub
\* lists, and the table comes to hold it: neither an old snapshot nor the
\* suppression of a kicked peer stays in the way.  A peer that was kicked or
\* forgotten in this run of the app is not shown, and is in the table again if
\* it has come back.
Current(p) ==
  /\ p \notin suppressed => (Shown(p) = "online" <=> hub[p] = "online")
  /\ hub[p] # "absent" => rows[p] = hub[p] /\ (p \in suppressed \/ Shown(p) = hub[p])

CatchesUp == <>[][~Stir]_roster => <>[](\A p \in Peers : Current(p))

=============================================================================
