------------------------------ MODULE Sessions -------------------------------
(***************************************************************************)
(* Sessions and identities: which MCP session acts for which peer, what a  *)
(* peer takes along when its id changes, and what becomes of its mail when *)
(* its sessions go.  SessionRegistry is in src/src/mcp-server.ts, the      *)
(* tools in src/src/hub-tools.ts, the registry, renamePeer and the groups  *)
(* in src/src/hub.ts.                                                      *)
(*                                                                         *)
(* Peers and groups share one space of ids.  A request with a session id   *)
(* the registry does not know is answered 404 and changes nothing, so the  *)
(* tool calls below are those of known sessions.  A handler runs to its    *)
(* end before the next one starts.  A mailbox is the set of the letters in *)
(* it, whether they are queued, leased or dead letters.                    *)
(***************************************************************************)
EXTENDS Naturals

CONSTANTS
  Clients,     \* session ids
  Ids,         \* ids of peers and groups
  None,        \* no peer, no token, no group
  ClientName,  \* of a session: the id its clientInfo.name is sanitized to
  Token,       \* of a session: the peer of its access token, or None
  Managers,    \* the sessions with manager rights
  Claims,      \* bound: the ids that bridge_register and bridge_rename ask for
  GroupIds,    \* bound: the ids that groups are created under
  Streaming,   \* bound: the sessions that open SSE streams
  Spare,       \* the ids autoRegisterPeer generates at random
  MaxSent      \* bound: letters sent

ASSUME SessionsAssumption ==
  /\ None \notin Ids
  /\ ClientName \in [Clients -> Ids]
  /\ Token \in [Clients -> Ids \cup {None}]
  /\ Managers \subseteq Clients
  /\ Streaming \subseteq Clients
  /\ Claims \subseteq Ids
  /\ GroupIds \subseteq Ids
  /\ Spare \subseteq Ids \ GroupIds
  /\ MaxSent \in Nat

VARIABLES
  sessions,    \* SessionRegistry.sessions
  streams,     \* liveStreams: the sessions with an open SSE stream
  binding,     \* peerBindings: the peer of each session, or None
  suppressed,  \* suppressedAuto
  registered,  \* lastSeen.keys()
  parked,      \* parkedAt.keys()
  profiles,    \* profiles.keys(), below MAX_PROFILES
  creator,     \* groups: createdBy of each group, None where there is none
  members,     \* groups: members
  queues,      \* queues.keys()
  mail,        \* the letters in the mailbox of each id
  sent         \* letters sent so far

attachment == <<sessions, streams, binding, suppressed>>
registry   == <<registered, parked, profiles>>
channels   == <<creator, members>>
letters    == <<queues, mail, sent>>
vars       == <<attachment, registry, channels, letters>>

Init ==
  /\ sessions = {}
  /\ streams = {}
  /\ binding = [s \in Clients |-> None]
  /\ suppressed = {}
  /\ registered = {}
  /\ parked = {}
  /\ profiles = {}
  /\ creator = [g \in Ids |-> None]
  /\ members = [g \in Ids |-> {}]
  /\ queues = {}
  /\ mail = [p \in Ids |-> {}]
  /\ sent = 0

IsGroup(id) == creator[id] # None

OwnsMailbox(id) == id \in parked \cup queues

\* sessionsForPeer, attachedCount.
Attached(p) == {s \in Clients : binding[s] = p}

Unbound(S) == [s \in Clients |-> IF s \in S THEN None ELSE binding[s]]

-----------------------------------------------------------------------------
(* autoRegisterPeer.                                                       *)

\* The token decides the id, or else the name of the client.  A name that is
\* taken by a group makes way for a generated id.
DerivedId(s) == IF Token[s] # None THEN Token[s] ELSE ClientName[s]

\* Mutant: whoever left joins again with the next call.
AutoIdsUnsuppressed(s) ==
  IF binding[s] # None           THEN {binding[s]}
  ELSE IF IsGroup(DerivedId(s))  THEN Spare
  ELSE {DerivedId(s)}

\* The peers that session s may act for when it calls.
AutoIds(s) ==
  IF binding[s] # None           THEN {binding[s]}
  ELSE IF s \in suppressed       THEN {}
  ELSE IF IsGroup(DerivedId(s))  THEN Spare
  ELSE {DerivedId(s)}

\* The bindings and the live peers once s acts for p.
Bound(s, p) == [binding EXCEPT ![s] = p]
Live(s, p)  == IF binding[s] # None THEN registered ELSE registered \cup {p}

\* register: nobody live is parked, and everybody live has a profile.
Registry(live) ==
  /\ registered' = live
  /\ parked' = parked \ live
  /\ profiles' = profiles \cup live

\* requirePeer: session s calls a tool, and acts for p.
RequirePeer(s, p) ==
  /\ s \in sessions
  /\ p \in AutoIds(s)
  /\ binding' = Bound(s, p)
  /\ Registry(Live(s, p))
  /\ UNCHANGED <<sessions, streams, suppressed>>

-----------------------------------------------------------------------------
(* Requests that are not tool calls.                                       *)

\* initialize: connecting is joining, unless the session has left before.
Initialize(s) ==
  /\ sessions' = sessions \cup {s}
  /\ \/ \E p \in AutoIds(s) : binding' = Bound(s, p) /\ Registry(Live(s, p))
     \/ AutoIds(s) = {} /\ UNCHANGED <<binding, registry>>
  /\ UNCHANGED <<streams, suppressed, channels, letters>>

\* GET: an SSE stream, of a session of its own when it names none.
OpenStream(s) ==
  /\ sessions' = sessions \cup {s}
  /\ streams' = streams \cup {s}
  /\ UNCHANGED <<binding, suppressed, registry, channels, letters>>

CloseStream(s) ==
  /\ s \in streams
  /\ streams' = streams \ {s}
  /\ UNCHANGED <<sessions, binding, suppressed, registry, channels, letters>>

\* Mutant: a session that is forgotten is still kept from joining.
SweepHalf(old) ==
  /\ old # {} /\ old \subseteq sessions \ streams
  /\ sessions' = sessions \ old
  /\ binding' = Unbound(old)
  /\ UNCHANGED <<streams, suppressed, registry, channels, letters>>

\* sweep: sessions unused for sessionTtlMs are forgotten, streams pin theirs.
Sweep(old) ==
  /\ old # {} /\ old \subseteq sessions \ streams
  /\ sessions' = sessions \ old
  /\ binding' = Unbound(old)
  /\ suppressed' = suppressed \ old
  /\ UNCHANGED <<streams, registry, channels, letters>>

-----------------------------------------------------------------------------
(* Mail.                                                                   *)

\* A tool that changes nothing but who the session acts for.
Call(s, p) == RequirePeer(s, p) /\ UNCHANGED <<channels, letters>>

\* bridge_announce: a peer that announces its card has a profile, live or not.
Announce(s, p) ==
  /\ s \in sessions
  /\ p \in AutoIds(s)
  /\ binding' = Bound(s, p)
  /\ registered' = Live(s, p)
  /\ parked' = parked \ Live(s, p)
  /\ profiles' = profiles \cup Live(s, p) \cup {p}
  /\ UNCHANGED <<sessions, streams, suppressed, channels, letters>>

\* bridge_chat.  A letter that a waiter takes at once is in no mailbox.
Send(s, p, to, kept) ==
  /\ RequirePeer(s, p)
  /\ sent < MaxSent
  /\ p \in registered'
  /\ IsGroup(to) => p \in members[to]
  /\ ~IsGroup(to) => to \in registered' \cup parked'
  /\ kept \subseteq (IF IsGroup(to) THEN members[to] \ {p} ELSE {to})
  /\ sent' = sent + 1
  /\ mail' = [q \in Ids |-> IF q \in kept THEN mail[q] \cup {sent + 1} ELSE mail[q]]
  /\ queues' = queues \cup kept
  /\ UNCHANGED channels

\* bridge_poll without manual acks.
Poll(s, p) ==
  /\ RequirePeer(s, p)
  /\ mail' = [mail EXCEPT ![p] = {}]
  /\ UNCHANGED <<channels, queues, sent>>

-----------------------------------------------------------------------------
(* Changing an id.                                                         *)

\* Mutant: the mailbox stays behind under the old id.
RekeyMailless(bound, live, old, new) ==
  /\ old \in live
  /\ new \notin live
  /\ ~IsGroup(new)
  /\ ~OwnsMailbox(new)
  /\ binding' = [s \in Clients |-> IF bound[s] = old THEN new ELSE bound[s]]
  /\ Registry((live \ {old}) \cup {new})
  /\ UNCHANGED <<members, mail, queues>>

\* Mutant: a peer may be renamed to the id of a group.
RekeyOntoGroup(bound, live, old, new) ==
  /\ old \in live
  /\ new \notin live
  /\ ~OwnsMailbox(new)
  /\ binding' = [s \in Clients |-> IF bound[s] = old THEN new ELSE bound[s]]
  /\ Registry((live \ {old}) \cup {new})
  /\ UNCHANGED <<members, mail, queues>>

\* renamePeer and rebindPeerId, in a directory with these bindings and peers.
Rekey(bound, live, old, new) ==
  /\ old \in live
  /\ new \notin live
  /\ ~IsGroup(new)
  /\ ~OwnsMailbox(new)
  /\ binding' = [s \in Clients |-> IF bound[s] = old THEN new ELSE bound[s]]
  /\ registered' = (live \ {old}) \cup {new}
  /\ parked' = parked \ (live \cup {new})
  /\ profiles' = ((profiles \cup live) \ {old}) \cup {new}
  /\ members' = [g \in Ids |-> IF old \in members[g]
                               THEN (members[g] \ {old}) \cup {new} ELSE members[g]]
  /\ mail' = [mail EXCEPT ![new] = mail[old], ![old] = {}]
  /\ queues' = IF old \in queues THEN (queues \ {old}) \cup {new} ELSE queues

\* An id that is free, or that is the caller's already.  A mailbox without a
\* live peer may be claimed while no session is attached to it.
Claimable(s, id) ==
  /\ Token[s] \in {None, id}
  /\ \/ binding[s] = id
     \/ id \notin registered /\ ~(OwnsMailbox(id) /\ Attached(id) # {})

\* The session is the only one of a peer with another id.
Moving(s, id) == binding[s] \notin {None, id} /\ Attached(binding[s]) = {s}

\* bridge_register of the only session of a peer: the peer is renamed.
RegisterMoving(s, id) ==
  /\ s \in sessions
  /\ Claimable(s, id)
  /\ Moving(s, id)
  /\ Rekey(binding, registered, binding[s], id)
  /\ suppressed' = suppressed \ {s}
  /\ UNCHANGED <<sessions, streams, creator, sent>>

\* bridge_register of any other session: it is bound, then the peer is
\* registered.  The latter fails for the id of a group.
RegisterAnew(s, id) ==
  /\ s \in sessions
  /\ Claimable(s, id)
  /\ ~Moving(s, id)
  /\ binding' = Bound(s, id)
  /\ IF IsGroup(id) /\ id \notin registered
     THEN UNCHANGED <<suppressed, registry>>
     ELSE suppressed' = suppressed \ {s} /\ Registry(registered \cup {id})
  /\ UNCHANGED <<sessions, streams, channels, letters>>

\* bridge_rename with a new id.  Other peers are a manager's to rename, and so
\* is anybody with a token; the ids of the token table are reserved.
Rename(s, p, target, new) ==
  /\ s \in sessions
  /\ p \in AutoIds(s)
  /\ target # p \/ Token[s] # None => s \in Managers
  /\ (\E t \in Clients : Token[t] = new) => new = Token[s]
  /\ Rekey(Bound(s, p), Live(s, p), target, new)
  /\ UNCHANGED <<sessions, streams, suppressed, creator, sent>>

-----------------------------------------------------------------------------
(* Leaving.                                                                *)

\* The mailboxes of `gone` are destroyed.
DropMailboxes(gone) ==
  /\ queues' = queues \ gone
  /\ mail' = [p \in Ids |-> IF p \in gone THEN {} ELSE mail[p]]
  /\ UNCHANGED sent

\* unregister without keepMailbox; the profile stays.
Unregister(p) ==
  /\ registered' = registered \ {p}
  /\ parked' = parked \ {p}
  /\ DropMailboxes({p})
  /\ UNCHANGED profiles

\* Mutant: the peer goes with the first of its sessions.
LeaveAlone(s) ==
  /\ s \in sessions
  /\ binding' = Unbound({s})
  /\ suppressed' = suppressed \cup {s}
  /\ IF binding[s] # None THEN Unregister(binding[s]) ELSE UNCHANGED <<registry, letters>>
  /\ UNCHANGED <<sessions, streams, channels>>

\* bridge_unregister: the last session takes the peer along.
Leave(s) ==
  /\ s \in sessions
  /\ binding' = Unbound({s})
  /\ suppressed' = suppressed \cup {s}
  /\ IF binding[s] # None /\ Attached(binding[s]) = {s}
     THEN Unregister(binding[s])
     ELSE UNCHANGED <<registry, letters>>
  /\ UNCHANGED <<sessions, streams, channels>>

\* bridge_unregister of another peer by a manager.
Kick(s, target) ==
  /\ s \in sessions \cap Managers
  /\ binding[s] # None
  /\ target \in registered \cup parked
  /\ Unregister(target)
  /\ binding' = Unbound(Attached(target))
  /\ suppressed' = suppressed \cup Attached(target)
  /\ UNCHANGED <<sessions, streams, channels>>

\* Mutant: the idle GC does not tell the session registry.
GcTickStillBound(idle, overdue) ==
  /\ idle \subseteq registered \ {binding[s] : s \in streams}
  /\ overdue \subseteq parked
  /\ registered' = registered \ idle
  /\ parked' = (parked \cup idle) \ overdue
  /\ DropMailboxes(overdue)
  /\ UNCHANGED <<sessions, streams, binding, suppressed, profiles, channels>>

\* gcTick: idle peers without a stream are parked and their sessions unbound;
\* the mailboxes that have been parked for parkedTtlMs go.
GcTick(idle, overdue) ==
  /\ idle \subseteq registered \ {binding[s] : s \in streams}
  /\ overdue \subseteq parked
  /\ binding' = Unbound({s \in Clients : binding[s] \in idle})
  /\ registered' = registered \ idle
  /\ parked' = (parked \cup idle) \ overdue
  /\ DropMailboxes(overdue)
  /\ UNCHANGED <<sessions, streams, suppressed, profiles, channels>>

-----------------------------------------------------------------------------
(* Groups.                                                                 *)

\* Who may manage group g.
Runs(s, p, g) == IsGroup(g) /\ (creator[g] = p \/ s \in Managers)

CreateGroup(s, p, g, others) ==
  /\ RequirePeer(s, p)
  /\ ~IsGroup(g)
  /\ g \notin registered' \cup parked' \cup queues \cup profiles'
  /\ others # {} /\ others \subseteq registered'
  /\ creator' = [creator EXCEPT ![g] = p]
  /\ members' = [members EXCEPT ![g] = others \cup {p}]
  /\ UNCHANGED letters

DeleteGroup(s, p, g) ==
  /\ RequirePeer(s, p)
  /\ Runs(s, p, g)
  /\ creator' = [creator EXCEPT ![g] = None]
  /\ members' = [members EXCEPT ![g] = {}]
  /\ UNCHANGED letters

AddGroupMember(s, p, g, m) ==
  /\ RequirePeer(s, p)
  /\ Runs(s, p, g)
  /\ m \in registered' \ members[g]
  /\ members' = [members EXCEPT ![g] = @ \cup {m}]
  /\ UNCHANGED <<creator, letters>>

RemoveGroupMember(s, p, g, m) ==
  /\ RequirePeer(s, p)
  /\ Runs(s, p, g)
  /\ m \in members[g] \ {creator[g]}
  /\ members' = [members EXCEPT ![g] = @ \ {m}]
  /\ UNCHANGED <<creator, letters>>

-----------------------------------------------------------------------------

Next ==
  \/ \E s \in Clients : Initialize(s)
  \/ \E s \in Streaming : OpenStream(s)
  \/ \E s \in Clients : CloseStream(s)
  \/ \E old \in SUBSET sessions : Sweep(old)
  \/ \E s \in Clients, p \in Ids : Call(s, p)
  \/ \E s \in Clients, p \in Ids : Announce(s, p)
  \/ \E s \in Clients, p, to \in Ids, kept \in SUBSET Ids : Send(s, p, to, kept)
  \/ \E s \in Clients, p \in Ids : Poll(s, p)
  \/ \E s \in Clients, id \in Claims : RegisterMoving(s, id)
  \/ \E s \in Clients, id \in Claims : RegisterAnew(s, id)
  \/ \E s \in Clients, p, target \in Ids, new \in Claims : Rename(s, p, target, new)
  \/ \E s \in Clients : Leave(s)
  \/ \E s \in Clients, target \in Ids : Kick(s, target)
  \/ \E idle \in SUBSET registered, overdue \in SUBSET parked : GcTick(idle, overdue)
  \/ \E s \in Clients, p \in Ids, g \in GroupIds, others \in SUBSET registered :
        CreateGroup(s, p, g, others)
  \/ \E s \in Clients, p \in Ids, g \in GroupIds : DeleteGroup(s, p, g)
  \/ \E s \in Clients, p, m \in Ids, g \in GroupIds : AddGroupMember(s, p, g, m)
  \/ \E s \in Clients, p, m \in Ids, g \in GroupIds : RemoveGroupMember(s, p, g, m)

Spec == Init /\ [][Next]_vars

-----------------------------------------------------------------------------
(* Properties.                                                             *)

\* The types: every map holds what its declaration says, bindings and streams
\* are those of known sessions, and a peer is never both live and parked.
TypeOK ==
  /\ sessions \subseteq Clients
  /\ streams \subseteq sessions
  /\ binding \in [Clients -> Ids \cup {None}]
  /\ \A s \in Clients \ sessions : binding[s] = None
  /\ suppressed \subseteq sessions
  /\ registered \subseteq profiles
  /\ profiles \subseteq Ids
  /\ parked \subseteq Ids \ registered
  /\ creator \in [Ids -> Ids \cup {None}]
  /\ members \in [Ids -> SUBSET Ids]
  /\ queues \subseteq Ids
  /\ mail \in [Ids -> SUBSET (1..sent)]
  /\ sent \in 0..MaxSent

\* bridge_register refused because the id is a group's: by then the session is
\* bound to it (bindPeer comes before register in src/src/hub-tools.ts).
RefusedClaim(s, id) == IsGroup(id) /\ RegisterAnew(s, id)

\* SessionRegistry and the hub agree, through sweeps, parking, kicks and
\* renames: no step leaves a session acting for somebody who is not in the
\* registry, but its own refused claim of a group's id.
BoundPeersAreLive ==
  [][\A s \in Clients : binding'[s] \notin registered' \cup {None} =>
       \/ binding'[s] = binding[s] /\ binding[s] \notin registered
       \/ RefusedClaim(s, binding'[s])]_vars

\* A session that has left or was kicked out acts for nobody, whatever it calls
\* and whoever else joins, until it claims an id itself (suppressAuto in
\* src/src/mcp-server.ts).
LeaversStayOut ==
  [][/\ \A s \in suppressed' \ suppressed : binding'[s] = None
     /\ \A s \in suppressed : binding[s] = None /\ binding'[s] # None =>
          RegisterAnew(s, binding'[s])]_vars

\* Peers and groups are kept apart (register, renamePeer, createGroup), although
\* sessions ask for the ids of groups: no peer, live or parked, ever has the id
\* of a group, which would take everything addressed to it.  Nor does a group
\* come by a mailbox, unless a session bound to its id by a refused claim made
\* itself a member of a group of its own.
OneNamespace ==
  [][\A id \in Ids : IsGroup(id)' =>
       /\ id \notin registered' \cup parked'
       /\ \/ id \notin queues'
          \/ id \in queues /\ IsGroup(id)
          \/ \E h \in Ids : creator[h] = id]_vars

\* A session that changes its peer leaves no mail behind: the mailbox moves
\* with it, unless another session still acts for the old peer.
MailFollowsSessions ==
  [][\A s \in Clients :
       binding[s] # None /\ binding'[s] \notin {None, binding[s]} =>
         \/ mail[binding[s]] \subseteq mail'[binding'[s]]
         \/ \E t \in Clients : binding'[t] = binding[s]]_vars

\* A mailbox is destroyed only once nobody is attached to it: one session that
\* leaves does not take the mail of the others.
OnlyUnattendedMailIsLost ==
  [][\A p \in queues \ queues', s \in Clients : binding'[s] # p]_vars

=============================================================================
