--------------------------- MODULE SessionsProofs ----------------------------
(***************************************************************************)
(* Theorems of Sessions, for any sessions, ids, tokens, managers and       *)
(* claims, claims of the ids of groups included.                           *)
(***************************************************************************)
EXTENDS Sessions, TLAPS

-----------------------------------------------------------------------------
(* The inductive invariant, by the state that its parts are about.         *)

\* Streams and suppressions are those of known sessions.
SessionsFit(known, open, barred) ==
  /\ known \subseteq Clients
  /\ open \subseteq known
  /\ barred \subseteq known

\* Bindings and registry agree: unknown sessions act for nobody, and none for
\* a parked peer; whoever is live has a profile.
PeersFit(bound, known, live, away, listed) ==
  /\ bound \in [Clients -> Ids \cup {None}]
  /\ \A s \in Clients \ known : bound[s] = None
  /\ \A s \in Clients : bound[s] \notin away
  /\ live \subseteq listed
  /\ listed \subseteq Ids
  /\ away \subseteq Ids \ live

\* Nobody who is live or parked has the id of a group.  A member that is not
\* listed, or has the id of a group itself, is the creator of its group: a
\* session bound by a refused claim may have been that.
GroupsFit(made, seats, live, away, listed) ==
  /\ made \in [Ids -> Ids \cup {None}]
  /\ seats \in [Ids -> SUBSET Ids]
  /\ \A id \in Ids : made[id] # None => id \in GroupIds
  /\ \A id \in live \cup away : made[id] = None
  /\ \A g \in Ids : \A m \in seats[g] \ {made[g]} : m \in listed /\ made[m] = None

MailFits(boxes, box, count) ==
  /\ boxes \subseteq Ids
  /\ box \in [Ids -> SUBSET (1..count)]
  /\ count \in 0..MaxSent

IInv ==
  /\ SessionsFit(sessions, streams, suppressed)
  /\ PeersFit(binding, sessions, registered, parked, profiles)
  /\ GroupsFit(creator, members, registered, parked, profiles)
  /\ MailFits(queues, mail, sent)

-----------------------------------------------------------------------------
(* Joining and changing an id.                                             *)

\* A session acts for the peer it is bound to, if it has one.  If not, it has
\* not left either, and joins under an id that no group has.
LEMMA AutoIdsApart ==
  ASSUME IInv, NEW s \in Clients, NEW p \in AutoIds(s)
  PROVE  /\ p \in Ids
         /\ binding[s] # None => binding[s] = p
         /\ binding[s] = None => creator[p] = None /\ s \notin suppressed
<1>1. /\ PeersFit(binding, sessions, registered, parked, profiles)
      /\ GroupsFit(creator, members, registered, parked, profiles)
  BY DEF IInv
<1>2. CASE binding[s] # None
  BY <1>1, <1>2 DEF AutoIds, PeersFit
<1>3. CASE binding[s] = None
  <2>1. s \notin suppressed
    BY <1>3 DEF AutoIds
  <2>2. CASE IsGroup(DerivedId(s))
    <3>1. p \in Ids \ GroupIds
      BY <1>3, <2>1, <2>2, SessionsAssumption DEF AutoIds
    <3> QED BY <1>1, <1>3, <2>1, <3>1 DEF GroupsFit
  <2>3. CASE ~IsGroup(DerivedId(s))
    <3>1. p = DerivedId(s)
      BY <1>3, <2>1, <2>3 DEF AutoIds
    <3>2. DerivedId(s) \in Ids
      BY SessionsAssumption DEF DerivedId
    <3> QED BY <1>3, <2>1, <2>3, <3>1, <3>2 DEF IsGroup
  <2> QED BY <2>2, <2>3
<1> QED BY <1>2, <1>3

\* The bindings and the peers once session s acts for p.
LEMMA JoiningFits ==
  ASSUME IInv, NEW s \in Clients, NEW p \in AutoIds(s),
         NEW known \in SUBSET Clients, sessions \subseteq known, s \in known
  PROVE  LET live == Live(s, p) IN
         /\ PeersFit(Bound(s, p), known, live, parked \ live, profiles \cup live)
         /\ GroupsFit(creator, members, live, parked \ live, profiles \cup live)
<1> DEFINE live == Live(s, p)
<1>1. /\ PeersFit(binding, sessions, registered, parked, profiles)
      /\ GroupsFit(creator, members, registered, parked, profiles)
  BY DEF IInv
<1>2. /\ p \in Ids
      /\ binding[s] = None => creator[p] = None
      /\ binding[s] # None => binding[s] = p
  BY AutoIdsApart
<1>3. /\ Bound(s, p) \in [Clients -> Ids \cup {None}]
      /\ Bound(s, p)[s] = p
      /\ \A t \in Clients \ {s} : Bound(s, p)[t] = binding[t]
  BY <1>1, <1>2 DEF Bound, PeersFit
<1>4. /\ registered \subseteq live /\ live \subseteq registered \cup {p}
      /\ binding[s] = None => p \in live
      /\ binding[s] # None => live = registered
  BY DEF Live
<1>5. \A t \in Clients : Bound(s, p)[t] \notin parked \ live
  <2> HIDE DEF live
  <2>1. Bound(s, p)[s] \notin parked \ live
    BY <1>1, <1>2, <1>3, <1>4 DEF PeersFit
  <2> QED BY <1>1, <1>3, <2>1 DEF PeersFit
<1>6. PeersFit(Bound(s, p), known, live, parked \ live, profiles \cup live)
  <2> HIDE DEF live
  <2> QED BY <1>1, <1>2, <1>3, <1>4, <1>5 DEF PeersFit
<1>7. GroupsFit(creator, members, live, parked \ live, profiles \cup live)
  <2> HIDE DEF live
  <2>1. \A id \in live \cup (parked \ live) : creator[id] = None
    BY <1>1, <1>2, <1>4 DEF GroupsFit
  <2> QED BY <1>1, <2>1 DEF GroupsFit
<1> QED BY <1>6, <1>7

\* A peer that changes its id takes its sessions, seats and mailbox along.
LEMMA RekeyFits ==
  ASSUME NEW bound, NEW live, NEW old, NEW new \in Ids,
         PeersFit(bound, sessions, live, parked \ live, profiles \cup live),
         GroupsFit(creator, members, live, parked \ live, profiles \cup live),
         MailFits(queues, mail, sent),
         Rekey(bound, live, old, new)
  PROVE  /\ PeersFit(binding', sessions, registered', parked', profiles')
         /\ GroupsFit(creator, members', registered', parked', profiles')
         /\ MailFits(queues', mail', sent)
         /\ old \in Ids /\ old # new
         /\ creator[new] = None
         /\ binding' = [s \in Clients |-> IF bound[s] = old THEN new ELSE bound[s]]
         /\ registered' = (live \ {old}) \cup {new}
         /\ queues' \subseteq queues \cup {new}
         /\ queues \subseteq queues' \cup {old}
         /\ mail'[new] = mail[old]
         /\ \A p \in Ids \ {old, new} : mail'[p] = mail[p]
<1>1. /\ old \in live /\ new \notin live /\ creator[new] = None
      /\ new \notin parked /\ new \notin queues
      /\ old \in Ids /\ old # new /\ new # None /\ old # None
  BY SessionsAssumption DEF Rekey, IsGroup, OwnsMailbox, PeersFit
<1>2. /\ binding' = [s \in Clients |-> IF bound[s] = old THEN new ELSE bound[s]]
      /\ registered' = (live \ {old}) \cup {new}
      /\ parked' = parked \ (live \cup {new})
      /\ profiles' = ((profiles \cup live) \ {old}) \cup {new}
      /\ members' = [g \in Ids |-> IF old \in members[g]
                                   THEN (members[g] \ {old}) \cup {new} ELSE members[g]]
      /\ mail' = [mail EXCEPT ![new] = mail[old], ![old] = {}]
      /\ queues' = IF old \in queues THEN (queues \ {old}) \cup {new} ELSE queues
  BY DEF Rekey
<1>3. PeersFit(binding', sessions, registered', parked', profiles')
  <2>1. binding' \in [Clients -> Ids \cup {None}]
    BY <1>1, <1>2 DEF PeersFit
  <2>2. \A s \in Clients : bound[s] = None => binding'[s] = None
    BY <1>1, <1>2
  <2>3. \A s \in Clients : binding'[s] \notin parked'
    BY <1>1, <1>2 DEF PeersFit
  <2> QED BY <1>1, <1>2, <2>1, <2>2, <2>3 DEF PeersFit
<1>4. GroupsFit(creator, members', registered', parked', profiles')
  <2>1. members' \in [Ids -> SUBSET Ids]
    BY <1>1, <1>2 DEF GroupsFit
  <2>2. \A id \in registered' \cup parked' : creator[id] = None
    BY <1>1, <1>2 DEF GroupsFit
  <2>3. ASSUME NEW g \in Ids, NEW m \in members'[g] \ {creator[g]}
        PROVE  m \in profiles' /\ creator[m] = None
    <3>1. m = new \/ (m \in members[g] /\ m # old)
      BY <1>2
    <3> QED BY <1>1, <1>2, <3>1 DEF GroupsFit
  <2> QED BY <2>1, <2>2, <2>3 DEF GroupsFit
<1>5. /\ mail' \in [Ids -> SUBSET (1..sent)]
      /\ mail'[new] = mail[old]
      /\ \A p \in Ids \ {old, new} : mail'[p] = mail[p]
  BY <1>1, <1>2 DEF MailFits
<1>6. MailFits(queues', mail', sent)
  BY <1>1, <1>2, <1>5 DEF MailFits
<1>7. queues' \subseteq queues \cup {new} /\ queues \subseteq queues' \cup {old}
  BY <1>2
<1> QED BY <1>1, <1>2, <1>3, <1>4, <1>5, <1>6, <1>7

-----------------------------------------------------------------------------
(* The steps keep the invariant.                                           *)

\* A tool call that needs a peer, up to what the tool itself does.
LEMMA CallerFits ==
  ASSUME IInv, NEW s \in Clients, NEW p, RequirePeer(s, p)
  PROVE  /\ SessionsFit(sessions', streams', suppressed')
         /\ PeersFit(binding', sessions', registered', parked', profiles')
         /\ GroupsFit(creator, members, registered', parked', profiles')
         /\ p \in AutoIds(s)
         /\ binding' = Bound(s, p)
         /\ registered' = Live(s, p)
         /\ suppressed' = suppressed
<1>1. /\ s \in sessions /\ p \in AutoIds(s)
      /\ binding' = Bound(s, p)
      /\ registered' = Live(s, p)
      /\ parked' = parked \ Live(s, p)
      /\ profiles' = profiles \cup Live(s, p)
      /\ UNCHANGED <<sessions, streams, suppressed>>
  BY DEF RequirePeer, Registry
<1>2. SessionsFit(sessions, streams, suppressed)
  BY DEF IInv
<1>3. sessions \in SUBSET Clients
  BY <1>2 DEF SessionsFit
<1> QED BY <1>1, <1>2, <1>3, JoiningFits

\* initialize.
LEMMA InitializeFits ==
  ASSUME IInv, NEW s \in Clients, Initialize(s)
  PROVE  IInv'
<1>1. /\ SessionsFit(sessions, streams, suppressed)
      /\ PeersFit(binding, sessions, registered, parked, profiles)
      /\ GroupsFit(creator, members, registered, parked, profiles)
      /\ MailFits(queues, mail, sent)
  BY DEF IInv
<1>2. /\ sessions' = sessions \cup {s}
      /\ UNCHANGED <<streams, suppressed, creator, members, queues, mail, sent>>
  BY DEF Initialize, channels, letters
<1>3. SessionsFit(sessions', streams', suppressed')
  BY <1>1, <1>2 DEF SessionsFit
<1>4. CASE \E p \in AutoIds(s) : binding' = Bound(s, p) /\ Registry(Live(s, p))
  <2>1. PICK p \in AutoIds(s) : binding' = Bound(s, p) /\ Registry(Live(s, p))
    BY <1>4
  <2>2. /\ registered' = Live(s, p)
        /\ parked' = parked \ Live(s, p)
        /\ profiles' = profiles \cup Live(s, p)
    BY <2>1 DEF Registry
  <2>3. sessions' \in SUBSET Clients /\ sessions \subseteq sessions' /\ s \in sessions'
    BY <1>2, <1>3 DEF SessionsFit
  <2>4. /\ PeersFit(binding', sessions', registered', parked', profiles')
        /\ GroupsFit(creator, members, registered', parked', profiles')
    BY <2>1, <2>2, <2>3, JoiningFits
  <2> QED BY <1>1, <1>2, <1>3, <2>4 DEF IInv
<1>5. CASE UNCHANGED <<binding, registry>>
  <2>1. PeersFit(binding', sessions', registered', parked', profiles')
    BY <1>1, <1>2, <1>5 DEF PeersFit, registry
  <2> QED BY <1>1, <1>2, <1>3, <1>5, <2>1 DEF IInv, registry
<1> QED BY <1>4, <1>5 DEF Initialize

\* GET, the end of a stream, and the sweep.
LEMMA SessionStepFits ==
  ASSUME IInv,
         \/ \E s \in Clients : OpenStream(s) \/ CloseStream(s)
         \/ \E old \in SUBSET sessions : Sweep(old)
  PROVE  IInv'
<1>1. /\ SessionsFit(sessions, streams, suppressed)
      /\ PeersFit(binding, sessions, registered, parked, profiles)
      /\ GroupsFit(creator, members, registered, parked, profiles)
      /\ MailFits(queues, mail, sent)
  BY DEF IInv
<1>2. UNCHANGED <<registered, parked, profiles, creator, members, queues, mail, sent>>
  BY DEF OpenStream, CloseStream, Sweep, registry, channels, letters
<1>3. CASE \E s \in Clients : OpenStream(s) \/ CloseStream(s)
  <2>1. /\ sessions \subseteq sessions' /\ sessions' \subseteq Clients
        /\ streams' \subseteq sessions' /\ binding' = binding /\ suppressed' = suppressed
    BY <1>1, <1>3 DEF OpenStream, CloseStream, SessionsFit
  <2>2. PeersFit(binding', sessions', registered', parked', profiles')
    BY <1>1, <1>2, <2>1 DEF PeersFit
  <2> QED BY <1>1, <1>2, <2>1, <2>2 DEF IInv, SessionsFit
<1>4. CASE \E old \in SUBSET sessions : Sweep(old)
  <2>1. PICK old \in SUBSET sessions : Sweep(old)
    BY <1>4
  <2>2. /\ old \subseteq sessions \ streams
        /\ sessions' = sessions \ old
        /\ binding' = [s \in Clients |-> IF s \in old THEN None ELSE binding[s]]
        /\ suppressed' = suppressed \ old
        /\ streams' = streams
    BY <2>1 DEF Sweep, Unbound
  <2>3. SessionsFit(sessions', streams', suppressed')
    BY <1>1, <2>2 DEF SessionsFit
  <2>4. PeersFit(binding', sessions', registered', parked', profiles')
    BY <1>1, <1>2, <2>2, SessionsAssumption DEF PeersFit
  <2> QED BY <1>1, <1>2, <2>3, <2>4 DEF IInv
<1> QED BY <1>3, <1>4

\* bridge_announce.
LEMMA AnnounceFits ==
  ASSUME IInv, NEW s \in Clients, NEW p \in Ids, Announce(s, p)
  PROVE  IInv'
<1>1. /\ s \in sessions /\ p \in AutoIds(s)
      /\ binding' = Bound(s, p)
      /\ registered' = Live(s, p)
      /\ parked' = parked \ Live(s, p)
      /\ profiles' = profiles \cup Live(s, p) \cup {p}
      /\ UNCHANGED <<sessions, streams, suppressed, creator, members, queues, mail, sent>>
  BY DEF Announce, channels, letters
<1>2. SessionsFit(sessions, streams, suppressed) /\ MailFits(queues, mail, sent)
  BY DEF IInv
<1>3. sessions \in SUBSET Clients
  BY <1>2 DEF SessionsFit
<1>4. /\ PeersFit(binding', sessions, registered', parked', profiles \cup Live(s, p))
      /\ GroupsFit(creator, members, registered', parked', profiles \cup Live(s, p))
  BY <1>1, <1>3, JoiningFits
<1>5. PeersFit(binding', sessions, registered', parked', profiles')
  BY <1>1, <1>4 DEF PeersFit
<1>6. GroupsFit(creator, members, registered', parked', profiles')
  BY <1>1, <1>4 DEF GroupsFit
<1> QED BY <1>1, <1>2, <1>5, <1>6 DEF IInv

\* The mail tools, and the tools that change nothing.
LEMMA MailStepFits ==
  ASSUME IInv, NEW s \in Clients, NEW p \in Ids,
         \/ Call(s, p)
         \/ Poll(s, p)
         \/ \E to \in Ids, kept \in SUBSET Ids : Send(s, p, to, kept)
  PROVE  IInv'
<1>1. MailFits(queues, mail, sent)
  BY DEF IInv
<1>2. RequirePeer(s, p)
  BY DEF Call, Poll, Send
<1>3. /\ SessionsFit(sessions', streams', suppressed')
      /\ PeersFit(binding', sessions', registered', parked', profiles')
      /\ GroupsFit(creator, members, registered', parked', profiles')
  BY <1>2, CallerFits
<1>4. UNCHANGED <<creator, members>>
  BY DEF Call, Poll, Send, channels
<1>5. MailFits(queues', mail', sent')
  <2>1. CASE Call(s, p)
    BY <1>1, <2>1 DEF Call, letters
  <2>2. CASE Poll(s, p)
    BY <1>1, <2>2 DEF Poll, MailFits
  <2>3. CASE \E to \in Ids, kept \in SUBSET Ids : Send(s, p, to, kept)
    <3>1. PICK to \in Ids, kept \in SUBSET Ids : Send(s, p, to, kept)
      BY <2>3
    <3>2. /\ sent < MaxSent /\ sent' = sent + 1
          /\ mail' = [q \in Ids |-> IF q \in kept THEN mail[q] \cup {sent + 1} ELSE mail[q]]
          /\ queues' = queues \cup kept
      BY <3>1 DEF Send
    <3>3. sent \in Nat /\ sent + 1 \in 0..MaxSent
      BY <1>1, <3>2, SessionsAssumption DEF MailFits
    <3>4. mail' \in [Ids -> SUBSET (1..(sent + 1))]
      <4>1. \A q \in Ids : mail[q] \subseteq 1..(sent + 1)
        BY <1>1, <3>3 DEF MailFits
      <4>2. sent + 1 \in 1..(sent + 1)
        BY <3>3
      <4> QED BY <3>2, <4>1, <4>2
    <3> QED BY <1>1, <3>2, <3>3, <3>4 DEF MailFits
  <2> QED BY <2>1, <2>2, <2>3
<1> QED BY <1>3, <1>4, <1>5 DEF IInv

\* The group tools.
LEMMA GroupStepFits ==
  ASSUME IInv, NEW s \in Clients, NEW p \in Ids, NEW g \in GroupIds,
         \/ \E others \in SUBSET registered : CreateGroup(s, p, g, others)
         \/ DeleteGroup(s, p, g)
         \/ \E m \in Ids : AddGroupMember(s, p, g, m)
         \/ \E m \in Ids : RemoveGroupMember(s, p, g, m)
  PROVE  IInv'
<1>1. RequirePeer(s, p)
  BY DEF CreateGroup, DeleteGroup, AddGroupMember, RemoveGroupMember
<1>2. /\ SessionsFit(sessions', streams', suppressed')
      /\ PeersFit(binding', sessions', registered', parked', profiles')
      /\ GroupsFit(creator, members, registered', parked', profiles')
  BY <1>1, CallerFits
<1>3. MailFits(queues, mail, sent) /\ UNCHANGED <<queues, mail, sent>>
  BY DEF IInv, CreateGroup, DeleteGroup, AddGroupMember, RemoveGroupMember, letters
<1>4. g \in Ids /\ None \notin Ids
  BY SessionsAssumption
<1>5. registered' \subseteq profiles' /\ profiles' \subseteq Ids
  BY <1>2 DEF PeersFit
<1>6. GroupsFit(creator', members', registered', parked', profiles')
  <2>1. CASE \E others \in SUBSET registered : CreateGroup(s, p, g, others)
    <3>1. PICK others \in SUBSET registered : CreateGroup(s, p, g, others)
      BY <2>1
    <3>2. /\ g \notin registered' \cup parked' \cup profiles' /\ others \subseteq registered'
          /\ creator' = [creator EXCEPT ![g] = p]
          /\ members' = [members EXCEPT ![g] = others \cup {p}]
      BY <3>1 DEF CreateGroup
    <3>3. /\ creator'[g] = p /\ members'[g] = others \cup {p}
          /\ \A id \in Ids : id # g => creator'[id] = creator[id] /\ members'[id] = members[id]
      BY <1>2, <1>4, <3>2 DEF GroupsFit
    <3>4. ASSUME NEW h \in Ids, NEW m \in members'[h] \ {creator'[h]}
          PROVE  m \in profiles' /\ creator'[m] = None
      <4>1. m \in Ids /\ m \in profiles' /\ creator[m] = None
        BY <1>2, <1>5, <3>2, <3>3 DEF GroupsFit
      <4> QED BY <3>2, <3>3, <4>1
    <3>5. /\ creator' \in [Ids -> Ids \cup {None}]
          /\ members' \in [Ids -> SUBSET Ids]
      BY <1>2, <1>4, <1>5, <3>2 DEF GroupsFit
    <3>6. \A id \in registered' \cup parked' : creator'[id] = None
      BY <1>2, <3>2, <3>3 DEF GroupsFit, PeersFit
    <3>7. \A id \in Ids : creator'[id] # None => id \in GroupIds
      BY <1>2, <3>3 DEF GroupsFit
    <3> QED BY <3>4, <3>5, <3>6, <3>7 DEF GroupsFit
  <2>2. CASE DeleteGroup(s, p, g)
    <3>1. /\ creator' = [creator EXCEPT ![g] = None]
          /\ members' = [members EXCEPT ![g] = {}]
      BY <2>2 DEF DeleteGroup
    <3>2. /\ creator'[g] = None /\ members'[g] = {}
          /\ \A id \in Ids : id # g => creator'[id] = creator[id] /\ members'[id] = members[id]
      BY <1>2, <1>4, <3>1 DEF GroupsFit
    <3>3. ASSUME NEW h \in Ids, NEW m \in members'[h] \ {creator'[h]}
          PROVE  m \in profiles' /\ creator'[m] = None
      <4>1. m \in Ids /\ m \in profiles' /\ creator[m] = None
        BY <1>2, <1>5, <3>2 DEF GroupsFit
      <4> QED BY <3>2, <4>1
    <3>4. \A id \in registered' \cup parked' : creator'[id] = None
      BY <1>2, <3>2 DEF GroupsFit, PeersFit
    <3>5. \A id \in Ids : creator'[id] # None => id \in GroupIds
      BY <1>2, <3>2 DEF GroupsFit
    <3> QED BY <1>2, <1>4, <3>1, <3>3, <3>4, <3>5 DEF GroupsFit
  <2>3. CASE \E m \in Ids : AddGroupMember(s, p, g, m)
    <3>1. PICK m \in Ids : AddGroupMember(s, p, g, m)
      BY <2>3
    <3>2. /\ m \in registered' /\ creator' = creator
          /\ members' = [members EXCEPT ![g] = @ \cup {m}]
      BY <3>1 DEF AddGroupMember
    <3>3. m \in profiles' /\ creator[m] = None
      BY <1>2, <1>5, <3>2 DEF GroupsFit
    <3> QED BY <1>2, <1>4, <3>2, <3>3 DEF GroupsFit
  <2>4. CASE \E m \in Ids : RemoveGroupMember(s, p, g, m)
    <3>1. PICK m \in Ids : RemoveGroupMember(s, p, g, m)
      BY <2>4
    <3>2. /\ creator' = creator
          /\ members' = [members EXCEPT ![g] = @ \ {m}]
      BY <3>1 DEF RemoveGroupMember
    <3> QED BY <1>2, <1>4, <3>2 DEF GroupsFit
  <2> QED BY <2>1, <2>2, <2>3, <2>4
<1> QED BY <1>2, <1>3, <1>6 DEF IInv

\* bridge_register and bridge_rename.
LEMMA ClaimStepFits ==
  ASSUME IInv, NEW s \in Clients, NEW new \in Claims,
         \/ RegisterMoving(s, new)
         \/ RegisterAnew(s, new)
         \/ \E p, target \in Ids : Rename(s, p, target, new)
  PROVE  IInv'
<1>1. /\ SessionsFit(sessions, streams, suppressed)
      /\ PeersFit(binding, sessions, registered, parked, profiles)
      /\ GroupsFit(creator, members, registered, parked, profiles)
      /\ MailFits(queues, mail, sent)
  BY DEF IInv
<1>2. new \in Ids /\ new # None
  BY SessionsAssumption
<1>3. UNCHANGED <<sessions, streams, creator, sent>>
  BY DEF RegisterMoving, RegisterAnew, Rename, channels, letters
<1>4. CASE RegisterMoving(s, new)
  <2>1. profiles \cup registered = profiles /\ parked \ registered = parked
    BY <1>1 DEF PeersFit
  <2>2. Rekey(binding, registered, binding[s], new) /\ suppressed' = suppressed \ {s}
    BY <1>4 DEF RegisterMoving
  <2>3. /\ PeersFit(binding', sessions, registered', parked', profiles')
        /\ GroupsFit(creator, members', registered', parked', profiles')
        /\ MailFits(queues', mail', sent)
    BY <1>1, <1>2, <2>1, <2>2, RekeyFits
  <2> QED BY <1>1, <1>3, <2>2, <2>3 DEF IInv, SessionsFit
<1>5. CASE \E p, target \in Ids : Rename(s, p, target, new)
  <2>1. PICK p, target \in Ids : Rename(s, p, target, new)
    BY <1>5
  <2>2. /\ s \in sessions /\ p \in AutoIds(s) /\ suppressed' = suppressed
        /\ Rekey(Bound(s, p), Live(s, p), target, new)
    BY <2>1 DEF Rename
  <2>3. sessions \in SUBSET Clients
    BY <1>1 DEF SessionsFit
  <2>4. /\ PeersFit(Bound(s, p), sessions, Live(s, p),
                    parked \ Live(s, p), profiles \cup Live(s, p))
        /\ GroupsFit(creator, members, Live(s, p),
                     parked \ Live(s, p), profiles \cup Live(s, p))
    BY <2>2, <2>3, JoiningFits
  <2>5. /\ PeersFit(binding', sessions, registered', parked', profiles')
        /\ GroupsFit(creator, members', registered', parked', profiles')
        /\ MailFits(queues', mail', sent)
    BY <1>1, <1>2, <2>2, <2>4, RekeyFits
  <2> QED BY <1>1, <1>3, <2>2, <2>5 DEF IInv
<1>6. CASE RegisterAnew(s, new)
  <2>1. /\ s \in sessions
        /\ binding' = [binding EXCEPT ![s] = new]
        /\ UNCHANGED <<members, queues, mail>>
    BY <1>6 DEF RegisterAnew, Bound, channels, letters
  <2>2. /\ binding' \in [Clients -> Ids \cup {None}]
        /\ binding'[s] = new
        /\ \A t \in Clients \ {s} : binding'[t] = binding[t]
    BY <1>1, <1>2, <2>1 DEF PeersFit
  <2>3. CASE IsGroup(new) /\ new \notin registered
    <3>1. UNCHANGED <<suppressed, registered, parked, profiles>>
      BY <1>6, <2>3 DEF RegisterAnew, registry
    <3>2. new \notin parked
      BY <1>1, <2>3 DEF IsGroup, GroupsFit
    <3>3. PeersFit(binding', sessions, registered, parked, profiles)
      BY <1>1, <2>1, <2>2, <3>2 DEF PeersFit, SessionsFit
    <3> QED BY <1>1, <1>3, <2>1, <3>1, <3>3 DEF IInv
  <2>4. CASE ~(IsGroup(new) /\ new \notin registered)
    <3>1. /\ suppressed' = suppressed \ {s}
          /\ registered' = registered \cup {new}
          /\ parked' = parked \ (registered \cup {new})
          /\ profiles' = profiles \cup (registered \cup {new})
      BY <1>6, <2>4 DEF RegisterAnew, Registry
    <3>2. creator[new] = None
      BY <1>1, <2>4 DEF IsGroup, GroupsFit
    <3>3. PeersFit(binding', sessions, registered', parked', profiles')
      BY <1>1, <1>2, <2>1, <2>2, <3>1 DEF PeersFit, SessionsFit
    <3>4. GroupsFit(creator, members, registered', parked', profiles')
      BY <1>1, <3>1, <3>2 DEF GroupsFit
    <3> QED BY <1>1, <1>3, <2>1, <3>1, <3>3, <3>4 DEF IInv, SessionsFit
  <2> QED BY <2>3, <2>4
<1> QED BY <1>4, <1>5, <1>6

\* bridge_unregister, of oneself or by a manager, and the idle GC.
LEMMA LeavingStepFits ==
  ASSUME IInv,
         \/ \E s \in Clients : Leave(s)
         \/ \E s \in Clients, target \in Ids : Kick(s, target)
         \/ \E idle \in SUBSET registered, overdue \in SUBSET parked : GcTick(idle, overdue)
  PROVE  IInv'
<1>1. /\ SessionsFit(sessions, streams, suppressed)
      /\ PeersFit(binding, sessions, registered, parked, profiles)
      /\ GroupsFit(creator, members, registered, parked, profiles)
      /\ MailFits(queues, mail, sent)
  BY DEF IInv
<1>2. UNCHANGED <<sessions, streams, creator, members, sent, profiles>>
  BY DEF Leave, Kick, GcTick, Unregister, DropMailboxes, registry, channels, letters
<1>3. ASSUME NEW gone, DropMailboxes(gone)
      PROVE  MailFits(queues', mail', sent')
  BY <1>1, <1>2, <1>3 DEF DropMailboxes, MailFits
<1>4. CASE \E s \in Clients : Leave(s)
  <2>1. PICK s \in Clients : Leave(s)
    BY <1>4
  <2>2. /\ s \in sessions
        /\ binding' = [t \in Clients |-> IF t \in {s} THEN None ELSE binding[t]]
        /\ suppressed' = suppressed \cup {s}
    BY <2>1 DEF Leave, Unbound
  <2>3. /\ registered' \subseteq registered /\ parked' \subseteq parked
        /\ MailFits(queues', mail', sent')
    BY <1>1, <1>3, <2>1 DEF Leave, Unregister, registry, letters
  <2>4. PeersFit(binding', sessions, registered', parked', profiles)
    BY <1>1, <2>2, <2>3, SessionsAssumption DEF PeersFit
  <2>5. GroupsFit(creator, members, registered', parked', profiles)
    BY <1>1, <2>3 DEF GroupsFit
  <2> QED BY <1>1, <1>2, <2>2, <2>3, <2>4, <2>5 DEF IInv, SessionsFit
<1>5. CASE \E s \in Clients, target \in Ids : Kick(s, target)
  <2>1. PICK s \in Clients, target \in Ids : Kick(s, target)
    BY <1>5
  <2>2. /\ binding' = [t \in Clients |-> IF t \in Attached(target) THEN None ELSE binding[t]]
        /\ suppressed' = suppressed \cup Attached(target)
        /\ registered' = registered \ {target}
        /\ parked' = parked \ {target}
        /\ DropMailboxes({target})
    BY <2>1 DEF Kick, Unbound, Unregister
  <2>3. Attached(target) \subseteq sessions
    BY <1>1, SessionsAssumption DEF Attached, PeersFit
  <2>4. PeersFit(binding', sessions, registered', parked', profiles)
    BY <1>1, <2>2, SessionsAssumption DEF PeersFit
  <2>5. SessionsFit(sessions, streams, suppressed')
    BY <1>1, <2>2, <2>3 DEF SessionsFit
  <2>6. GroupsFit(creator, members, registered', parked', profiles)
    BY <1>1, <2>2 DEF GroupsFit
  <2>7. MailFits(queues', mail', sent')
    BY <1>3, <2>2
  <2> QED BY <1>1, <1>2, <2>4, <2>5, <2>6, <2>7 DEF IInv
<1>6. CASE \E idle \in SUBSET registered, overdue \in SUBSET parked : GcTick(idle, overdue)
  <2>1. PICK idle \in SUBSET registered, overdue \in SUBSET parked : GcTick(idle, overdue)
    BY <1>6
  <2>2. /\ binding' = [t \in Clients |-> IF t \in {c \in Clients : binding[c] \in idle}
                                        THEN None ELSE binding[t]]
        /\ registered' = registered \ idle
        /\ parked' = (parked \cup idle) \ overdue
        /\ DropMailboxes(overdue)
        /\ suppressed' = suppressed
    BY <2>1 DEF GcTick, Unbound
  <2>3. PeersFit(binding', sessions, registered', parked', profiles)
    BY <1>1, <2>2, SessionsAssumption DEF PeersFit
  <2>4. GroupsFit(creator, members, registered', parked', profiles)
    BY <1>1, <2>2 DEF GroupsFit
  <2>5. MailFits(queues', mail', sent')
    BY <1>3, <2>2
  <2> QED BY <1>1, <1>2, <2>2, <2>3, <2>4, <2>5 DEF IInv
<1> QED BY <1>4, <1>5, <1>6

-----------------------------------------------------------------------------
(* The theorems.                                                           *)

\* Every step keeps the invariant.
LEMMA InvStep ==
  ASSUME IInv, [Next]_vars
  PROVE  IInv'
<1>1. ASSUME NEW s \in Clients, Initialize(s) PROVE IInv'
  BY <1>1, InitializeFits
<1>2. CASE \/ \E s \in Clients : OpenStream(s) \/ CloseStream(s)
           \/ \E old \in SUBSET sessions : Sweep(old)
  BY <1>2, SessionStepFits
<1>3. ASSUME NEW s \in Clients, NEW p \in Ids,
             \/ Call(s, p)
             \/ Poll(s, p)
             \/ \E to \in Ids, kept \in SUBSET Ids : Send(s, p, to, kept)
      PROVE  IInv'
  BY <1>3, MailStepFits
<1>4. ASSUME NEW s \in Clients, NEW p \in Ids, Announce(s, p) PROVE IInv'
  BY <1>4, AnnounceFits
<1>5. ASSUME NEW s \in Clients, NEW new \in Claims,
             \/ RegisterMoving(s, new)
             \/ RegisterAnew(s, new)
             \/ \E p, target \in Ids : Rename(s, p, target, new)
      PROVE  IInv'
  BY <1>5, ClaimStepFits
<1>6. CASE \/ \E s \in Clients : Leave(s)
           \/ \E s \in Clients, target \in Ids : Kick(s, target)
           \/ \E idle \in SUBSET registered, overdue \in SUBSET parked : GcTick(idle, overdue)
  BY <1>6, LeavingStepFits
<1>7. ASSUME NEW s \in Clients, NEW p \in Ids, NEW g \in GroupIds,
             \/ \E others \in SUBSET registered : CreateGroup(s, p, g, others)
             \/ DeleteGroup(s, p, g)
             \/ \E m \in Ids : AddGroupMember(s, p, g, m)
             \/ \E m \in Ids : RemoveGroupMember(s, p, g, m)
      PROVE  IInv'
  BY <1>7, GroupStepFits
<1>8. CASE UNCHANGED vars
  BY <1>8 DEF vars, attachment, registry, channels, letters, IInv
<1>9. \A s \in Streaming : s \in Clients
  BY SessionsAssumption
<1> QED BY <1>1, <1>2, <1>3, <1>4, <1>5, <1>6, <1>7, <1>8, <1>9 DEF Next

\* Sessions, registry, groups and mailboxes fit together at all times.
THEOREM Invariant == Spec => []IInv
<1>1. Init => IInv
  BY SessionsAssumption
  DEF Init, IInv, SessionsFit, PeersFit, GroupsFit, MailFits
<1>2. IInv /\ [Next]_vars => IInv'
  BY InvStep
<1> QED BY <1>1, <1>2, PTL DEF Spec

\* Every map of sessions, peers, groups and mailboxes keeps its type, and
\* nobody is both live and parked.
THEOREM TypeCorrect == Spec => []TypeOK
<1>1. IInv => TypeOK
  BY DEF IInv, TypeOK, SessionsFit, PeersFit, GroupsFit, MailFits
<1> QED BY <1>1, Invariant, PTL

\* The steps by what they do to bindings, registry and mailboxes.  A caller
\* comes to act for a peer and is registered as that:
Joins(c, p) ==
  /\ p \in AutoIds(c)
  /\ binding' = Bound(c, p)
  /\ registered' = Live(c, p)
  /\ suppressed' = suppressed
  /\ queues \subseteq queues'

\* A peer changes its id, once the caller is bound:
Moves(bound, live, old, new) ==
  /\ Rekey(bound, live, old, new)
  /\ \/ bound = binding /\ live = registered
     \/ \E c \in Clients : \E p \in AutoIds(c) : bound = Bound(c, p) /\ live = Live(c, p)
  /\ suppressed' \subseteq suppressed
  /\ creator' = creator

\* Sessions go, with or without their peers:
Goes ==
  \/ \E c \in Clients : Leave(c)
  \/ \E c \in Clients, target \in Ids : Kick(c, target)
  \/ \E idle \in SUBSET registered, overdue \in SUBSET parked : GcTick(idle, overdue)

\* Nobody's binding changes, unless a session is forgotten:
Rests ==
  /\ \A s \in Clients : binding'[s] \in {None, binding[s]}
  /\ registered' = registered
  /\ suppressed' \subseteq suppressed
  /\ queues' = queues

\* There are no other steps.
LEMMA StepKinds ==
  ASSUME IInv, [Next]_vars
  PROVE  \/ \E c \in Clients : \E p \in AutoIds(c) : Joins(c, p)
         \/ \E bound, live, old : \E new \in Ids : Moves(bound, live, old, new)
         \/ \E c \in Clients, id \in Claims : RegisterAnew(c, id)
         \/ Goes
         \/ Rests
<1>1. PeersFit(binding, sessions, registered, parked, profiles)
  BY DEF IInv
<1>2. CASE \E c \in Clients : Initialize(c)
  <2>1. PICK c \in Clients : Initialize(c)
    BY <1>2
  <2>2. UNCHANGED <<suppressed, queues>>
    BY <2>1 DEF Initialize, letters
  <2>3. CASE \E p \in AutoIds(c) : binding' = Bound(c, p) /\ Registry(Live(c, p))
    BY <2>2, <2>3 DEF Joins, Registry
  <2>4. CASE UNCHANGED <<binding, registry>>
    BY <2>2, <2>4 DEF Rests, registry
  <2> QED BY <2>1, <2>3, <2>4 DEF Initialize
<1>3. CASE \E c \in Clients : OpenStream(c) \/ CloseStream(c)
  BY <1>3 DEF OpenStream, CloseStream, Rests, registry, letters
<1>4. CASE \E old \in SUBSET sessions : Sweep(old)
  <2>1. PICK old \in SUBSET sessions : Sweep(old)
    BY <1>4
  <2> QED BY <2>1 DEF Sweep, Unbound, Rests, registry, letters
<1>5. ASSUME NEW c \in Clients, NEW p \in Ids, RequirePeer(c, p), queues \subseteq queues'
      PROVE  \E q \in AutoIds(c) : Joins(c, q)
  BY <1>5 DEF RequirePeer, Registry, Joins
<1>6. ASSUME NEW c \in Clients, NEW p \in Ids,
             \/ Call(c, p) \/ Poll(c, p) \/ Announce(c, p)
             \/ \E to \in Ids, kept \in SUBSET Ids : Send(c, p, to, kept)
      PROVE  \E q \in AutoIds(c) : Joins(c, q)
  <2>1. queues \subseteq queues'
    BY <1>6 DEF Call, Poll, Announce, Send, letters
  <2>2. CASE Announce(c, p)
    BY <2>1, <2>2 DEF Announce, Joins
  <2>3. CASE ~Announce(c, p)
    <3>1. RequirePeer(c, p)
      BY <1>6, <2>3 DEF Call, Poll, Send
    <3> QED BY <1>5, <2>1, <3>1
  <2> QED BY <2>2, <2>3
<1>7. ASSUME NEW c \in Clients, NEW p \in Ids, NEW g \in GroupIds,
             \/ \E others \in SUBSET registered : CreateGroup(c, p, g, others)
             \/ DeleteGroup(c, p, g)
             \/ \E m \in Ids : AddGroupMember(c, p, g, m)
             \/ \E m \in Ids : RemoveGroupMember(c, p, g, m)
      PROVE  \E q \in AutoIds(c) : Joins(c, q)
  <2>1. RequirePeer(c, p) /\ queues \subseteq queues'
    BY <1>7 DEF CreateGroup, DeleteGroup, AddGroupMember, RemoveGroupMember, letters
  <2> QED BY <1>5, <2>1
<1>8. ASSUME NEW c \in Clients, NEW new \in Claims, RegisterMoving(c, new)
      PROVE  \E bound, live, old : \E id \in Ids : Moves(bound, live, old, id)
  <2>1. new \in Ids
    BY SessionsAssumption
  <2>2. Moves(binding, registered, binding[c], new)
    BY <1>8 DEF RegisterMoving, Moves
  <2> QED BY <2>1, <2>2
<1>9. ASSUME NEW c \in Clients, NEW new \in Claims, NEW p \in Ids, NEW target \in Ids,
             Rename(c, p, target, new)
      PROVE  \E bound, live, old : \E id \in Ids : Moves(bound, live, old, id)
  <2>1. new \in Ids
    BY SessionsAssumption
  <2>2. Moves(Bound(c, p), Live(c, p), target, new)
    BY <1>9 DEF Rename, Moves
  <2> QED BY <2>1, <2>2
<1>10. CASE UNCHANGED vars
  BY <1>10 DEF vars, attachment, registry, letters, Rests
<1>11. \A s \in Streaming : s \in Clients
  BY SessionsAssumption
<1> QED BY <1>2, <1>3, <1>4, <1>6, <1>7, <1>8, <1>9, <1>10, <1>11 DEF Next, Goes

\* What the bindings and the peers are that a peer changes its id in.
LEMMA MovesFit ==
  ASSUME IInv, NEW bound, NEW live, NEW old, NEW new \in Ids, Moves(bound, live, old, new)
  PROVE  /\ old \in Ids /\ old # new /\ old # None /\ new # None
         /\ creator[new] = None
         /\ binding' = [s \in Clients |-> IF bound[s] = old THEN new ELSE bound[s]]
         /\ registered' = (live \ {old}) \cup {new}
         /\ queues' \subseteq queues \cup {new}
         /\ queues \subseteq queues' \cup {old}
         /\ mail'[new] = mail[old]
         /\ registered \subseteq live
         /\ \A s \in Clients : \/ bound[s] = binding[s]
                               \/ /\ binding[s] = None /\ s \notin suppressed
                                  /\ bound[s] \in live
<1>1. /\ SessionsFit(sessions, streams, suppressed)
      /\ PeersFit(binding, sessions, registered, parked, profiles)
      /\ GroupsFit(creator, members, registered, parked, profiles)
      /\ MailFits(queues, mail, sent)
  BY DEF IInv
<1>2. Rekey(bound, live, old, new)
  BY DEF Moves
<1>3. CASE bound = binding /\ live = registered
  <2>1. profiles \cup live = profiles /\ parked \ live = parked
    BY <1>1, <1>3 DEF PeersFit
  <2> QED BY <1>1, <1>2, <1>3, <2>1, RekeyFits, SessionsAssumption
<1>4. CASE \E c \in Clients : \E p \in AutoIds(c) : bound = Bound(c, p) /\ live = Live(c, p)
  <2>1. PICK c \in Clients : \E p \in AutoIds(c) : bound = Bound(c, p) /\ live = Live(c, p)
    BY <1>4
  <2>2. PICK p \in AutoIds(c) : bound = Bound(c, p) /\ live = Live(c, p)
    BY <2>1
  <2>3. sessions \cup {c} \in SUBSET Clients
    BY <1>1 DEF SessionsFit
  <2>4. /\ PeersFit(bound, sessions \cup {c}, live, parked \ live, profiles \cup live)
        /\ GroupsFit(creator, members, live, parked \ live, profiles \cup live)
    BY <2>2, <2>3, JoiningFits
  <2>5. /\ binding[c] # None => binding[c] = p
        /\ binding[c] = None => c \notin suppressed
        /\ p \in Ids
    BY <2>2, AutoIdsApart
  <2>6. bound[c] = p /\ \A t \in Clients \ {c} : bound[t] = binding[t]
    BY <1>1, <2>2 DEF Bound, PeersFit
  <2>7. registered \subseteq live /\ (binding[c] = None => p \in live)
    BY <2>2 DEF Live
  <2>8. /\ old \in live /\ creator[new] = None
        /\ old \in Ids /\ old # new
        /\ binding' = [s \in Clients |-> IF bound[s] = old THEN new ELSE bound[s]]
        /\ registered' = (live \ {old}) \cup {new}
        /\ queues' = IF old \in queues THEN (queues \ {old}) \cup {new} ELSE queues
        /\ mail' = [mail EXCEPT ![new] = mail[old], ![old] = {}]
    BY <1>2, <2>4 DEF Rekey, IsGroup, PeersFit
  <2>9. mail'[new] = mail[old]
    BY <1>1, <2>8 DEF MailFits
  <2>10. old # None /\ new # None
    BY <2>8, SessionsAssumption
  <2>11. queues' \subseteq queues \cup {new} /\ queues \subseteq queues' \cup {old}
    BY <2>8
  <2> QED BY <2>5, <2>6, <2>7, <2>8, <2>9, <2>10, <2>11
<1> QED BY <1>3, <1>4 DEF Moves

\* No step but a refused claim leaves a session acting for somebody who is not
\* in the registry, unless it was so before.
LEMMA BoundStep ==
  ASSUME IInv, [Next]_vars, NEW s \in Clients, binding'[s] \notin registered' \cup {None}
  PROVE  \/ binding'[s] = binding[s] /\ binding[s] \notin registered
         \/ RefusedClaim(s, binding'[s])
<1>1. PeersFit(binding, sessions, registered, parked, profiles)
  BY DEF IInv
<1>2. ASSUME NEW c \in Clients, NEW p \in AutoIds(c), Joins(c, p)
      PROVE  binding'[s] = binding[s] /\ binding[s] \notin registered
  <2>1. /\ binding' = [binding EXCEPT ![c] = p]
        /\ registered \subseteq registered'
        /\ binding[c] = None => p \in registered'
    BY <1>2 DEF Joins, Bound, Live
  <2>2. binding[c] # None => binding[c] = p
    BY AutoIdsApart
  <2> QED BY <1>1, <2>1, <2>2 DEF PeersFit
<1>3. ASSUME NEW bound, NEW live, NEW old, NEW new \in Ids, Moves(bound, live, old, new)
      PROVE  binding'[s] = binding[s] /\ binding[s] \notin registered
  BY <1>3, MovesFit
<1>4. ASSUME NEW c \in Clients, NEW id \in Claims, RegisterAnew(c, id)
      PROVE  \/ binding'[s] = binding[s] /\ binding[s] \notin registered
             \/ RefusedClaim(s, binding'[s])
  <2>1. /\ binding' = [binding EXCEPT ![c] = id]
        /\ registered \subseteq registered'
        /\ IsGroup(id) \/ id \in registered'
    BY <1>4 DEF RegisterAnew, Bound, Registry, registry
  <2>2. CASE s # c
    BY <1>1, <2>1, <2>2 DEF PeersFit
  <2>3. CASE s = c
    <3>1. binding'[s] = id
      BY <1>1, <2>1, <2>3 DEF PeersFit
    <3> QED BY <1>4, <2>1, <2>3, <3>1 DEF RefusedClaim
  <2> QED BY <2>2, <2>3
<1>5. CASE Goes
  <2>1. CASE \E c \in Clients : Leave(c)
    <3>1. PICK c \in Clients : Leave(c)
      BY <2>1
    <3>2. /\ binding' = [t \in Clients |-> IF t \in {c} THEN None ELSE binding[t]]
          /\ registered' = IF binding[c] # None /\ Attached(binding[c]) = {c}
                           THEN registered \ {binding[c]} ELSE registered
      BY <3>1 DEF Leave, Unbound, Unregister, registry
    <3> QED BY <3>2 DEF Attached
  <2>2. CASE \E c \in Clients, target \in Ids : Kick(c, target)
    BY <2>2 DEF Kick, Unbound, Unregister, Attached
  <2>3. CASE \E idle \in SUBSET registered, overdue \in SUBSET parked : GcTick(idle, overdue)
    BY <2>3 DEF GcTick, Unbound
  <2> QED BY <1>5, <2>1, <2>2, <2>3 DEF Goes
<1>6. CASE Rests
  BY <1>6 DEF Rests
<1> QED BY <1>2, <1>3, <1>4, <1>5, <1>6, StepKinds

\* Whoever a session comes to act for is in the registry and stays there as
\* long as it does, through sweeps, parking, kicks and renames; only a refused
\* claim of a group's id binds a session to nobody.
THEOREM SessionsActForLivePeers == Spec => BoundPeersAreLive
<1>1. IInv /\ [Next]_vars =>
        [\A s \in Clients : binding'[s] \notin registered' \cup {None} =>
           \/ binding'[s] = binding[s] /\ binding[s] \notin registered
           \/ RefusedClaim(s, binding'[s])]_vars
  BY BoundStep
<1> QED BY <1>1, Invariant, PTL DEF Spec, BoundPeersAreLive

\* Leaving unbinds, and only its own claim binds a session that has left.
LEMMA SuppressedStep ==
  ASSUME IInv, [Next]_vars, NEW s \in Clients
  PROVE  /\ s \in suppressed' /\ s \notin suppressed => binding'[s] = None
         /\ s \in suppressed /\ binding[s] = None /\ binding'[s] # None =>
              RegisterAnew(s, binding'[s])
<1>1. PeersFit(binding, sessions, registered, parked, profiles)
  BY DEF IInv
<1>2. ASSUME NEW c \in Clients, NEW p \in AutoIds(c), Joins(c, p)
      PROVE  /\ suppressed' = suppressed
             /\ s \in suppressed /\ binding[s] = None => binding'[s] = None
  <2>1. binding' = [binding EXCEPT ![c] = p] /\ suppressed' = suppressed
    BY <1>2 DEF Joins, Bound
  <2>2. binding[c] = None => c \notin suppressed
    BY AutoIdsApart
  <2> QED BY <1>1, <2>1, <2>2 DEF PeersFit
<1>3. ASSUME NEW bound, NEW live, NEW old, NEW new \in Ids, Moves(bound, live, old, new)
      PROVE  /\ suppressed' \subseteq suppressed
             /\ s \in suppressed /\ binding[s] = None => binding'[s] = None
  <2>1. /\ old # None
        /\ binding' = [t \in Clients |-> IF bound[t] = old THEN new ELSE bound[t]]
        /\ bound[s] = binding[s] \/ s \notin suppressed
    BY <1>3, MovesFit
  <2> QED BY <1>3, <2>1 DEF Moves
<1>4. ASSUME NEW c \in Clients, NEW id \in Claims, RegisterAnew(c, id)
      PROVE  /\ suppressed' \subseteq suppressed
             /\ binding[s] = None /\ binding'[s] # None => RegisterAnew(s, binding'[s])
  <2>1. binding' = [binding EXCEPT ![c] = id] /\ suppressed' \subseteq suppressed
    BY <1>4 DEF RegisterAnew, Bound
  <2>2. CASE s # c
    BY <1>1, <2>1, <2>2 DEF PeersFit
  <2>3. CASE s = c
    <3>1. binding'[s] = id
      BY <1>1, <2>1, <2>3 DEF PeersFit
    <3> QED BY <1>4, <2>1, <2>3, <3>1
  <2> QED BY <2>2, <2>3
<1>5. CASE Goes
  <2>1. CASE \E c \in Clients : Leave(c)
    BY <2>1 DEF Leave, Unbound
  <2>2. CASE \E c \in Clients, target \in Ids : Kick(c, target)
    BY <2>2 DEF Kick, Unbound
  <2>3. CASE \E idle \in SUBSET registered, overdue \in SUBSET parked : GcTick(idle, overdue)
    BY <2>3 DEF GcTick, Unbound
  <2> QED BY <1>5, <2>1, <2>2, <2>3 DEF Goes
<1>6. CASE Rests
  BY <1>6 DEF Rests
<1> QED BY <1>2, <1>3, <1>4, <1>5, <1>6, StepKinds

\* A session that left or was kicked out acts for nobody until its own claim
\* (suppressAuto), whoever joins, is renamed or leaves meanwhile.
THEOREM LeaversAreKeptOut == Spec => LeaversStayOut
<1>1. ASSUME IInv, [Next]_vars
      PROVE  [/\ \A s \in suppressed' \ suppressed : binding'[s] = None
              /\ \A s \in suppressed : binding[s] = None /\ binding'[s] # None =>
                   RegisterAnew(s, binding'[s])]_vars
  <2>1. suppressed \subseteq Clients /\ suppressed' \subseteq Clients
    BY <1>1, InvStep DEF IInv, SessionsFit
  <2> QED BY <1>1, <2>1, SuppressedStep
<1> QED BY <1>1, Invariant, PTL DEF Spec, LeaversStayOut

\* Mail reaches the id of a group only through a group that a session bound to
\* that id has created.
LEMMA GroupMailStep ==
  ASSUME IInv, [Next]_vars, NEW id \in Ids, creator'[id] # None, id \in queues'
  PROVE  \/ id \in queues /\ creator[id] # None
         \/ \E h \in Ids : creator[h] = id
<1>1. /\ PeersFit(binding, sessions, registered, parked, profiles)
      /\ GroupsFit(creator, members, registered, parked, profiles)
  BY DEF IInv
<1>2. CASE \E c \in Clients, p, to \in Ids, kept \in SUBSET Ids : Send(c, p, to, kept)
  <2>1. PICK c \in Clients, p \in Ids, to \in Ids, kept \in SUBSET Ids : Send(c, p, to, kept)
    BY <1>2
  <2>2. /\ creator' = creator /\ queues' = queues \cup kept
        /\ IsGroup(to) => kept \subseteq members[to]
        /\ ~IsGroup(to) => kept \subseteq {to}
    BY <2>1 DEF Send, channels
  <2>3. CASE id \in queues
    BY <2>2, <2>3
  <2>4. CASE id \in kept
    <3>1. id \in members[to]
      BY <2>2, <2>4 DEF IsGroup
    <3> QED BY <1>1, <2>2, <3>1 DEF GroupsFit
  <2> QED BY <2>2, <2>3, <2>4
<1>3. ASSUME NEW c \in Clients, NEW p \in Ids, NEW g \in GroupIds, NEW others,
             CreateGroup(c, p, g, others)
      PROVE  id \in queues /\ creator[id] # None
  <2>1. g \in Ids
    BY SessionsAssumption
  <2> QED BY <1>1, <1>3, <2>1 DEF CreateGroup, letters, GroupsFit
<1>4. ASSUME NEW c \in Clients, NEW p \in Ids, NEW g \in GroupIds, DeleteGroup(c, p, g)
      PROVE  id \in queues /\ creator[id] # None
  <2>1. g \in Ids
    BY SessionsAssumption
  <2> QED BY <1>1, <1>4, <2>1 DEF DeleteGroup, letters, GroupsFit
<1>5. ASSUME NEW bound, NEW live, NEW old, NEW new \in Ids, Moves(bound, live, old, new)
      PROVE  id \in queues /\ creator[id] # None
  <2>1. creator[new] = None /\ queues' \subseteq queues \cup {new}
    BY <1>5, MovesFit
  <2> QED BY <1>5, <2>1 DEF Moves
<1>6. CASE creator' = creator /\ queues' \subseteq queues
  BY <1>6
<1>7. ASSUME NEW c \in Clients, NEW new \in Claims, RegisterMoving(c, new)
      PROVE  \E bound, live, old : \E q \in Ids : Moves(bound, live, old, q)
  <2>1. new \in Ids
    BY SessionsAssumption
  <2>2. Moves(binding, registered, binding[c], new)
    BY <1>7 DEF RegisterMoving, Moves
  <2> QED BY <2>1, <2>2
<1>8. ASSUME NEW c \in Clients, NEW new \in Claims, NEW p \in Ids, NEW target \in Ids,
             Rename(c, p, target, new)
      PROVE  \E bound, live, old : \E q \in Ids : Moves(bound, live, old, q)
  <2>1. new \in Ids
    BY SessionsAssumption
  <2>2. Moves(Bound(c, p), Live(c, p), target, new)
    BY <1>8 DEF Rename, Moves
  <2> QED BY <2>1, <2>2
<1>9. CASE \/ \E c \in Clients : Initialize(c) \/ OpenStream(c) \/ CloseStream(c)
           \/ \E old \in SUBSET sessions : Sweep(old)
           \/ \E c \in Clients, p \in Ids : Call(c, p) \/ Announce(c, p) \/ Poll(c, p)
           \/ \E c \in Clients, q \in Claims : RegisterAnew(c, q)
           \/ \E c \in Clients, p, m \in Ids, g \in GroupIds : AddGroupMember(c, p, g, m)
           \/ \E c \in Clients, p, m \in Ids, g \in GroupIds : RemoveGroupMember(c, p, g, m)
           \/ UNCHANGED vars
  <2>1. UNCHANGED <<creator, queues>>
    BY <1>9 DEF Initialize, OpenStream, CloseStream, Sweep, Call, Announce, Poll, RegisterAnew,
                AddGroupMember, RemoveGroupMember, vars, channels, letters
  <2> QED BY <1>6, <2>1
<1>10. CASE Goes
  <2>1. creator' = creator /\ queues' \subseteq queues
    BY <1>10 DEF Goes, Leave, Kick, GcTick, Unregister, DropMailboxes, channels, letters
  <2> QED BY <1>6, <2>1
<1>11. \A c \in Streaming : c \in Clients
  BY SessionsAssumption
<1> QED BY <1>2, <1>3, <1>4, <1>5, <1>7, <1>8, <1>9, <1>10, <1>11 DEF Next, Goes

\* No peer, live or parked, has the id of a group, whatever ids are claimed or
\* renamed to, and no group comes by a mailbox but through a refused claimant.
THEOREM PeersAndGroupsApart == Spec => OneNamespace
<1>1. ASSUME IInv, [Next]_vars
      PROVE  [\A id \in Ids : IsGroup(id)' =>
                /\ id \notin registered' \cup parked'
                /\ \/ id \notin queues'
                   \/ id \in queues /\ IsGroup(id)
                   \/ \E h \in Ids : creator[h] = id]_vars
  <2>1. GroupsFit(creator', members', registered', parked', profiles')
    BY <1>1, InvStep DEF IInv
  <2>2. \A id \in registered' \cup parked' : creator'[id] = None
    BY <2>1 DEF GroupsFit
  <2> QED BY <1>1, <2>2, GroupMailStep DEF IsGroup
<1> QED BY <1>1, Invariant, PTL DEF Spec, OneNamespace

\* A step that changes the peer of a session moves the mail with it, or leaves
\* it to another session of that peer.
LEMMA MailFollowsStep ==
  ASSUME IInv, [Next]_vars, NEW s \in Clients,
         binding[s] # None, binding'[s] \notin {None, binding[s]}
  PROVE  \/ mail[binding[s]] \subseteq mail'[binding'[s]]
         \/ \E t \in Clients : binding'[t] = binding[s]
<1>1. PeersFit(binding, sessions, registered, parked, profiles)
  BY DEF IInv
<1>2. ASSUME NEW c \in Clients, NEW p \in AutoIds(c), Joins(c, p) PROVE FALSE
  <2>1. binding[c] # None => binding[c] = p
    BY AutoIdsApart
  <2>2. binding' = [binding EXCEPT ![c] = p]
    BY <1>2 DEF Joins, Bound
  <2> QED BY <1>1, <2>1, <2>2 DEF PeersFit
<1>3. ASSUME NEW bound, NEW live, NEW old, NEW new \in Ids, Moves(bound, live, old, new)
      PROVE  mail[binding[s]] \subseteq mail'[binding'[s]]
  <2>1. /\ binding' = [t \in Clients |-> IF bound[t] = old THEN new ELSE bound[t]]
        /\ mail'[new] = mail[old]
        /\ bound[s] = binding[s]
    BY <1>3, MovesFit
  <2>2. binding[s] = old /\ binding'[s] = new
    BY <2>1
  <2> QED BY <2>1, <2>2
<1>4. ASSUME NEW c \in Clients, NEW new \in Claims, RegisterAnew(c, new)
      PROVE  \E t \in Clients : binding'[t] = binding[s]
  <2>1. binding' = [binding EXCEPT ![c] = new] /\ ~Moving(c, new)
    BY <1>4 DEF RegisterAnew, Bound
  <2>2. s = c /\ new \notin {None, binding[s]}
    BY <1>1, <2>1 DEF PeersFit
  <2>3. Attached(binding[s]) # {s} /\ s \in Attached(binding[s])
    BY <2>1, <2>2 DEF Moving, Attached
  <2>4. PICK t \in Attached(binding[s]) : t # s
    BY <2>3
  <2>5. t \in Clients /\ binding'[t] = binding[s]
    BY <1>1, <2>1, <2>2, <2>4 DEF Attached, PeersFit
  <2> QED BY <2>5
<1>5. CASE Goes
  BY <1>5 DEF Goes, Leave, Kick, GcTick, Unbound
<1>6. CASE Rests
  BY <1>6 DEF Rests
<1> QED BY <1>2, <1>3, <1>4, <1>5, <1>6, StepKinds

\* A session that changes its peer leaves no unattended mail behind.
THEOREM MailMovesAlong == Spec => MailFollowsSessions
<1>1. IInv /\ [Next]_vars =>
        [\A s \in Clients :
           binding[s] # None /\ binding'[s] \notin {None, binding[s]} =>
             \/ mail[binding[s]] \subseteq mail'[binding'[s]]
             \/ \E t \in Clients : binding'[t] = binding[s]]_vars
  BY MailFollowsStep
<1> QED BY <1>1, Invariant, PTL DEF Spec, MailFollowsSessions

\* A step that destroys a mailbox leaves no session attached to it.
LEMMA LossStep ==
  ASSUME IInv, [Next]_vars, NEW p \in queues \ queues', NEW s \in Clients
  PROVE  binding'[s] # p
<1>1. PeersFit(binding, sessions, registered, parked, profiles) /\ MailFits(queues, mail, sent)
  BY DEF IInv
<1>2. p \in Ids /\ p # None
  BY <1>1, SessionsAssumption DEF MailFits
<1>3. ASSUME NEW bound, NEW live, NEW old, NEW new \in Ids, Moves(bound, live, old, new)
      PROVE  binding'[s] # p
  <2>1. /\ p = old /\ old # new
        /\ binding' = [t \in Clients |-> IF bound[t] = old THEN new ELSE bound[t]]
    BY <1>3, MovesFit
  <2> QED BY <2>1
<1>4. CASE Goes
  <2>1. CASE \E c \in Clients : Leave(c)
    <3>1. PICK c \in Clients : Leave(c)
      BY <2>1
    <3>2. p = binding[c] /\ Attached(binding[c]) = {c}
      BY <1>2, <3>1 DEF Leave, Unregister, DropMailboxes, letters
    <3>3. binding' = [t \in Clients |-> IF t \in {c} THEN None ELSE binding[t]]
      BY <3>1 DEF Leave, Unbound
    <3> QED BY <1>2, <3>2, <3>3 DEF Attached
  <2>2. CASE \E c \in Clients, target \in Ids : Kick(c, target)
    BY <1>2, <2>2 DEF Kick, Unregister, DropMailboxes, Unbound, Attached
  <2>3. CASE \E idle \in SUBSET registered, overdue \in SUBSET parked : GcTick(idle, overdue)
    BY <1>1, <1>2, <2>3 DEF GcTick, DropMailboxes, Unbound, PeersFit
  <2> QED BY <1>4, <2>1, <2>2, <2>3 DEF Goes
<1>5. CASE \/ \E c \in Clients : \E q \in AutoIds(c) : Joins(c, q)
           \/ \E c \in Clients, id \in Claims : RegisterAnew(c, id)
           \/ Rests
  BY <1>5 DEF Joins, RegisterAnew, Rests, letters
<1> QED BY <1>3, <1>4, <1>5, StepKinds

\* A mailbox is destroyed only once no session acts for its owner.
THEOREM LossIsUnattended == Spec => OnlyUnattendedMailIsLost
<1>1. IInv /\ [Next]_vars =>
        [\A p \in queues \ queues', s \in Clients : binding'[s] # p]_vars
  BY LossStep
<1> QED BY <1>1, Invariant, PTL DEF Spec, OnlyUnattendedMailIsLost

=============================================================================
