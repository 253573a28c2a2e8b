------------------------------ MODULE Directory ------------------------------
(***************************************************************************)
(* What the hub of src/src/hub.ts knows of peers that come and go: the     *)
(* profiles with their aliases and cards, who carries them along, which of *)
(* them are evicted, and whom bridge_discover offers.                      *)
(*                                                                         *)
(* Here a mailbox is there as long as its owner is registered or parked;   *)
(* mail, groups and sessions are those of Mailboxes and Sessions, and what *)
(* of the profiles outlives the process is part of Restart.                *)
(***************************************************************************)
EXTENDS Naturals, FiniteSets

CONSTANTS
  Ids, Aliases, Cards,
  Willing,       \* the cards with acceptsTasks
  Unset,
  MaxProfiles,   \* MAX_PROFILES
  MaxNow         \* bound: profiles made

ASSUME DirectoryAssumption ==
  /\ IsFiniteSet(Ids) /\ Willing \subseteq Cards /\ Unset \notin Aliases \cup Cards
  /\ MaxProfiles \in Nat \ {0} /\ MaxNow \in Nat

VARIABLES
  live,      \* lastSeen.keys()
  parked,    \* parkedAt.keys()
  profiles,
  now,       \* counts the profiles made, for registeredAt
  said       \* history: what the peer that is live under an id announced last

directory == <<live, parked, profiles, now, said>>

Profiled == DOMAIN profiles
Profile(alias, card, since) == [alias |-> alias, card |-> card, registeredAt |-> since]

DirectoryInit ==
  /\ live = {} /\ parked = {} /\ now = 0
  /\ profiles = [p \in {} |-> Profile(Unset, Unset, 0)]
  /\ said = [p \in Ids |-> Unset]

-----------------------------------------------------------------------------
(* The map of profiles.                                                    *)

\* profiles.set.
With(f, p, profile) == [q \in DOMAIN f \cup {p} |-> IF q = p THEN profile ELSE f[q]]

\* A profile that is there, or a new one.
ProfileOf(p) == IF p \in Profiled THEN profiles[p] ELSE Profile(Unset, Unset, now)
Ticks(p) == /\ p \notin Profiled => now < MaxNow
            /\ now' = IF p \in Profiled THEN now ELSE now + 1

Without(f, gone) == [p \in DOMAIN f \ gone |-> f[p]]

\* evictOverflowProfiles: as many as are too many, of those that are not registered
\* the oldest.
Evicted(f, kept) ==
  LET mayGo  == DOMAIN f \ kept
      over   == Cardinality(DOMAIN f) - MaxProfiles
      Older(p) == {q \in mayGo : f[q].registeredAt < f[p].registeredAt}
  IN Without(f, {p \in mayGo : over > Cardinality(Older(p))})

\* Mutant: the profile the id had wins.
MergedStale(old, new) ==
  LET mine  == profiles[old]
      stale == IF new \in Profiled THEN profiles[new] ELSE mine
  IN [alias        |-> IF stale.alias # Unset THEN stale.alias ELSE mine.alias,
      card         |-> IF stale.card # Unset THEN stale.card ELSE mine.card,
      registeredAt |-> IF stale.registeredAt < mine.registeredAt
                       THEN stale.registeredAt ELSE mine.registeredAt]

\* renamePeer: what the live peer lacks is adopted from a profile the id had, and
\* the earlier time is kept.
Merged(old, new) ==
  LET mine  == profiles[old]
      stale == IF new \in Profiled THEN profiles[new] ELSE Profile(Unset, Unset, mine.registeredAt)
  IN [alias        |-> IF mine.alias # Unset THEN mine.alias ELSE stale.alias,
      card         |-> IF mine.card # Unset THEN mine.card ELSE stale.card,
      registeredAt |-> IF stale.registeredAt < mine.registeredAt
                       THEN stale.registeredAt ELSE mine.registeredAt]

-----------------------------------------------------------------------------
(* Peers.                                                                  *)

ownsMailbox(p) == p \in parked

\* register: the id is free, or its owner takes it back.
Register(p, reclaim) ==
  /\ p \notin live /\ (reclaim \/ ~ownsMailbox(p))
  /\ Ticks(p)
  /\ live' = live \cup {p} /\ parked' = parked \ {p}
  /\ profiles' = Evicted(With(profiles, p, ProfileOf(p)), live')
  /\ said' = [said EXCEPT ![p] = Unset]

\* unregister, by the peer, a manager, or (keepMailbox) the idle GC.
Unregister(p, keepMailbox) ==
  /\ p \in live \/ (p \in parked /\ ~keepMailbox)
  /\ live' = live \ {p}
  /\ parked' = IF keepMailbox THEN parked \cup {p} ELSE parked \ {p}
  /\ said' = [said EXCEPT ![p] = Unset]
  /\ UNCHANGED <<profiles, now>>

\* expireParkedMailboxes.
Expire(p) ==
  /\ p \in parked
  /\ parked' = parked \ {p}
  /\ UNCHANGED <<live, profiles, now, said>>

\* bridge_announce: a card replaces the one before.  One that parseCard refuses
\* changes nothing.
Announce(p, card) ==
  /\ p \in live
  /\ Ticks(p)
  /\ profiles' = Evicted(With(profiles, p, [ProfileOf(p) EXCEPT !.card = card]), live)
  /\ said' = [said EXCEPT ![p] = card]
  /\ UNCHANGED <<live, parked>>

\* setAlias, or clearing it.
SetAlias(p, alias) ==
  /\ p \in live
  /\ profiles' = IF p \in Profiled THEN [profiles EXCEPT ![p].alias = alias] ELSE profiles
  /\ UNCHANGED <<live, parked, now, said>>

renamePeer(old, new) ==
  /\ old # new /\ old \in live /\ new \notin live /\ ~ownsMailbox(new)
  /\ live' = (live \ {old}) \cup {new}
  /\ parked' = parked \ {old, new}
  /\ profiles' = With(Without(profiles, {old}), new, Merged(old, new))
  /\ said' = [said EXCEPT ![new] = said[old], ![old] = Unset]
  /\ UNCHANGED now

\* discover, with the filters left out but for acceptsTasks.
Offered == {p \in Profiled : profiles[p].card \in Willing}

-----------------------------------------------------------------------------

DirectoryNext ==
  \E p \in Ids :
    \/ \E b \in BOOLEAN : Register(p, b) \/ Unregister(p, b)
    \/ Expire(p)
    \/ \E c \in Cards : Announce(p, c)
    \/ \E a \in Aliases \cup {Unset} : SetAlias(p, a)
    \/ \E q \in Ids : renamePeer(p, q)

-----------------------------------------------------------------------------
(* Properties.                                                             *)

\* The types; who is registered is not parked, and has a profile.
DirectoryTypeOK ==
  /\ live \subseteq Ids /\ parked \subseteq Ids /\ live \cap parked = {}
  /\ live \subseteq Profiled /\ Profiled \subseteq Ids /\ now \in 0..MaxNow
  /\ profiles \in [Profiled -> [alias : Aliases \cup {Unset}, card : Cards \cup {Unset},
                             registeredAt : 0..MaxNow]]
  /\ said \in [Ids -> Cards \cup {Unset}]

\* What a registered peer announced is what others see of it, and it is offered for
\* work just if its last card said so, wherever it renames itself to, whatever was
\* known of that id, and however many others come and go ("live peers are never
\* evicted", at evictOverflowProfiles).
AnnouncedIsSeen ==
  \A p \in live : said[p] # Unset =>
    /\ p \in Profiled /\ profiles[p].card = said[p]
    /\ p \in Offered <=> said[p] \in Willing

\* A profile is forgotten only by a rename of its peer, or when there are too many of
\* them, and then no older one of a peer that is not registered is kept.
OldestAreForgotten ==
  [][\A p \in Profiled \ Profiled' :
        \/ \E q \in Ids : renamePeer(p, q)
        \/ /\ p \notin live' /\ Cardinality(Profiled) >= MaxProfiles
           /\ \A q \in (Profiled \cap Profiled') \ live' :
                 profiles[p].registeredAt <= profiles[q].registeredAt]_directory
=============================================================================
