----------------------------- MODULE DesktopApp -----------------------------
(***************************************************************************)
(* Four parts of the desktop app that share no state, and the session of   *)
(* the admin page, side by side: each behaviour is one of the controller   *)
(* of the hub process, of the message pool with its archive, of the        *)
(* roster, of the settings, or of the page.                                *)
(***************************************************************************)
EXTENDS HubProcess, MessageFeed, Roster, Settings, AdminSession

VARIABLE part   \* the part the behaviour is one of

\* The parts that stand still start in one state each.
Init ==
  /\ part \in {"process", "feed", "roster", "settings", "session"}
  /\ ProcessInit /\ FeedInit /\ RosterInit /\ SettingsInit /\ SessionInit
  /\ part # "process" => listener = None

Next ==
  \/ /\ part = "process" /\ ProcessNext
     /\ UNCHANGED <<part, feed, roster, settings, session>>
  \/ /\ part = "feed" /\ FeedNext
     /\ UNCHANGED <<part, controller, roster, settings, session>>
  \/ /\ part = "roster" /\ RosterNext
     /\ UNCHANGED <<part, controller, feed, settings, session>>
  \/ /\ part = "settings" /\ SettingsNext
     /\ UNCHANGED <<part, controller, feed, roster, session>>
  \/ /\ part = "session" /\ SessionNext
     /\ UNCHANGED <<part, controller, feed, roster, settings>>

OfRoster(A) == part = "roster" /\ A

\* bridge_peers is asked every ten seconds, and calls return.
RosterFairness ==
  /\ WF_roster(OfRoster(Arrives))
  /\ \A list \in Lists :
       /\ WF_roster(OfRoster(Sync(list))) /\ WF_roster(OfRoster(ApplyLive(list)))
       /\ WF_roster(OfRoster(ApplyLocal(list)))
  /\ \A p \in Peers :
       /\ WF_roster(OfRoster(KickDeletes(p))) /\ WF_roster(OfRoster(KickSuppresses(p)))
       /\ WF_roster(OfRoster(KickAnswered(p))) /\ WF_roster(OfRoster(ForgetAnswered(p)))
       /\ WF_roster(OfRoster(RenameDeletes(p))) /\ WF_roster(OfRoster(RenameAnswered(p)))

Spec ==
  /\ Init /\ [][Next]_<<part, controller, feed, roster, settings, session>>
  /\ RosterFairness

\* The types of the five.
TypeOK ==
  /\ ProcessTypeOK /\ FeedTypeOK /\ RosterTypeOK
  /\ SettingsTypeOK /\ SessionTypeOK
=============================================================================
