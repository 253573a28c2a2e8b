------------------------------ MODULE Recovery ------------------------------
(***************************************************************************)
(* Two programs that have to come to show the hub as it is again, after    *)
(* whatever happened to the hub or to their requests: the app's client     *)
(* with the hub's end of its transport, and the token table of the admin   *)
(* page.  They share no state here: each behaviour is one of either.       *)
(***************************************************************************)
EXTENDS DesktopClient, AdminPage

VARIABLE program   \* the program the behaviour is one of

recovery == <<program, vars, page>>

\* The page stands still in one state.
RecoveryInit ==
  /\ program \in {"app", "page"}
  /\ Init /\ PageInit
  /\ program # "page" => file.peers = {}

RecoveryNext ==
  \/ program = "app" /\ Next /\ UNCHANGED <<program, page>>
  \/ program = "page" /\ PageNext /\ UNCHANGED <<program, vars>>

OfApp(A)  == program = "app" /\ A
OfPage(A) == program = "page" /\ A

\* The runtime goes on with every command and every watchdog, the frontend
\* polls again and again, and a watchdog notices that its response has ended.
AppFairness ==
  /\ \A c \in Commands : WF_vars(OfApp(CommandSteps(c)))
  /\ \A k \in McpClients :
       WF_vars(OfApp(DogSteps(k))) /\ WF_vars(OfApp(StreamBroken(k))) /\ WF_vars(OfApp(Leaked(k)))
  /\ \A n \in Conns : WF_vars(OfApp(Unread(n)))
  /\ \A s \in SessionIds : WF_vars(OfApp(Forgotten(s)))

\* The interval goes on, and refreshes as long as its calls are answered; the hub
\* polls the file; requests are answered.
PageFairness ==
  /\ WF_page(OfPage(Reconnects)) /\ WF_page(OfPage(PollPage)) /\ WF_page(OfPage(HubReloads))
  /\ \A clear \in BOOLEAN : WF_page(OfPage(HubLists(clear)))
  /\ \A m \in Members :
       WF_page(OfPage(HubAdds(m))) /\ WF_page(OfPage(HubRemoves(m))) /\ WF_page(OfPage(Changed(m)))
  /\ \A a \in Listings : WF_page(OfPage(Loaded(a)))

RecoverySpec ==
  /\ RecoveryInit /\ [][RecoveryNext]_recovery
  /\ AppFairness /\ PageFairness

\* What is said of the client at Recovers, where the app is the program.
AppRecovers == program = "app" => Recovers

\* The types of the two.
RecoveryTypeOK == TypeOK /\ PageTypeOK
=============================================================================
