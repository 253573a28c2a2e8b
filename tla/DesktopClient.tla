---------------------------- MODULE DesktopClient ----------------------------
(***************************************************************************)
(* The desktop app as a client of the hub: the slot with its one MCP       *)
(* client, the commands of the frontend that use it, and the watchdog of   *)
(* each client, which keeps an SSE stream open.  The client is in          *)
(* app/src-tauri/src/mcp_client.rs, the rest in commands.rs.               *)
(*                                                                         *)
(* It is composed with Streams: a request is handled by the hub in the     *)
(* step that sends it, and its answer is dealt with in a later step of the *)
(* app.  Both ends may lose the other at any time.  The app takes the hub  *)
(* to be running as far as it knows: how it learns otherwise is HubProcess.*)
(***************************************************************************)
EXTENDS Streams

CONSTANTS
  Commands,    \* bound: commands that run at the same time
  McpClients   \* bound: clients that are referred to at the same time

ASSUME DesktopAssumption == None \notin McpClients

VARIABLES
  slot,     \* AppState.mcp: the client in use, or None
  session,  \* McpClient.session_id
  command,  \* what each command does, and with which client
  dog,      \* where the watchdog of each client is
  reading   \* the response the watchdog of each client reads, or None

app  == <<slot, session, command, dog, reading>>
vars == <<hub, app>>

Idle == [at |-> "idle", client |-> None]

Init ==
  /\ HubInit
  /\ slot = None
  /\ session = [k \in McpClients |-> None]
  /\ command = [c \in Commands |-> Idle]
  /\ dog = [k \in McpClients |-> "none"]
  /\ reading = [k \in McpClients |-> None]

Goto(c, at) == command' = [command EXCEPT ![c].at = at]
Return(c)   == command' = [command EXCEPT ![c] = Idle]
Forget(k)   == session' = [session EXCEPT ![k] = None]

\* Ids are random and no client is used again: the model uses those that are
\* forgotten.
FreshClient(k) ==
  /\ slot # k /\ dog[k] = "none"
  /\ \A c \in Commands : command[c].client # k
Remembered == {session[k] : k \in {l \in McpClients : ~FreshClient(l)}}
FreshSession(s) == s \notin known \cup Remembered

-----------------------------------------------------------------------------
(* ensure_mcp_initialized.                                                 *)

\* Mutant: a call without a client fails, and that is all.
BeginStrict(c) ==
  /\ command[c].at = "idle" /\ slot # None
  /\ command' = [command EXCEPT ![c] = [at |-> "post", client |-> slot]]
  /\ UNCHANGED <<hub, slot, session, dog, reading>>

\* require_mcp takes the client of the slot; without one it makes a new one,
\* and so do the start and the restart of the hub.
Begin(c) ==
  /\ command[c].at = "idle"
  /\ \/ /\ slot # None
        /\ command' = [command EXCEPT ![c] = [at |-> "post", client |-> slot]]
        /\ UNCHANGED session
     \/ \E k \in McpClients :
        /\ slot = None /\ FreshClient(k)
        /\ command' = [command EXCEPT ![c] = [at |-> "init", client |-> k]]
        /\ Forget(k)
  /\ UNCHANGED <<hub, slot, dog, reading>>

\* initialize, up to fifteen times; then the command gives up.
InitializeFails(c) ==
  /\ command[c].at = "init" /\ ~up
  /\ Return(c)
  /\ UNCHANGED <<hub, slot, session, dog, reading>>

InitializeClient(c, s) ==
  /\ command[c].at = "init" /\ FreshSession(s)
  /\ Initialize(s)
  /\ session' = [session EXCEPT ![command[c].client] = s]
  /\ Goto(c, "register")
  /\ UNCHANGED <<slot, dog, reading>>

\* bridge_register; that it failed is logged.
Register(c) ==
  LET k == command[c].client IN
  /\ command[c].at = "register"
  /\ IF up /\ session[k] \in known THEN ToolCall(session[k]) ELSE UNCHANGED hub
  /\ IF up /\ session[k] \notin known THEN Forget(k) ELSE UNCHANGED session
  /\ Goto(c, "publish")
  /\ UNCHANGED <<slot, dog, reading>>

\* The client is put in the slot and its watchdog starts.  A command of the
\* frontend goes on with whatever the slot holds by then.
Publish(c) ==
  LET k == command[c].client IN
  /\ command[c].at = "publish"
  /\ slot' = k
  /\ dog' = [dog EXCEPT ![k] = "check"]
  /\ Return(c)
  /\ UNCHANGED <<hub, session, reading>>

-----------------------------------------------------------------------------
(* tools_call_checked.                                                     *)

\* The hub answers at once, or later: that is a bridge_wait.  Without a session
\* the tool reports an error, which is not one of the connection.
Post(c) ==
  LET s == session[command[c].client] IN
  /\ command[c].at = "post"
  /\ Goto(c, CASE ~up -> "lost" [] up /\ s \in known \cup {None} -> "wait" [] OTHER -> "gone")
  /\ IF up /\ s \in known THEN ToolCall(s) ELSE UNCHANGED hub
  /\ UNCHANGED <<slot, session, dog, reading>>

Answer(c) ==
  /\ up /\ command[c].at = "wait"
  /\ Return(c)
  /\ UNCHANGED <<hub, slot, session, dog, reading>>

\* The connection of a call breaks, or 45 seconds are over.
CallBreaks(c) ==
  /\ command[c].at = "wait"
  /\ Goto(c, "lost")
  /\ UNCHANGED <<hub, slot, session, dog, reading>>

\* 404: the client forgets its session and the slot its client.
SessionGone(c) ==
  /\ command[c].at = "gone"
  /\ Forget(command[c].client)
  /\ slot' = None
  /\ Return(c)
  /\ UNCHANGED <<hub, dog, reading>>

\* The connection is lost: the slot is emptied, whoever is in it by now.
Lost(c) ==
  /\ command[c].at = "lost"
  /\ slot' = None
  /\ Return(c)
  /\ UNCHANGED <<hub, session, dog, reading>>

\* hub_stop and hub_restart empty the slot, whatever the calls under way do.
Cleared ==
  /\ slot # None
  /\ slot' = None
  /\ UNCHANGED <<hub, session, command, dog, reading>>

-----------------------------------------------------------------------------
(* The watchdog.                                                           *)

\* It ends when another client is in use.
DogChecks(k) ==
  /\ dog[k] = "check"
  /\ dog' = [dog EXCEPT ![k] = IF slot = k THEN "get" ELSE "none"]
  /\ UNCHANGED <<hub, slot, session, command, reading>>

\* The GET fails; a 404 makes the client forget its session.
Refused(k) ==
  /\ dog[k] = "get" /\ (~up \/ session[k] \notin known \cup {None})
  /\ dog' = [dog EXCEPT ![k] = "check"]
  /\ IF up THEN Forget(k) ELSE UNCHANGED session
  /\ UNCHANGED <<hub, slot, command, reading>>

\* The GET succeeds.  One without a session gets a new one, and the client
\* adopts it.
Subscribe(k, s, n) ==
  /\ dog[k] = "get"
  /\ \/ session[k] \in known /\ s = session[k]
     \/ session[k] = None /\ FreshSession(s)
  /\ \A l \in McpClients : reading[l] # n
  /\ OpenStream(s, n)
  /\ session' = [session EXCEPT ![k] = s]
  /\ dog' = [dog EXCEPT ![k] = "listen"]
  /\ reading' = [reading EXCEPT ![k] = n]
  /\ UNCHANGED <<slot, command>>

\* The response ended, or nothing came for 70 seconds: then the watchdog lets
\* go of a response that the hub still holds open.
StreamEnds(k) ==
  /\ dog[k] = "listen"
  /\ dog' = [dog EXCEPT ![k] = "check"]
  /\ reading' = [reading EXCEPT ![k] = None]
  /\ UNCHANGED <<hub, slot, session, command>>

-----------------------------------------------------------------------------

\* The hub learns late that nobody reads a response any more, or early that
\* the connection of a reader broke.
ConnectionCloses(n) == StreamCloses(n) /\ UNCHANGED app

\* The calls that the hub has not answered are lost with it.
Stops ==
  /\ HubStops
  /\ command' = [c \in Commands |->
       IF command[c].at = "wait" THEN [command[c] EXCEPT !.at = "lost"] ELSE command[c]]
  /\ UNCHANGED <<slot, session, dog, reading>>

HubSteps ==
  /\ \/ \E s \in SessionIds : Sweep(s) \/ WriteFails(s)
     \/ \E isNamed \in BOOLEAN : IdleGc(isNamed)
     \/ Push \/ HubStarts
  /\ UNCHANGED app

CommandSteps(c) ==
  \/ Begin(c) \/ InitializeFails(c) \/ Register(c) \/ Publish(c)
  \/ Post(c) \/ Answer(c) \/ SessionGone(c) \/ Lost(c)
  \/ \E s \in SessionIds : InitializeClient(c, s)

DogSteps(k) ==
  \/ DogChecks(k) \/ Refused(k)
  \/ \E s \in SessionIds, n \in Conns : Subscribe(k, s, n)

StreamBroken(k) == reading[k] # None /\ opened[reading[k]] = None /\ StreamEnds(k)

Next ==
  \/ HubSteps \/ Stops \/ Cleared
  \/ \E n \in Conns : ConnectionCloses(n)
  \/ \E c \in Commands : CommandSteps(c) \/ CallBreaks(c)
  \/ \E k \in McpClients : DogSteps(k) \/ StreamEnds(k)

Spec == Init /\ [][Next]_vars

\* What nobody uses any more is given up in the end: a response that is not
\* read, a session that no client remembers, and the stream of a client that is
\* no longer in the slot (no connection lasts for ever, and the model has no
\* client to spare).
Unread(n)    == (\A k \in McpClients : reading[k] # n) /\ ConnectionCloses(n)
Leaked(k)    == slot # k /\ StreamEnds(k)
Forgotten(s) == s \notin Remembered /\ Sweep(s) /\ UNCHANGED app

-----------------------------------------------------------------------------
(* Properties.                                                             *)

\* The types, of the hub and the app; a watchdog reads a response exactly while
\* it listens, and nobody else reads that response.
TypeOK ==
  /\ HubTypeOK
  /\ slot \in McpClients \cup {None}
  /\ session \in [McpClients -> SessionIds \cup {None}]
  /\ command \in [Commands -> [at : {"idle", "init", "register", "publish", "post", "wait", "gone", "lost"},
                               client : McpClients \cup {None}]]
  /\ dog \in [McpClients -> {"none", "check", "get", "listen"}]
  /\ reading \in [McpClients -> Conns \cup {None}]
  /\ \A k \in McpClients : (reading[k] # None) = (dog[k] = "listen")
  /\ \A k, l \in McpClients : reading[k] # None /\ reading[k] = reading[l] => k = l

\* Whatever the hub has forgotten and whichever answers come late: once the hub
\* stays up, and no session is swept that a client still remembers, the app comes
\* back, again and again, to a client with a session that the hub knows.
Connected == slot # None /\ session[slot] \in known
KeepsRemembered == known \cap Remembered \subseteq known'
Recovers == (<>[]up /\ <>[][KeepsRemembered]_vars) => []<>Connected

=============================================================================
