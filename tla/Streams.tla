------------------------------- MODULE Streams -------------------------------
(***************************************************************************)
(* The hub's end of the MCP transport: which sessions it knows, which SSE  *)
(* stream serves each of them, and which stream a push goes to.  The       *)
(* sessions and streams are in src/src/mcp-server.ts, the choice of the    *)
(* stream in src/src/index.ts, auto-registration in src/src/hub-tools.ts.  *)
(*                                                                         *)
(* The sessions are those of one program: initialize tells the hub its     *)
(* name, and a session that was never initialized has none, so it becomes  *)
(* another peer.  Identities beyond that are the subject of Sessions.      *)
(* The module is the hub's half of DesktopClient, which adds the program.  *)
(***************************************************************************)
EXTENDS Naturals, FiniteSets, SequencesExt, Lists

CONSTANTS
  SessionIds,  \* bound: session ids that are known or remembered at the same time
  Conns,       \* bound: responses to GETs that are open at the same time
  None

ASSUME StreamsAssumption == None \notin SessionIds \cup Conns

VARIABLES
  up,        \* the hub runs
  known,     \* SessionRegistry.sessions
  named,     \* clientNames: the sessions whose client has told its name
  bound,     \* peerBindings: the sessions bound to a peer, in the order of the map
  stream,    \* sseStreams: the response that serves each session, or None
  live,      \* liveStreams
  opened,    \* of each open response: its session; None when it is not open
  cursor,    \* streamCursor of the program's peer
  hits       \* history: pushes that each stream got since the streams changed

hub == <<up, known, named, bound, stream, live, opened, cursor, hits>>

HubInit ==
  /\ up = TRUE
  /\ known = {} /\ named = {} /\ bound = <<>>
  /\ stream = [s \in SessionIds |-> None]
  /\ live = {}
  /\ opened = [n \in Conns |-> None]
  /\ cursor = 0
  /\ hits = [s \in SessionIds |-> 0]

-----------------------------------------------------------------------------
(* Sessions.                                                               *)

\* sessionsForPeer of the program's peer, in the order of the bindings.
Attached == KeepIn(bound, named)

Streaming == Elements(Attached) \cap live

\* The count of pushes starts again when the streams of the peer change.
CountAgain == hits' = IF Streaming' = Streaming THEN hits ELSE [s \in SessionIds |-> 0]

\* autoRegisterPeer: the binding is kept once it is there.
Bound(s) == IF s \in Elements(bound) THEN bound ELSE Append(bound, s)

\* POST initialize without a session id: a new session, and it joins at once.
Initialize(s) ==
  /\ up /\ s \notin known
  /\ known' = known \cup {s}
  /\ named' = named \cup {s}
  /\ bound' = Append(bound, s)
  /\ UNCHANGED <<up, stream, live, opened, cursor, hits>>

\* POST tools/call of a known session: it is registered first.
ToolCall(s) ==
  /\ up /\ s \in known
  /\ bound' = Bound(s)
  /\ UNCHANGED <<up, known, named, stream, live, opened, cursor>>
  /\ CountAgain

\* The session reaper; the age of a session is a choice.
Sweep(s) ==
  /\ up /\ s \in known \ live
  /\ known' = known \ {s}
  /\ named' = named \ {s}
  /\ bound' = KeepIn(bound, SessionIds \ {s})
  /\ UNCHANGED <<up, stream, live, opened, cursor, hits>>

\* The idle GC takes away a peer, and with it the bindings of its sessions,
\* unless one of them has a stream.
IdleGc(isNamed) ==
  LET own == {s \in Elements(bound) : (s \in named) = isNamed} IN
  /\ up /\ own # {} /\ own \cap live = {}
  /\ bound' = KeepIn(bound, SessionIds \ own)
  /\ UNCHANGED <<up, known, named, stream, live, opened, cursor, hits>>

-----------------------------------------------------------------------------
(* Streams.                                                                *)

\* A GET with a known session, or with none: then s is new.  The response
\* replaces the one that served the session.
OpenStream(s, n) ==
  /\ up /\ opened[n] = None
  /\ known' = known \cup {s}
  /\ stream' = [stream EXCEPT ![s] = n]
  /\ live' = live \cup {s}
  /\ opened' = [opened EXCEPT ![n] = s]
  /\ UNCHANGED <<up, named, bound, cursor>>
  /\ CountAgain

\* Mutant: whichever response closes, its session counts as gone.
StreamClosesAll(n) ==
  LET s == opened[n] IN
  /\ up /\ s # None
  /\ opened' = [opened EXCEPT ![n] = None]
  /\ stream' = [stream EXCEPT ![s] = IF @ = n THEN None ELSE @]
  /\ live' = live \ {s}
  /\ UNCHANGED <<up, known, named, bound, cursor>>
  /\ CountAgain

\* The hub learns that a response is closed: it takes down what is still its own.
StreamCloses(n) ==
  LET s == opened[n] IN
  /\ up /\ s # None
  /\ opened' = [opened EXCEPT ![n] = None]
  /\ stream' = [stream EXCEPT ![s] = IF @ = n THEN None ELSE @]
  /\ live' = IF stream'[s] = None THEN live \ {s} ELSE live
  /\ UNCHANGED <<up, known, named, bound, cursor>>
  /\ CountAgain

\* notify: a write that fails takes the stream down; its response stays as it is.
WriteFails(s) ==
  /\ up /\ stream[s] # None
  /\ stream' = [stream EXCEPT ![s] = None]
  /\ live' = live \ {s}
  /\ UNCHANGED <<up, known, named, bound, opened, cursor>>
  /\ CountAgain

-----------------------------------------------------------------------------
(* Pushes.                                                                 *)

\* oneStreamPer: the sessions with a stream, or else all of them.
Pool(candidates) ==
  LET open == KeepIn(candidates, live)
  IN IF open # <<>> THEN open ELSE candidates

\* What each stream got, less what all of them got.
Shares(counts, among) ==
  IF among # {} /\ \A s \in among : counts[s] > 0
  THEN [s \in SessionIds |-> IF s \in among THEN counts[s] - 1 ELSE 0] ELSE counts

\* Mutant: the cursor stays where it is.
PushFirst ==
  LET pool == Pool(Attached) IN
  /\ up /\ pool # <<>>
  /\ LET s == pool[(cursor % Len(pool)) + 1] IN
       IF s \in live THEN hits' = Shares([hits EXCEPT ![s] = @ + 1], Streaming)
       ELSE UNCHANGED hits
  /\ UNCHANGED <<up, known, named, bound, stream, live, opened, cursor>>

\* pushQueued: a hint for the peer goes to one stream, in turns.
Push ==
  LET pool == Pool(Attached)
      at   == cursor % Len(pool) IN
  /\ up /\ pool # <<>>
  /\ cursor' = (at + 1) % Len(pool)
  /\ IF pool[at + 1] \in live
     THEN hits' = Shares([hits EXCEPT ![pool[at + 1]] = @ + 1], Streaming)
     ELSE UNCHANGED hits
  /\ UNCHANGED <<up, known, named, bound, stream, live, opened>>

-----------------------------------------------------------------------------
(* The process.                                                            *)

\* The hub ends, and with it every response and all the registry knows.
HubStops ==
  /\ up /\ up' = FALSE
  /\ known' = {} /\ named' = {} /\ bound' = <<>> /\ live' = {}
  /\ stream' = [s \in SessionIds |-> None]
  /\ opened' = [n \in Conns |-> None]
  /\ cursor' = 0
  /\ CountAgain

HubStarts ==
  /\ ~up /\ up' = TRUE
  /\ UNCHANGED <<known, named, bound, stream, live, opened, cursor, hits>>

-----------------------------------------------------------------------------
(* Properties.                                                             *)

\* The types, of the hub's part.
HubTypeOK ==
  /\ up \in BOOLEAN
  /\ known \subseteq SessionIds /\ named \subseteq known
  /\ bound \in Seq(known) /\ IsInjective(bound)
  /\ stream \in [SessionIds -> Conns \cup {None}]
  /\ live \subseteq SessionIds
  /\ opened \in [Conns -> SessionIds \cup {None}]
  /\ cursor \in Nat
  /\ hits \in [SessionIds -> 0..2]

\* The registry and the transport agree, whatever closes and however late: a
\* session counts as live exactly when an open response of its own serves it,
\* and no session that is served has been forgotten.
StreamsAgree ==
  /\ live = {s \in SessionIds : stream[s] # None}
  /\ \A s \in live : s \in known /\ opened[stream[s]] = s

\* Among the streams of a peer that stay open none gets a second push before
\* the others got one.
EveryStreamGetsItsShare == \A s \in Streaming : hits[s] <= 1

=============================================================================
