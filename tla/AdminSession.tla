---------------------------- MODULE AdminSession ----------------------------
(***************************************************************************)
(* The MCP session of the admin page: the McpClient of admin/src/lib/mcp.ts *)
(* and the refresh of admin/src/App.tsx that makes its calls at once, every *)
(* five seconds, whether or not the last ones have been answered.          *)
(*                                                                         *)
(* The hub's end is POST /mcp of src/src/mcp-server.ts: a session it does  *)
(* not know is answered 404, initialize makes one where none is presented, *)
(* and a tool called without one has no peer.  There is one endpoint and   *)
(* one token, so one client; names of tools and results are left out.      *)
(***************************************************************************)
EXTENDS Naturals, FiniteSets

CONSTANTS
  Sids,        \* bound: session ids that are in use at the same time
  PageCalls,   \* bound: calls under way at the same time, of all refreshes
  MaxLosses,   \* bound: times the hub forgets sessions the page may be using
  NoSid

ASSUME AdminSessionAssumption ==
  /\ NoSid \notin Sids /\ MaxLosses \in Nat
  /\ IsFiniteSet(Sids) /\ IsFiniteSet(PageCalls)

VARIABLES
  sid, ready,   \* McpClient.sid and .ready
  known,        \* the sessions of this client the hub knows
  asked,        \* of each call: the request it waits for
  losses        \* history: times the hub forgot sessions

session == <<sid, ready, known, asked, losses>>

Maybe == Sids \cup {NoSid}

\* A call at rest; one whose request of a kind travels to the hub with a session
\* id; one whose answer, and the session id in its header, travels back.
Rest == [kind |-> "none", answer |-> "none", id |-> NoSid]
Request(kind, id) == [kind |-> kind, answer |-> "none", id |-> id]
Reply(kind, answer, id) == [kind |-> kind, answer |-> answer, id |-> id]

SessionInit ==
  /\ sid = NoSid /\ ready = FALSE /\ known = {} /\ losses = 0
  /\ asked = [k \in PageCalls |-> Rest]

Unused(s) == s \notin known \cup {sid} \cup {asked[k].id : k \in PageCalls}

-----------------------------------------------------------------------------
(* The page.                                                               *)

\* refresh: its calls, K, start before any of them is answered, so that all find
\* the client as it is.  One that is not ready initializes.
RefreshPage(K) ==
  /\ K # {} /\ \A k \in K : asked[k] = Rest
  /\ asked' = [k \in PageCalls |-> IF k \in K
                               THEN Request(IF ready THEN "call" ELSE "initialize", sid)
                               ELSE asked[k]]
  /\ UNCHANGED <<sid, ready, known, losses>>

\* rpc: the session is gone.  The client forgets it, and the call fails.
Gone(k) ==
  /\ asked[k].answer = "gone" /\ asked[k].kind # "initialized"
  /\ sid' = NoSid /\ ready' = FALSE
  /\ asked' = [asked EXCEPT ![k] = Rest]
  /\ UNCHANGED <<known, losses>>

\* Mutant: the client is ready before it has been told of its session.
ReadyTooSoon(k) ==
  /\ asked[k].kind = "initialize" /\ asked[k].answer = "ok"
  /\ asked' = [asked EXCEPT ![k] = Request("initialized", sid)]
  /\ ready' = TRUE
  /\ UNCHANGED <<sid, known, losses>>

\* connect: initialize was answered, and is followed by the notification.
Initialized(k) ==
  /\ asked[k].kind = "initialize" /\ asked[k].answer = "ok"
  /\ sid' = asked[k].id
  /\ asked' = [asked EXCEPT ![k] = Request("initialized", asked[k].id)]
  /\ UNCHANGED <<ready, known, losses>>

\* connect, call: whatever the notification was answered, the client is ready,
\* and the tool is called in the session it has by now.
Connected(k) ==
  /\ asked[k].kind = "initialized" /\ asked[k].answer # "none"
  /\ ready' = TRUE
  /\ asked' = [asked EXCEPT ![k] = Request("call", sid)]
  /\ UNCHANGED <<sid, known, losses>>

\* call: the result of the tool, or its error.
Returned(k) ==
  /\ asked[k].kind = "call" /\ asked[k].answer \in {"ok", "refused"}
  /\ asked' = [asked EXCEPT ![k] = Rest]
  /\ UNCHANGED <<sid, ready, known, losses>>

-----------------------------------------------------------------------------
(* The hub and the network.                                                *)

\* handlePost and dispatch.  A notification is answered 202.
Handled(k) ==
  LET kind == asked[k].kind
      id   == asked[k].id
  IN /\ kind # "none" /\ asked[k].answer = "none"
     /\ \/ /\ id # NoSid /\ id \notin known
           /\ asked' = [asked EXCEPT ![k] = Reply(kind, "gone", id)]
           /\ UNCHANGED known
        \/ /\ id \in known
           /\ asked' = [asked EXCEPT ![k] = Reply(kind, "ok", id)]
           /\ UNCHANGED known
        \/ /\ id = NoSid /\ kind = "call"
           /\ asked' = [asked EXCEPT ![k] = Reply(kind, "refused", id)]
           /\ UNCHANGED known
        \/ /\ id = NoSid /\ kind = "initialize"
           /\ \E s \in Sids : Unused(s)
           /\ LET s == CHOOSE x \in Sids : Unused(x)
              IN /\ known' = known \cup {s}
                 /\ asked' = [asked EXCEPT ![k] = Reply(kind, "ok", s)]
     /\ UNCHANGED <<sid, ready, losses>>

\* A request or its answer is lost: the call fails and leaves the client as it is.
Lost(k) ==
  /\ asked[k].kind # "none"
  /\ asked' = [asked EXCEPT ![k] = Rest]
  /\ UNCHANGED <<sid, ready, known, losses>>

\* The hub is restarted, or sweeps sessions that have been idle while the page
\* was suspended.
Forgets(S) ==
  /\ losses < MaxLosses /\ S # {}
  /\ known' = known \ S
  /\ losses' = losses + 1
  /\ UNCHANGED <<sid, ready, asked>>

\* sweepSessions, of a session nobody uses any more.
Sweep(s) ==
  /\ s \in known /\ s # sid /\ \A k \in PageCalls : asked[k].id # s
  /\ known' = known \ {s}
  /\ UNCHANGED <<sid, ready, asked, losses>>

-----------------------------------------------------------------------------

Answered(k) == Gone(k) \/ Initialized(k) \/ Connected(k) \/ Returned(k)

SessionNext ==
  \/ \E K \in SUBSET PageCalls : RefreshPage(K)
  \/ \E k \in PageCalls : Answered(k) \/ Handled(k) \/ Lost(k)
  \/ \E S \in SUBSET known : Forgets(S)
  \/ \E s \in Sids : Sweep(s)

-----------------------------------------------------------------------------
(* Properties.                                                             *)

\* The types; a call waits for an answer, or has one that fits its request, and
\* the notification is sent in the session initialize was answered with.
SessionTypeOK ==
  /\ sid \in Maybe /\ ready \in BOOLEAN /\ known \subseteq Sids /\ losses \in 0..MaxLosses
  /\ asked \in [PageCalls -> [kind   : {"none", "initialize", "initialized", "call"},
                              answer : {"none", "ok", "gone", "refused"},
                              id     : Maybe]]
  /\ \A k \in PageCalls :
        /\ asked[k].kind = "none" => asked[k] = Rest
        /\ asked[k].answer = "refused" => asked[k].kind = "call"
        /\ asked[k].kind = "initialized" => asked[k].id # NoSid

\* While the hub forgets no session the page may be using, all calls of all
\* refreshes are answered from a live session, however they overlap: no call is
\* refused or told that its session is gone, and a client that is ready holds a
\* session the hub knows.
StaysConnected ==
  losses = 0 =>
    /\ \A k \in PageCalls : asked[k].answer \notin {"gone", "refused"}
    /\ ready => sid \in known
=============================================================================
