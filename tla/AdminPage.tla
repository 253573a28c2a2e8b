----------------------------- MODULE AdminPage -----------------------------
(***************************************************************************)
(* The token table on the admin page (admin/src/App.tsx), and the hub's    *)
(* /admin/api behind it (handleAdminApi of src/src/mcp-server.ts).         *)
(*                                                                         *)
(* The page lists the tokens at the end of every refresh, when the user    *)
(* reveals or masks them, and after it has issued or revoked one.  None of *)
(* these waits for another, so that answers may overtake each other.       *)
(*                                                                         *)
(* A token is known by its peer.  A refresh lists the tokens only after    *)
(* its calls through the page's MCP session have been answered: of that    *)
(* session there is here whether the hub knows it, and module AdminSession *)
(* has the calls.  How the file is written is left to module Tokens.       *)
(***************************************************************************)
EXTENDS Naturals, FiniteSets

CONSTANTS
  Members,       \* peers that may have a token
  Manager,       \* the one whose token the page presents
  MaxAnswers     \* bound: answers under way at the same time

ASSUME AdminPageAssumption ==
  Manager \in Members /\ IsFiniteSet(Members) /\ MaxAnswers \in Nat \ {0}

VARIABLES
  file,      \* the token file: its rows, and whether it is valid
  hubMode,   \* "down", "local" (without --auth-tokens) or "remote"
  accepted,  \* the rows the running hub goes by
  reveal,    \* the user wants to see the tokens (reveal, revealRef)
  asking,    \* of the listings at the hub: are the tokens to be clear
  listings,  \* answers to listings, on their way to the page
  changing,  \* peer -> what the page asked for it, or was answered
  client,    \* the page's MCP client: "ready", "stale" (the hub does not know
             \* its session, if it has one) or "wedged" (ready without a session)
  shown,     \* tokens: the rows on the page, and whether they are clear
  tokenApi   \* what the page thinks of /admin/api

hubSide == <<file, hubMode, accepted>>
page == <<hubSide, client, reveal, asking, listings, changing, shown, tokenApi>>

Table(peers, clear) == [peers |-> peers, clear |-> clear]
Empty == Table({}, FALSE)

\* An answer: the status of the page's API after it, and the table.
Listing(status, t) == [status |-> status, table |-> t]
Listings == {Listing("err", Empty), Listing("off", Empty)}
             \cup {Listing("ok", Table(peers, clear)) : peers \in SUBSET Members, clear \in BOOLEAN}

PageInit ==
  /\ \E peers \in SUBSET Members : file = [valid |-> TRUE, peers |-> peers]
  /\ hubMode = "down" /\ accepted = {}
  /\ client = "stale" /\ reveal = FALSE /\ asking = {} /\ listings = {}
  /\ changing = [m \in Members |-> "no"]
  /\ shown = Empty /\ tokenApi = "unknown"

Loadable == file.valid /\ file.peers # {}

\* The hub answers the page's calls: in local mode the page is a manager.
Serves == hubMode = "local" \/ (hubMode = "remote" /\ Manager \in accepted)

\* The sessions of a hub that is down are gone.
Orphaned(c) == IF c = "ready" THEN "stale" ELSE c

-----------------------------------------------------------------------------
(* The hub.                                                                *)

HubComesUp(mode) ==
  /\ hubMode = "down" /\ (mode = "remote" => Loadable)
  /\ hubMode' = mode
  /\ accepted' = IF mode = "remote" THEN file.peers ELSE {}
  /\ UNCHANGED <<file, client, reveal, asking, listings, changing, shown, tokenApi>>

HubGoesDown ==
  /\ hubMode # "down" /\ hubMode' = "down" /\ accepted' = {}
  /\ client' = Orphaned(client)
  /\ UNCHANGED <<file, reveal, asking, listings, changing, shown, tokenApi>>

\* An operator or an editor writes the file.
FileChanges ==
  /\ \E valid \in BOOLEAN, peers \in SUBSET Members :
        file' = [valid |-> valid, peers |-> peers] /\ file' # file
  /\ UNCHANGED <<hubMode, accepted, client, reveal, asking, listings, changing, shown, tokenApi>>

\* The table is read again; one that cannot be loaded changes nothing.
HubReloads ==
  /\ hubMode = "remote" /\ Loadable
  /\ accepted' = file.peers
  /\ UNCHANGED <<file, hubMode, client, reveal, asking, listings, changing, shown, tokenApi>>

\* tokens: the rows of the file, as they are or masked.  A request that finds no
\* hub, or is not a manager's, fails; readTokens throws if the file is not valid,
\* and nobody catches what handleAdminApi throws: the process ends.
HubLists(clear) ==
  /\ clear \in asking /\ Cardinality(listings) < MaxAnswers
  /\ asking' = asking \ {clear}
  /\ \/ /\ hubMode = "down" \/ (hubMode = "remote" /\ Manager \notin accepted)
        /\ listings' = listings \cup {Listing("err", Empty)}
        /\ UNCHANGED <<hubSide, client>>
     \/ /\ hubMode = "local"
        /\ listings' = listings \cup {Listing("off", Empty)}
        /\ UNCHANGED <<hubSide, client>>
     \/ /\ hubMode = "remote" /\ Manager \in accepted /\ file.valid
        /\ listings' = listings \cup {Listing("ok", Table(file.peers, clear))}
        /\ UNCHANGED <<hubSide, client>>
     \/ /\ hubMode = "remote" /\ Manager \in accepted /\ ~file.valid
        /\ listings' = listings \cup {Listing("err", Empty)}
        /\ hubMode' = "down" /\ accepted' = {} /\ client' = Orphaned(client)
        /\ UNCHANGED file
  /\ UNCHANGED <<reveal, changing, shown, tokenApi>>

\* tokens/add: what addToken throws is answered.
HubAdds(m) ==
  /\ changing[m] = "add"
  /\ IF hubMode = "remote" /\ Manager \in accepted /\ file.valid /\ m \notin file.peers
     THEN /\ file' = [file EXCEPT !.peers = @ \cup {m}]
          /\ accepted' = file.peers \cup {m}
          /\ changing' = [changing EXCEPT ![m] = "done"]
     ELSE /\ changing' = [changing EXCEPT ![m] = "no"]
          /\ UNCHANGED <<file, accepted>>
  /\ UNCHANGED <<hubMode, client, reveal, asking, listings, shown, tokenApi>>

\* tokens/remove: the hub goes on with the table it has when the last token goes,
\* and what removeToken throws ends the process.
HubRemoves(m) ==
  LET mayChange == hubMode = "remote" /\ Manager \in accepted
      left      == file.peers \ {m}
  IN /\ changing[m] = "remove"
     /\ file' = IF mayChange /\ file.valid THEN [file EXCEPT !.peers = left] ELSE file
     /\ hubMode' = IF mayChange /\ ~file.valid THEN "down" ELSE hubMode
     /\ client' = IF mayChange /\ ~file.valid THEN Orphaned(client) ELSE client
     /\ accepted' = IF mayChange /\ ~file.valid THEN {}
                    ELSE IF mayChange /\ m \in file.peers /\ left # {} THEN left
                    ELSE accepted
     /\ changing' = [changing EXCEPT ![m] = IF mayChange /\ file.valid THEN "done" ELSE "no"]
     /\ UNCHANGED <<reveal, asking, listings, shown, tokenApi>>

-----------------------------------------------------------------------------
(* The page.                                                               *)

\* The computer sleeps until the hub has forgotten the session of the page.
PageSleeps ==
  /\ client = "ready" /\ client' = "stale"
  /\ UNCHANGED <<hubSide, reveal, asking, listings, changing, shown, tokenApi>>

\* refresh, where the session is not known: the calls are answered 404 and
\* forget it, and one of the next refreshes initializes another.  If such an
\* answer arrives in the middle of that, the client is ready without a session
\* from then on, and every refresh fails.
Reconnects ==
  /\ client = "stale" /\ Serves
  /\ client' \in {"ready", "wedged"}
  /\ UNCHANGED <<hubSide, reveal, asking, listings, changing, shown, tokenApi>>

\* Mutant: the refresh of the interval lists with the reveal it was made with.
PollMasked ==
  /\ client = "ready" /\ Serves
  /\ asking' = asking \cup {FALSE}
  /\ UNCHANGED <<hubSide, client, reveal, listings, changing, shown, tokenApi>>

\* refresh, once all of its calls are answered: loadTokens(revealRef.current).
PollPage ==
  /\ client = "ready" /\ Serves
  /\ asking' = asking \cup {reveal}
  /\ UNCHANGED <<hubSide, client, reveal, listings, changing, shown, tokenApi>>

\* toggleReveal.
Toggle ==
  /\ reveal' = ~reveal
  /\ asking' = asking \cup {~reveal}
  /\ UNCHANGED <<hubSide, client, listings, changing, shown, tokenApi>>

\* issueToken, one at a time; revokeToken, of a peer that is shown.
Issue(m) ==
  /\ \A n \in Members : changing[n] # "add"
  /\ changing[m] = "no"
  /\ changing' = [changing EXCEPT ![m] = "add"]
  /\ UNCHANGED <<hubSide, client, reveal, asking, listings, shown, tokenApi>>

Revoke(m) ==
  /\ m \in shown.peers /\ changing[m] = "no"
  /\ changing' = [changing EXCEPT ![m] = "remove"]
  /\ UNCHANGED <<hubSide, client, reveal, asking, listings, shown, tokenApi>>

\* A change that succeeded is followed by a listing.
Changed(m) ==
  /\ changing[m] = "done"
  /\ changing' = [changing EXCEPT ![m] = "no"]
  /\ asking' = asking \cup {reveal}
  /\ UNCHANGED <<hubSide, client, reveal, listings, shown, tokenApi>>

\* loadTokens: of a listing that failed only the status is shown, but where there
\* is no API there are no rows.
Loaded(a) ==
  /\ a \in listings
  /\ listings' = listings \ {a}
  /\ tokenApi' = a.status
  /\ shown' = IF a.status = "err" THEN shown ELSE a.table
  /\ UNCHANGED <<hubSide, client, reveal, asking, changing>>

-----------------------------------------------------------------------------

\* What somebody does, at the hub or on the page.
SomebodyActs ==
  \/ HubGoesDown \/ FileChanges \/ PageSleeps \/ Toggle
  \/ \E mode \in {"local", "remote"} : HubComesUp(mode)
  \/ \E m \in Members : Issue(m) \/ Revoke(m)

PageNext ==
  \/ SomebodyActs
  \/ Reconnects \/ PollPage \/ HubReloads
  \/ \E clear \in BOOLEAN : HubLists(clear)
  \/ \E m \in Members : HubAdds(m) \/ HubRemoves(m) \/ Changed(m)
  \/ \E a \in Listings : Loaded(a)

-----------------------------------------------------------------------------
(* Properties.                                                             *)

\* The types; a hub that is down, or is local, goes by no table, and one that is
\* down has no sessions.
PageTypeOK ==
  /\ file \in [valid : BOOLEAN, peers : SUBSET Members]
  /\ hubMode \in {"down", "local", "remote"} /\ accepted \subseteq Members
  /\ hubMode # "remote" => accepted = {}
  /\ client \in {"ready", "stale", "wedged"} /\ (client = "ready" => hubMode # "down")
  /\ reveal \in BOOLEAN /\ asking \subseteq BOOLEAN /\ listings \subseteq Listings
  /\ changing \in [Members -> {"no", "add", "remove", "done"}]
  /\ shown \in [peers : SUBSET Members, clear : BOOLEAN]
  /\ tokenApi \in {"unknown", "ok", "off", "err"}

\* Once nobody stirs, the page comes to show the token table of the hub, clear or
\* masked as the user wants it, for as long as its own token is accepted: an
\* answer that was overtaken does not stay.  A page whose client is wedged does not
\* list anything by itself any more, and nothing is said of it.
TableShowsTheHub ==
  <>[][~SomebodyActs]_page =>
    <>[](client # "wedged" =>
           /\ hubMode = "remote" /\ Manager \in accepted
                => tokenApi = "ok" /\ shown = Table(file.peers, reveal)
           /\ hubMode = "local" => tokenApi = "off" /\ shown.peers = {})
=============================================================================
