------------------------------- MODULE Tokens -------------------------------
(***************************************************************************)
(* The token table of a hub in remote mode (src/src/auth.ts): the file,    *)
(* which `agent-comm-hub auth`, the admin page and editors write, and the  *)
(* table the running hub made of it (watchTokenFile, polled).              *)
(*                                                                         *)
(* A table is a set of rows.  A missing file counts as an empty one, as it *)
(* does for readTokens and for loadTokenFile.  Roles, owners and the       *)
(* requests that look a token up are left out.  No two writes give the     *)
(* file the same mtime, and a token that is made up is a new one.          *)
(***************************************************************************)
EXTENDS Naturals, FiniteSets

CONSTANTS
  Members,    \* peers that may have a token
  Operators,  \* processes of `agent-comm-hub auth`
  Admin,      \* the calls of the admin page, which the hub itself executes
  MaxWrites   \* bound: writes of the file

ASSUME TokensAssumption == MaxWrites \in Nat

Writers == Operators \cup {Admin}
Row     == [peer : Members, token : Writers \X (1..MaxWrites)]

\* What is in the file: rows, which are valid unless an editor left it otherwise.
Content(valid, rows) == [valid |-> valid, rows |-> rows]
\* A token for each peer, a peer for each token.
IsTable(rows) ==
  /\ rows \subseteq Row
  /\ \A r, s \in rows : r.peer = s.peer \/ r.token = s.token => r = s

VARIABLES
  tokenFile,   \* the content of the file
  mtime,       \* its modification time: the number of the last write
  temporary,   \* the content of `<file>.tmp`; no rows and not valid: no file
  editing,     \* what each writer does
  table,       \* the rows the running hub knows
  looked,      \* the mtime the hub has seen last
  hubAt,       \* "down", "loaded", or "up" with the timer running
  overlooked   \* history: an mtime that was there before the hub looked at all

tokens == <<tokenFile, mtime, temporary, editing, table, looked, hubAt, overlooked>>

Nothing == Content(FALSE, {})
Idle    == [at |-> "idle", rows |-> {}]

TokensInit ==
  /\ tokenFile = Content(TRUE, {}) /\ mtime = 0
  /\ temporary = Nothing
  /\ editing = [w \in Writers |-> Idle]
  /\ table = {} /\ looked = 0 /\ hubAt = "down" /\ overlooked = 0

-----------------------------------------------------------------------------
(* The hub.                                                                *)

\* loadTokenFile throws otherwise: a table has at least one token.
Loadable == tokenFile.valid /\ tokenFile.rows # {}

\* watchTokenFile reads the table first and the time of the file then.
HubStart ==
  /\ hubAt = "down" /\ Loadable
  /\ hubAt' = "loaded" /\ table' = tokenFile.rows /\ looked' = mtime
  /\ UNCHANGED <<tokenFile, mtime, temporary, editing, overlooked>>

FirstLook ==
  /\ hubAt = "loaded"
  /\ hubAt' = "up" /\ looked' = mtime
  /\ overlooked' = IF mtime # looked THEN mtime ELSE 0
  /\ UNCHANGED <<tokenFile, mtime, temporary, editing, table>>

\* Mutant: what the file says is added to the table.
ReloadAdds == table' = IF Loadable THEN table \cup tokenFile.rows ELSE table

\* reload: a file that does not load leaves the table as it is.
Reload == table' = IF Loadable THEN tokenFile.rows ELSE table

\* The time counts as seen whether the file loads or not.
PollFile ==
  /\ hubAt = "up" /\ editing[Admin].at = "idle" /\ looked # mtime
  /\ looked' = mtime
  /\ Reload
  /\ UNCHANGED <<tokenFile, mtime, temporary, editing, hubAt, overlooked>>

HubStop ==
  /\ hubAt = "up" /\ editing[Admin].at = "idle"
  /\ hubAt' = "down"
  /\ UNCHANGED <<tokenFile, mtime, temporary, editing, table, looked, overlooked>>

-----------------------------------------------------------------------------
(* addToken and removeToken, by the command line or the admin page.        *)

Step(w, at, rows) == editing' = [editing EXCEPT ![w] = [at |-> at, rows |-> rows]]

\* A file that is not valid is not edited.
Reads(w) ==
  /\ editing[w].at = "idle" /\ (w = Admin => hubAt = "up")
  /\ tokenFile.valid /\ mtime < MaxWrites

\* Between two writes of the file a writer makes up one token.
AddToken(w, m) ==
  /\ Reads(w)
  /\ \A r \in tokenFile.rows : r.peer # m
  /\ Step(w, "write", tokenFile.rows \cup {[peer |-> m, token |-> <<w, mtime + 1>>]})
  /\ UNCHANGED <<tokenFile, mtime, temporary, table, looked, hubAt, overlooked>>

RemoveToken(w, m) ==
  /\ Reads(w)
  /\ \E r \in tokenFile.rows : r.peer = m
  /\ Step(w, "write", {r \in tokenFile.rows : r.peer # m})
  /\ UNCHANGED <<tokenFile, mtime, temporary, table, looked, hubAt, overlooked>>

\* writeTokenFile: the temporary file has one name for all writers.
WriteTemporary(w) ==
  /\ editing[w].at = "write"
  /\ temporary' = Content(TRUE, editing[w].rows)
  /\ Step(w, "rename", editing[w].rows)
  /\ UNCHANGED <<tokenFile, mtime, table, looked, hubAt, overlooked>>

\* renameSync: a writer whose temporary file another one has renamed fails.
\* The hub reloads at once what its admin page wrote.
RenameTemporary(w) ==
  /\ editing[w].at = "rename"
  /\ Step(w, "idle", {})
  /\ IF temporary = Nothing \/ mtime = MaxWrites
     THEN UNCHANGED <<tokenFile, mtime, temporary, table>>
     ELSE /\ tokenFile' = temporary /\ mtime' = mtime + 1
          /\ temporary' = Nothing
          /\ table' = IF w = Admin /\ temporary.rows # {} THEN temporary.rows ELSE table
  /\ UNCHANGED <<looked, hubAt, overlooked>>

\* An editor saves the file: some rows, valid or not.
HandEdit(valid, rows) ==
  /\ mtime < MaxWrites
  /\ rows \subseteq tokenFile.rows
  /\ tokenFile' = Content(valid, rows) /\ mtime' = mtime + 1
  /\ UNCHANGED <<temporary, editing, table, looked, hubAt, overlooked>>

-----------------------------------------------------------------------------

TokensNext ==
  \/ HubStart \/ FirstLook \/ PollFile \/ HubStop
  \/ \E w \in Writers, m \in Members : AddToken(w, m) \/ RemoveToken(w, m)
  \/ \E w \in Writers : WriteTemporary(w) \/ RenameTemporary(w)
  \/ \E valid \in BOOLEAN, rows \in SUBSET tokenFile.rows : HandEdit(valid, rows)

\* The timer of the hub runs, and what a process has begun it ends.
TokensFairness ==
  /\ WF_tokens(PollFile) /\ WF_tokens(FirstLook)
  /\ \A w \in Writers : WF_tokens(WriteTemporary(w)) /\ WF_tokens(RenameTemporary(w))

-----------------------------------------------------------------------------

\* No peer gets a second token, and no token a second peer, in the file, the
\* temporary file and the hub's table alike.
TokensTypeOK ==
  /\ tokenFile.valid \in BOOLEAN /\ IsTable(tokenFile.rows)
  /\ temporary.valid \in BOOLEAN /\ IsTable(temporary.rows)
  /\ mtime \in 0..MaxWrites /\ looked \in 0..mtime /\ overlooked \in 0..mtime
  /\ \A w \in Writers : editing[w].at \in {"idle", "write", "rename"}
                       /\ IsTable(editing[w].rows)
  /\ IsTable(table) /\ hubAt \in {"down", "loaded", "up"}

\* Once the file is left alone, a hub that runs comes to accept the tokens in
\* it and no others, if they are a table it accepts: src/src/index.ts:669,
\* whoever wrote them and whatever it had failed to load before.  The one
\* write it may miss for good is one between its first read and its first look.
TableFollowsTheFile ==
  <>[](hubAt = "up" /\ Loadable => table = tokenFile.rows \/ mtime = overlooked)

=============================================================================
