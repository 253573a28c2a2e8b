------------------------------ MODULE HubBooks ------------------------------
(***************************************************************************)
(* Five parts around the mailboxes that share no state, side by side: each *)
(* behaviour is one of the terminals, of one task's record, of the token   *)
(* table, of the set-up of the agents' configs, or of the directory of     *)
(* peers.                                                                  *)
(***************************************************************************)
EXTENDS Terminals, TaskRecords, Tokens, Setup, Directory

VARIABLE part   \* the part the behaviour is one of

\* The parts that stand still start in one state each, but for the configs.
Init ==
  /\ part \in {"terminals", "record", "tokens", "setup", "directory"}
  /\ TerminalInit /\ RecordInit /\ TokensInit /\ SetupInit /\ DirectoryInit
  /\ part # "record" => /\ presence = [x \in Peers |-> "registered"] /\ copies = Peers
                        /\ record.rows[1].peer = CHOOSE p \in Peers : TRUE
  /\ IF part = "setup"
     THEN \E f \in Files : {g \in Files : config[g].there} = {f}
     ELSE \A f \in Files : ~config[f].there

Next ==
  \/ /\ part = "terminals" /\ TerminalNext
     /\ UNCHANGED <<part, records, tokens, setup, directory>>
  \/ /\ part = "record" /\ RecordNext
     /\ UNCHANGED <<part, terminals, tokens, setup, directory>>
  \/ /\ part = "tokens" /\ TokensNext
     /\ UNCHANGED <<part, terminals, records, setup, directory>>
  \/ /\ part = "setup" /\ SetupNext
     /\ UNCHANGED <<part, terminals, records, tokens, directory>>
  \/ /\ part = "directory" /\ DirectoryNext
     /\ UNCHANGED <<part, terminals, records, tokens, setup>>

\* Where they are not the part, nothing of the terminals and of the token table
\* is enabled that has to be fair.
Spec ==
  /\ Init /\ [][Next]_<<part, terminals, records, tokens, setup, directory>>
  /\ TerminalFairness /\ TokensFairness

\* The types of the five.
TypeOK ==
  /\ TerminalTypeOK /\ RecordTypeOK /\ TokensTypeOK /\ SetupTypeOK
  /\ DirectoryTypeOK
=============================================================================
