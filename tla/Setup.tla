-------------------------------- MODULE Setup -------------------------------
(***************************************************************************)
(* `agent-comm-hub setup` (src/src/setup.ts): one run puts the hub's entry *)
(* into the config files of the agents it finds, or takes it out, while    *)
(* the agents and their users write the same files.  A run may be          *)
(* interrupted at any of its steps, in the middle of a write as well.      *)
(*                                                                         *)
(* A file holds entries of the hub, of which only the url counts, and what *)
(* is its owner's: entries and comments.  Where they stand is left out,    *)
(* and so are the skills.  An agent has one config, which is there from    *)
(* the beginning or never; no two runs back a file up in the same second.  *)
(***************************************************************************)
EXTENDS Naturals, Sequences, SequencesExt

CONSTANTS
  JsonFiles,   \* the configs edited as JSON; the others are edited as text
  TomlFiles,   \* those with a section of TOML
  ListFiles,   \* those with a YAML list of servers
  PatchFiles,  \* the profile patches of DSH
  Urls,
  Entries,     \* the owners' own entries
  Comments

ASSUME SetupAssumption == Entries \cap Comments = {}

Files == JsonFiles \cup TomlFiles \cup ListFiles \cup PatchFiles
Items == Entries \cup Comments

VARIABLES
  config,   \* file -> what it holds
  backups,  \* file -> what is the owner's in its backups, taken together
  run,      \* what the run does: its options, the files to do, the edit it is at
  owned     \* history: file -> what its owner wrote and did not take out himself

setup == <<config, backups, run, owned>>

Missing == [there |-> FALSE, shaped |-> FALSE, ours |-> <<>>, others |-> {}]
NoRun   == [at |-> "idle", todo |-> {}, url |-> "none", file |-> "none", new |-> Missing]

\* The entries of the hub a file may hold: an older run may have left two of
\* them in a list, a key of JSON and a section exist once.
OursIn(f) == BoundedSeq(Urls, IF f \in JsonFiles \cup TomlFiles THEN 1 ELSE 2)

SetupInit ==
  /\ config \in [Files -> {Missing} \cup
                  [there : {TRUE}, shaped : {TRUE}, ours : {<<>>}, others : {{}}]]
  /\ backups = [f \in Files |-> {}]
  /\ run = NoRun
  /\ owned = [f \in Files |-> {}]

-----------------------------------------------------------------------------
(* The owner of a file.                                                    *)

\* He writes something of his own, or takes it out.
OwnerWrites(f, i) ==
  /\ config[f].there
  /\ f \in JsonFiles => i \in Entries
  /\ config' = [config EXCEPT ![f].others = @ \cup {i}]
  \* What he writes between the backup and the write is lost with no trace.
  /\ owned' = [owned EXCEPT ![f] =
       IF run.at = "write" /\ run.file = f THEN @ ELSE @ \cup {i}]
  /\ UNCHANGED <<backups, run>>

OwnerRemoves(f, i) ==
  /\ i \in config[f].others
  /\ config' = [config EXCEPT ![f].others = @ \ {i}]
  /\ owned' = [owned EXCEPT ![f] = @ \ {i}]
  /\ UNCHANGED <<backups, run>>

\* He edits the hub's entries, or the shape of the file.
OwnerEdits(f, shaped, ours) ==
  /\ config[f].there
  /\ config' = [config EXCEPT ![f].shaped = shaped, ![f].ours = ours]
  /\ UNCHANGED <<backups, run, owned>>

-----------------------------------------------------------------------------
(* A run.                                                                  *)

\* A config that is missing is skipped, never created.
Existing(S) == {f \in S : config[f].there}

\* discover: an agent is installed when its command, its package or its state
\* directory is there; a config alone is a leftover.
ConfigOnly(installed) == Existing(Files \ installed)

\* runSetup begins: with the agent it is told, found or not, or with those that
\* are installed, and, when forced, those whose config is a leftover.
Begin(only, installed, force, url) ==
  /\ run.at = "idle"
  /\ run' = [NoRun EXCEPT !.at = "files", !.url = url,
       !.todo = Existing(CASE only # {} -> only
                           [] only = {} /\ force -> installed \cup ConfigOnly(installed)
                           [] OTHER -> installed)]
  /\ UNCHANGED <<config, backups, owned>>

PassOver(f) == run' = [run EXCEPT !.todo = @ \ {f}]
Wanted == IF run.url = "none" THEN <<>> ELSE <<run.url>>

\* A file of a shape that is not understood and one that holds what is wanted
\* are left alone.
LeavesAlone(f) ==
  /\ run.at = "files" /\ f \in run.todo
  /\ \/ ~config[f].shaped /\ f \in JsonFiles \cup ListFiles
     \/ config[f].ours = Wanted
  /\ PassOver(f)
  /\ UNCHANGED <<config, backups, owned>>

\* The hub's entries are taken out, and the one that is wanted is put in.
Rewrites(f, swept) ==
  /\ run.at = "files" /\ f \in run.todo
  /\ swept \subseteq config[f].others
  /\ run' = [run EXCEPT !.at = "backup", !.file = f,
       !.new = [config[f] EXCEPT !.ours = Wanted, !.others = @ \ swept]]
  /\ UNCHANGED <<config, backups, owned>>

\* What stands where the section should be, and is not an object, is replaced.
MergeJsonServer(f, swept) ==
  /\ f \in JsonFiles /\ config[f].shaped
  /\ config[f].ours # Wanted
  /\ swept # {} => config[f].ours = <<>>
  /\ Rewrites(f, swept)

\* In a text, comments behind an entry of the hub go with it, and an entry with
\* the url that is wanted may still differ.
Rebuilds(f, swept) ==
  /\ config[f].ours # <<>> \/ Wanted # <<>>
  /\ swept # {} => config[f].ours # <<>> /\ swept \subseteq Comments
  /\ Rewrites(f, swept)

MergeTomlSection(f, swept)     == f \in TomlFiles /\ Rebuilds(f, swept)
MergeYamlArrayServer(f, swept) == f \in ListFiles /\ config[f].shaped /\ Rebuilds(f, swept)

\* Every top-level entry that mentions the hub's plugin counts as the hub's and goes,
\* the owner's own as well, with the comments behind it.
MergeDshPatch(f, swept) ==
  /\ f \in PatchFiles
  /\ config[f].ours # <<>> \/ Wanted # <<>> \/ swept # {}
  /\ swept # {} => config[f].ours # <<>> \/ swept \cap Entries # {}
  /\ Rewrites(f, swept)

\* Mutant: no backup is made.
BackupNothing ==
  /\ run.at = "backup"
  /\ run' = [run EXCEPT !.at = "write"]
  /\ UNCHANGED <<config, backups, owned>>

Backup ==
  /\ run.at = "backup"
  /\ backups' = [backups EXCEPT ![run.file] = @ \cup config[run.file].others]
  /\ run' = [run EXCEPT !.at = "write"]
  /\ UNCHANGED <<config, owned>>

WriteFile ==
  /\ run.at = "write"
  /\ config' = [config EXCEPT ![run.file] = run.new]
  /\ run' = [run EXCEPT !.at = "files", !.todo = @ \ {run.file}]
  /\ UNCHANGED <<backups, owned>>

\* The skills are copied beside the configs, and the run is over.
End ==
  /\ run.at = "files" /\ run.todo = {}
  /\ run' = NoRun
  /\ UNCHANGED <<config, backups, owned>>

Interrupted ==
  /\ run.at # "idle"
  /\ run' = NoRun
  /\ UNCHANGED <<config, backups, owned>>

\* The file is not written through a temporary one: part of it may be there.
TornWrite(shaped, rest) ==
  /\ run.at = "write"
  /\ rest \subseteq run.new.others
  /\ config' = [config EXCEPT ![run.file] =
       [run.new EXCEPT !.shaped = shaped, !.others = rest, !.ours = <<>>]]
  /\ run' = NoRun
  /\ UNCHANGED <<backups, owned>>

-----------------------------------------------------------------------------

SetupNext ==
  \/ \E f \in Files : \E i \in Items : OwnerWrites(f, i) \/ OwnerRemoves(f, i)
  \/ \E f \in Files : \E shaped \in BOOLEAN, ours \in OursIn(f) : OwnerEdits(f, shaped, ours)
  \/ \E only \in {{}} \cup {{f} : f \in Files}, installed \in SUBSET Files, force \in BOOLEAN,
        url \in Urls \cup {"none"} : Begin(only, installed, force, url)
  \/ \E f \in Files : LeavesAlone(f)
  \/ \E f \in Files, swept \in SUBSET Items :
        \/ MergeJsonServer(f, swept) \/ MergeTomlSection(f, swept)
        \/ MergeYamlArrayServer(f, swept) \/ MergeDshPatch(f, swept)
  \/ Backup \/ WriteFile \/ End \/ Interrupted
  \/ \E shaped \in BOOLEAN, rest \in SUBSET Items : TornWrite(shaped, rest)

-----------------------------------------------------------------------------

\* A missing file is not created, and JSON has no comments.
SetupTypeOK ==
  /\ \A f \in Files :
       /\ config[f].there \in BOOLEAN /\ config[f].shaped \in BOOLEAN
       /\ config[f].ours \in OursIn(f) /\ config[f].others \subseteq Items
       /\ ~config[f].there => config[f] = Missing
       /\ f \in JsonFiles => config[f].others \subseteq Entries
       /\ backups[f] \subseteq Items /\ owned[f] \subseteq Items
  /\ run.at \in {"idle", "files", "backup", "write"} /\ run.todo \subseteq Files

\* What the owner of a file wrote is in it or in one of its backups, whatever
\* was interrupted, swept away or written over: src/src/setup.ts:10.
OthersAreKept ==
  \A f \in Files : owned[f] \subseteq config[f].others \cup backups[f]

=============================================================================
