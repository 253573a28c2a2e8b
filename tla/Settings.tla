------------------------------ MODULE Settings ------------------------------
(***************************************************************************)
(* The hub settings of the desktop app: the settings panel                 *)
(* (app/src/views/SettingsView.tsx), the config table of the app's store,  *)
(* and the HubConfig in memory, which hubs are launched with               *)
(* (app/src-tauri/src: commands.rs, sqlite_store.rs, hub_process.rs).      *)
(*                                                                         *)
(* The settings are some keys with values.  A row that is missing, is      *)
(* empty or cannot be parsed has no value, and its key keeps the default.  *)
(* How a restart goes is left to module HubProcess: here it is over at     *)
(* some time.                                                              *)
(***************************************************************************)
EXTENDS FiniteSets

CONSTANTS
  Keys, Values,
  Default,    \* HubConfig::default(): a value of each key
  NoValue,
  Saves       \* bound: saves under way at the same time

ASSUME SettingsAssumption ==
  /\ Default \in [Keys -> Values] /\ NoValue \notin Values
  /\ Keys # {} /\ IsFiniteSet(Keys) /\ {"closed", "open"} \cap Saves = {}

Configs == [Keys -> Values]
Rows    == [Keys -> Values \cup {NoValue}]
NoRows  == [k \in Keys |-> NoValue]

VARIABLES
  saved,     \* the config table of the store
  config,    \* HubProcess.config
  form,      \* what the panel shows, where it is not closed
  panel,     \* "closed", "open", or the save it waits for
  save,      \* the saves under way
  unsure     \* history: a save failed half-way or overlapped another one, or a row
             \* could not be read, and no save has read all rows alone since

view == <<form, panel>>
settings == <<saved, view, config, save, unsure>>

\* apply_saved_config.
Overlay(base, found) == [k \in Keys |-> IF found[k] = NoValue THEN base[k] ELSE found[k]]
\* Its rows: one that cannot be read counts as one that is not there.
Found(rows, failed)  == [k \in Keys |-> IF k \in failed THEN NoValue ELSE rows[k]]

NoSave == [at |-> "idle", values |-> NoRows, left |-> {}, read |-> Default]

\* startup: the config is made of the rows.
SettingsInit ==
  /\ saved = NoRows
  /\ config = Default
  /\ form = Default /\ panel = "closed"
  /\ save = [s \in Saves |-> NoSave]
  /\ unsure = FALSE

-----------------------------------------------------------------------------
(* The panel.                                                              *)

\* config_get, when the tab is opened: the config in memory is shown.
OpenPanel ==
  /\ panel = "closed"
  /\ panel' = "open" /\ form' = config
  /\ UNCHANGED <<saved, config, save, unsure>>

\* Another tab: a save under way goes on.
ClosePanel ==
  /\ panel # "closed"
  /\ panel' = "closed" /\ form' = Default
  /\ UNCHANGED <<saved, config, save, unsure>>

Edit(k, v) ==
  /\ panel # "closed" /\ form[k] # v
  /\ form' = [form EXCEPT ![k] = v]
  /\ UNCHANGED <<saved, panel, config, save, unsure>>

Applying(s) == save[s].at \in {"write", "read", "set"}

\* handleSave; its button is disabled while this panel saves, but a panel that was
\* opened since does not know of the save.
Save(s) ==
  /\ panel = "open" /\ save[s].at = "idle"
  /\ panel' = s
  /\ save' = [save EXCEPT ![s] = [NoSave EXCEPT !.at = "write", !.values = form, !.left = Keys]]
  /\ unsure' = (unsure \/ \E u \in Saves : Applying(u))
  /\ UNCHANGED <<saved, form, config>>

\* The panel that waits for it, if it is still there, is told.
Over(s) ==
  /\ save' = [save EXCEPT ![s] = NoSave]
  /\ panel' = IF panel = s THEN "open" ELSE panel
  /\ UNCHANGED form

-----------------------------------------------------------------------------
(* config_set, and hub_restart_with_saved_config after it.                 *)

WriteRow(s, k) ==
  /\ save[s].at = "write" /\ k \in save[s].left
  /\ saved' = [saved EXCEPT ![k] = save[s].values[k]]
  /\ LET left == save[s].left \ {k}
     IN save' = [save EXCEPT ![s] = IF left = {} THEN [NoSave EXCEPT !.at = "read"]
                                    ELSE [@ EXCEPT !.left = left]]
  /\ UNCHANGED <<view, config, unsure>>

\* The rows written before stay.
WriteFails(s) ==
  /\ save[s].at = "write"
  /\ unsure' = TRUE
  /\ Over(s)
  /\ UNCHANGED <<saved, config>>

\* Mutant: the rows are applied to the config in memory.
ReadOnTop(s) ==
  /\ save[s].at = "read"
  /\ \E failed \in SUBSET Keys :
       /\ save' = [save EXCEPT ![s].at = "set", ![s].read = Overlay(config, Found(saved, failed))]
       /\ unsure' = (failed # {} \/ (unsure /\ \E u \in Saves \ {s} : Applying(u)))
  /\ UNCHANGED <<saved, view, config>>

\* The rows are applied to the defaults ...
ReadRows(s) ==
  /\ save[s].at = "read"
  /\ \E failed \in SUBSET Keys :
       /\ save' = [save EXCEPT ![s].at = "set", ![s].read = Overlay(Default, Found(saved, failed))]
       /\ unsure' = (failed # {} \/ (unsure /\ \E u \in Saves \ {s} : Applying(u)))
  /\ UNCHANGED <<saved, view, config>>

\* ... what that gives replaces the config in memory ...
SetConfig(s) ==
  /\ save[s].at = "set"
  /\ config' = save[s].read
  /\ save' = [save EXCEPT ![s] = [NoSave EXCEPT !.at = "restart"]]
  /\ UNCHANGED <<saved, view, unsure>>

\* ... and the restart is over, or has failed.
Restarted(s) ==
  /\ save[s].at = "restart"
  /\ Over(s)
  /\ UNCHANGED <<saved, config, unsure>>

-----------------------------------------------------------------------------
(* The app itself.                                                         *)

\* The app is closed, or dies, and is started.  What it finds may be of any time: it
\* opens its store, or makes do with an empty one in memory until the next start.
AppStarts ==
  /\ saved' \in Rows
  /\ \E failed \in SUBSET Keys :
       /\ config' = Overlay(Default, Found(saved', failed))
       /\ unsure' = (failed # {})
  /\ panel' = "closed" /\ save' = [s \in Saves |-> NoSave]
  /\ form' = Default

-----------------------------------------------------------------------------

SettingsNext ==
  \/ OpenPanel \/ ClosePanel \/ AppStarts
  \/ \E k \in Keys, v \in Values \cup {NoValue} : Edit(k, v)
  \/ \E s \in Saves :
       \/ Save(s) \/ WriteFails(s) \/ ReadRows(s) \/ SetConfig(s) \/ Restarted(s)
       \/ \E k \in Keys : WriteRow(s, k)

-----------------------------------------------------------------------------
(* Properties.                                                             *)

\* The types; a save that writes has something left to write.
SettingsTypeOK ==
  /\ saved \in Rows
  /\ config \in Configs /\ form \in Rows /\ panel \in {"closed", "open"} \cup Saves
  /\ save \in [Saves -> [at     : {"idle", "write", "read", "set", "restart"},
                         values : Rows, left : SUBSET Keys, read : Configs]]
  /\ \A s \in Saves : (save[s].at = "write") = (save[s].left # {})
  /\ unsure \in BOOLEAN

\* The comment at hub_restart_with_saved_config (app/src-tauri/src/commands.rs:1247):
\* the config is rebuilt from the table, "so the values saved in the settings panel
\* take effect", and missing keys keep the defaults.  So when no save is under way, and
\* none has failed half-way or overlapped another since all rows were read last, hubs
\* are launched with exactly what the app would launch them with after a restart,
\* whatever was saved before and whenever the app died.  A row that could not be read
\* (apply_saved_config drops the error) is the exception: its key has the default until
\* the next save or start, whatever the row says.
SavedIsInForce ==
  ~unsure /\ (\A s \in Saves : ~Applying(s)) => config = Overlay(Default, saved)
=============================================================================
