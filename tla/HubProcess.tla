----------------------------- MODULE HubProcess -----------------------------
(***************************************************************************)
(* The desktop app's controller of its hub: start, stop and restart of     *)
(* app/src-tauri/src/hub_process.rs, the task that waits for a hub it      *)
(* spawned, and the task that probes a hub it merely uses.                 *)
(*                                                                         *)
(* The frontend, the tray menu and the boot call the controller without a  *)
(* lock, so calls interleave wherever they await.  A call is a record in   *)
(* `call`: where it is, the child it works on, and whether it goes on to   *)
(* start a hub.  Hosts, ports, arguments and logs are left out: there is   *)
(* one port, and whoever listens on it answers every probe.                *)
(***************************************************************************)
EXTENDS Naturals, FiniteSets

CONSTANTS
  Commands,   \* bound: calls that run at the same time
  Monitors,   \* bound: probing tasks that run at the same time
  Children,   \* bound: hubs of this app that are known at the same time
  External,   \* a hub this app has not spawned
  None

ASSUME HubProcessAssumption ==
  /\ External \notin Children /\ None \notin Children \cup {External}
  /\ Commands \cap Monitors = {}
  /\ IsFiniteSet(Children)

\* A monitor starts a hub in a thread of its own.
Callers == Commands \cup Monitors

VARIABLES
  state,          \* HubProcess.state
  pid,            \* HubProcess.pid
  autoRestarted,  \* HubProcess.auto_restarted
  call,           \* the calls under way
  watched,        \* the children a task waits for
  probing,        \* the monitors that probe
  alive,          \* the children that run
  listener        \* who listens on the port

controller == <<state, pid, autoRestarted, call, watched, probing, alive, listener>>
process == <<watched, probing, alive, listener>>

NoCall == [at |-> "idle", child |-> None, again |-> FALSE]

ProcessInit ==
  /\ state = "stopped" /\ pid = None /\ autoRestarted = FALSE
  /\ call = [c \in Callers |-> NoCall]
  /\ watched = {} /\ probing = {} /\ alive = {}
  /\ listener \in {None, External}

Reachable == listener # None

Goto(c, at) == call' = [call EXCEPT ![c].at = at]
Return(c)   == call' = [call EXCEPT ![c] = NoCall]

\* A child nobody refers to any more, so that its name can be used again.
Fresh(k) == k \notin alive \cup watched \cup {pid} \cup {call[c].child : c \in Callers}

-----------------------------------------------------------------------------
(* start.                                                                  *)

\* The state is read under one lock and set under another.  A call that finds
\* a hub starting or running returns with an error.
Check(c, from) ==
  /\ call[c].at = from
  /\ IF state \in {"starting", "running"} THEN Return(c)
     ELSE call' = [call EXCEPT ![c] = [NoCall EXCEPT !.at = "checked"]]
  /\ UNCHANGED <<state, pid, autoRestarted, process>>

\* hub_start and app_ready, or a restart of a hub that is not running.
Start(c) == c \in Commands /\ Check(c, "idle")

\* start after a restart has stopped the hub, or in the thread of a monitor.
StartAgain(c) == Check(c, "again")

SetStarting(c) ==
  /\ call[c].at = "checked"
  /\ state' = "starting"
  /\ Goto(c, "probe")
  /\ UNCHANGED <<pid, autoRestarted, process>>

\* The port answers: somebody's hub is used, and a monitor probes it from now on.
Reuse(c, m) ==
  /\ call[c].at = "probe" /\ Reachable
  /\ m \notin probing /\ (call[m].at = "idle" \/ m = c)
  /\ state' = "running"
  /\ probing' = probing \cup {m}
  /\ Return(c)
  /\ UNCHANGED <<pid, autoRestarted, watched, alive, listener>>

SpawnFails(c) ==
  /\ call[c].at = "probe" /\ ~Reachable
  /\ state' = "failed"
  /\ Return(c)
  /\ UNCHANGED <<pid, autoRestarted, process>>

Spawn(c, k) ==
  /\ call[c].at = "probe" /\ ~Reachable /\ Fresh(k)
  /\ alive' = alive \cup {k}
  /\ pid' = k
  /\ call' = [call EXCEPT ![c].at = "wait", ![c].child = k]
  /\ UNCHANGED <<state, autoRestarted, watched, probing, listener>>

\* The port answers, whoever listens on it.
Ready(c) ==
  /\ call[c].at = "wait" /\ Reachable
  /\ state' = "running"
  /\ autoRestarted' = FALSE
  /\ watched' = watched \cup {call[c].child}
  /\ Return(c)
  /\ UNCHANGED <<pid, probing, alive, listener>>

Dies(k) ==
  /\ alive' = alive \ {k}
  /\ listener' = IF listener = k THEN None ELSE listener

\* Mutant: the child is left behind.
GiveUpOnly(c) ==
  /\ call[c].at = "wait" /\ ~Reachable
  /\ pid' = None
  /\ state' = "failed"
  /\ Return(c)
  /\ UNCHANGED <<autoRestarted, watched, probing, alive, listener>>

\* The port has not answered in time.
GiveUp(c) ==
  /\ call[c].at = "wait" /\ ~Reachable
  /\ Dies(call[c].child)
  /\ pid' = None
  /\ state' = "failed"
  /\ Return(c)
  /\ UNCHANGED <<autoRestarted, watched, probing>>

-----------------------------------------------------------------------------
(* The tasks behind a running hub.                                         *)

\* The task that waits for a child: it ended, or it could not be waited for.
ChildExit(k) ==
  /\ k \in watched \ alive
  /\ watched' = watched \ {k}
  /\ pid' = None
  /\ state' \in {"stopped", "failed"}
  /\ UNCHANGED <<autoRestarted, call, probing, alive, listener>>

\* The monitor of an external hub finds the port closed.  It starts a hub of
\* this app, unless that has been tried since the last one came up; what it
\* does after that is to log.
MonitorNotices(m) ==
  /\ m \in probing /\ ~Reachable
  /\ probing' = probing \ {m}
  /\ state' = "stopped"
  /\ autoRestarted' = TRUE
  /\ IF autoRestarted THEN UNCHANGED call
     ELSE call' = [call EXCEPT ![m].at = "again"]
  /\ UNCHANGED <<pid, watched, alive, listener>>

-----------------------------------------------------------------------------
(* stop and restart.                                                       *)

\* The pid is read.  Without one, stop returns with an error, and so does a
\* restart of a running hub.
Stop(c, again) ==
  /\ c \in Commands /\ call[c].at = "idle" /\ pid # None
  /\ again => state = "running"
  /\ call' = [call EXCEPT ![c] = [at |-> "stop", child |-> pid, again |-> again]]
  /\ UNCHANGED <<state, pid, autoRestarted, process>>

SetStopping(c) ==
  /\ call[c].at = "stop"
  /\ state' = "stopping"
  /\ Goto(c, "kill")
  /\ UNCHANGED <<pid, autoRestarted, process>>

Kill(c) ==
  /\ call[c].at = "kill"
  /\ Dies(call[c].child)
  /\ call' = [call EXCEPT ![c] = IF @.again THEN [NoCall EXCEPT !.at = "again"] ELSE NoCall]
  /\ UNCHANGED <<state, pid, autoRestarted, watched, probing>>

-----------------------------------------------------------------------------
(* The processes.                                                          *)

\* A child binds the port.  One that finds it taken logs the error and, with
\* nothing left to do, ends.
Listen(k) ==
  /\ k \in alive /\ listener # k
  /\ IF Reachable THEN Dies(k) ELSE listener' = k /\ UNCHANGED alive
  /\ UNCHANGED <<state, pid, autoRestarted, call, watched, probing>>

Crash(k) ==
  /\ k \in alive
  /\ Dies(k)
  /\ UNCHANGED <<state, pid, autoRestarted, call, watched, probing>>

ExternalChanges ==
  /\ \/ listener = None /\ listener' = External
     \/ listener = External /\ listener' = None
  /\ UNCHANGED <<state, pid, autoRestarted, call, watched, probing, alive>>

-----------------------------------------------------------------------------

CallStep(c) ==
  \/ StartAgain(c) \/ SetStarting(c) \/ SpawnFails(c) \/ Ready(c) \/ GiveUp(c)
  \/ SetStopping(c) \/ Kill(c)
  \/ \E m \in Monitors : Reuse(c, m)
  \/ \E k \in Children : Spawn(c, k)

ProcessNext ==
  \/ \E c \in Callers : CallStep(c)
  \/ \E c \in Commands : Start(c) \/ \E again \in BOOLEAN : Stop(c, again)
  \/ \E m \in Monitors : MonitorNotices(m)
  \/ \E k \in Children : ChildExit(k) \/ Listen(k) \/ Crash(k)
  \/ ExternalChanges

-----------------------------------------------------------------------------
(* Properties.                                                             *)

\* The types; a child listens only while it runs; and what a call works on
\* fits where it is.
ProcessTypeOK ==
  /\ state \in {"stopped", "starting", "running", "stopping", "failed"}
  /\ pid \in Children \cup {None}
  /\ autoRestarted \in BOOLEAN
  /\ \A c \in Callers :
        /\ call[c].at \in {"idle", "again", "checked", "probe", "wait", "stop", "kill"}
        /\ call[c].child \in Children \cup {None}
        /\ call[c].again \in BOOLEAN
        /\ (call[c].child # None) = (call[c].at \in {"wait", "stop", "kill"})
  /\ watched \subseteq Children /\ probing \subseteq Monitors /\ alive \subseteq Children
  /\ listener \in alive \cup {None, External}

\* However calls overlap and overwrite the state of each other, every hub the app
\* has spawned has somebody who will see it end, the start that waits for its port
\* or the task behind it; while the state says running, somebody will notice that
\* the hub is gone; and while it says starting, a start is at work.
HubIsAttended ==
  /\ \A k \in alive : k \in watched \/ \E c \in Callers : call[c].at = "wait" /\ call[c].child = k
  /\ state = "running" => watched # {} \/ probing # {}
  /\ state = "starting" => \E c \in Callers : call[c].at \in {"probe", "wait"}

=============================================================================
