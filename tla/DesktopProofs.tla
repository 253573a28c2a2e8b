--------------------------- MODULE DesktopProofs ----------------------------
(***************************************************************************)
(* The parts of DesktopApp, for every value of their constants: who        *)
(* attends to the hubs, what is in the message pool and what is read, what *)
(* settings are in force, that the admin page stays connected, the types   *)
(* of all five, and the composition that has them together.                *)
(***************************************************************************)
EXTENDS DesktopApp, SharedFacts

-----------------------------------------------------------------------------
(* The controller of the hub process (HubProcess).                         *)

\* The controller alone.
ProcessSpec == ProcessInit /\ [][ProcessNext]_controller

\* Where a call may be, and the record of it.
Stages == {"idle", "again", "checked", "probe", "wait", "stop", "kill"}
Calls == [at : Stages, child : Children \cup {None}, again : BOOLEAN]

\* A call has a child where it works on one.
CallTyped(d) == (d.child # None) = (d.at \in {"wait", "stop", "kill"})

\* The calls: a monitor that probes has no call under way, so that the one it makes
\* when its hub is gone overwrites no other.
CallOK ==
  /\ call \in [Callers -> Calls]
  /\ \A c \in Callers : CallTyped(call[c])
  /\ \A m \in probing : call[m].at = "idle"

\* The types, with what a call has at each stage, and who attends to the hubs.
ProcessInv ==
  /\ CallOK
  /\ state \in {"stopped", "starting", "running", "stopping", "failed"}
  /\ pid \in Children \cup {None}
  /\ autoRestarted \in BOOLEAN
  /\ watched \subseteq Children /\ probing \subseteq Monitors /\ alive \subseteq Children
  /\ listener \in alive \cup {None, External}
  /\ HubIsAttended

\* The invariant includes the types.
LEMMA InvIsTyped == ProcessInv => ProcessTypeOK
  BY Zenon DEF ProcessInv, ProcessTypeOK, CallOK, Calls, Stages, CallTyped

\* It holds when the app is first started.
LEMMA ProcessInvInit == ProcessInit => ProcessInv
<1> SUFFICES ASSUME ProcessInit PROVE ProcessInv OBVIOUS
<1>1. NoCall \in Calls BY DEF NoCall, Calls, Stages
<1>2. CallOK BY <1>1 DEF ProcessInit, CallOK, CallTyped, NoCall
<1> QED BY <1>2 DEF ProcessInit, ProcessInv, HubIsAttended

\* A caller takes a step: its record is replaced.
LEMMA CallChanges ==
  ASSUME CallOK, NEW c \in Callers, NEW d \in Calls, CallTyped(d),
         call' = [call EXCEPT ![c] = d], probing' \subseteq Callers,
         \A m \in probing' : m # c => call[m].at = "idle",
         c \in probing' => d.at = "idle"
  PROVE  CallOK' /\ call'[c] = d /\ \A e \in Callers : e # c => call'[e] = call[e]
<1>1. call'[c] = d /\ \A e \in Callers : e # c => call'[e] = call[e] BY DEF CallOK
<1>2. call' \in [Callers -> Calls] BY DEF CallOK
<1>3. \A e \in Callers : CallTyped(call'[e]) BY <1>1 DEF CallOK
<1> QED BY <1>1, <1>2, <1>3 DEF CallOK

\* A record of a call, with what may be changed in it.
LEMMA CallRecords ==
  ASSUME NEW d \in Calls
  PROVE  /\ NoCall \in Calls /\ CallTyped(NoCall) /\ NoCall.at = "idle"
         /\ \A at \in Stages :
              /\ [d EXCEPT !.at = at] \in Calls
              /\ [d EXCEPT !.at = at].at = at /\ [d EXCEPT !.at = at].child = d.child
         /\ \A at \in {"checked", "again"} :
              /\ [NoCall EXCEPT !.at = at] \in Calls /\ CallTyped([NoCall EXCEPT !.at = at])
              /\ [NoCall EXCEPT !.at = at].at = at
<1>1. NoCall \in Calls /\ CallTyped(NoCall) /\ NoCall.at = "idle"
  BY DEF Calls, Stages, CallTyped, NoCall
<1>2. ASSUME NEW at \in Stages, NEW e \in Calls
      PROVE  /\ [e EXCEPT !.at = at] \in Calls
             /\ [e EXCEPT !.at = at].at = at /\ [e EXCEPT !.at = at].child = e.child
  BY DEF Calls
<1>3. ASSUME NEW at \in {"checked", "again"}
      PROVE  /\ [NoCall EXCEPT !.at = at] \in Calls /\ CallTyped([NoCall EXCEPT !.at = at])
             /\ [NoCall EXCEPT !.at = at].at = at
  <2>1. at \in Stages BY DEF Stages
  <2> DEFINE e == [NoCall EXCEPT !.at = at]
  <2>2. e \in Calls /\ e.at = at /\ e.child = NoCall.child BY <1>1, <1>2, <2>1
  <2> HIDE DEF e
  <2>3. CallTyped(e) BY <2>2 DEF CallTyped, NoCall
  <2> QED BY <2>2, <2>3 DEF e
<1> QED BY <1>1, <1>2, <1>3

\* Every step keeps it.
LEMMA ProcessInvNext == ProcessInv /\ [ProcessNext]_controller => ProcessInv'
<1> SUFFICES ASSUME ProcessInv, [ProcessNext]_controller PROVE ProcessInv' OBVIOUS
<1>1. /\ CallOK
      /\ state \in {"stopped", "starting", "running", "stopping", "failed"}
      /\ pid \in Children \cup {None} /\ autoRestarted \in BOOLEAN
      /\ watched \subseteq Children /\ probing \subseteq Monitors /\ alive \subseteq Children
      /\ listener \in alive \cup {None, External}
      /\ HubIsAttended
  BY DEF ProcessInv
<1>2. /\ \A c \in Callers : call[c] \in Calls /\ CallTyped(call[c])
      /\ \A m \in probing : call[m].at = "idle"
      /\ call \in [Callers -> Calls]
  BY <1>1 DEF CallOK
<1>3. Commands \subseteq Callers /\ Monitors \subseteq Callers /\ probing \subseteq Callers
      /\ Commands \cap Monitors = {} /\ None \notin Children
  BY <1>1, HubProcessAssumption DEF Callers
<1> DEFINE Fits(c, d) ==
             /\ call' = [call EXCEPT ![c] = d] /\ d \in Calls /\ CallTyped(d)
             /\ probing' \subseteq Monitors
             /\ \A m \in probing' : m # c => call[m].at = "idle"
             /\ c \in probing' => d.at = "idle"
<1>4. ASSUME NEW c \in Callers, NEW d, Fits(c, d)
      PROVE  CallOK' /\ call'[c] = d /\ \A e \in Callers : e # c => call'[e] = call[e]
  BY <1>1, <1>3, <1>4, CallChanges
<1> DEFINE Moved(c, d) ==
             CallOK' /\ call'[c] = d /\ \A e \in Callers : e # c => call'[e] = call[e]
<1>5. ASSUME NEW k, NEW S \in SUBSET Children, alive = S, Dies(k)
      PROVE  /\ alive' = alive \ {k} /\ alive' \subseteq Children
             /\ listener' \in alive' \cup {None, External}
  BY <1>1, <1>5 DEF Dies
<1>6. ASSUME NEW c \in Callers, NEW from \in {"idle", "again"}, Check(c, from), c \notin probing
      PROVE  ProcessInv'
  <2>1. call[c].at = from /\ UNCHANGED <<state, pid, autoRestarted, process>>
    BY <1>6 DEF Check
  <2>2. PICK d \in {NoCall, [NoCall EXCEPT !.at = "checked"]} : call' = [call EXCEPT ![c] = d]
    BY <1>6 DEF Check, Return
  <2>3. d \in Calls /\ CallTyped(d) BY <1>2, <2>2, CallRecords
  <2>4. Fits(c, d) BY <1>1, <1>2, <1>6, <2>1, <2>2, <2>3 DEF process
  <2>5. Moved(c, d) BY <1>4, <2>4
  <2> HIDE DEF Fits
  <2>6. ~(call[c].at \in {"probe", "wait"}) BY <2>1
  <2>7. HubIsAttended' BY <1>1, <2>1, <2>5, <2>6 DEF HubIsAttended, process
  <2> QED BY <1>1, <2>1, <2>5, <2>7 DEF ProcessInv, process
<1>7. ASSUME NEW c \in Callers, SetStarting(c) PROVE ProcessInv'
  <2> DEFINE d == [call[c] EXCEPT !.at = "probe"]
  <2>1. call[c].at = "checked" /\ state' = "starting" /\ call' = [call EXCEPT ![c] = d]
        /\ UNCHANGED <<pid, autoRestarted, process>>
    BY <1>7, <1>2 DEF SetStarting, Goto
  <2>2. d \in Calls /\ d.at = "probe" /\ d.child = call[c].child
    BY <1>2, CallRecords DEF Stages
  <2> HIDE DEF d
  <2>3. CallTyped(d) /\ c \notin probing BY <1>2, <2>1, <2>2 DEF CallTyped
  <2>4. Fits(c, d) BY <1>1, <1>2, <2>1, <2>2, <2>3 DEF process
  <2>5. Moved(c, d) BY <1>4, <2>4
  <2> HIDE DEF Fits
  <2>6. HubIsAttended' BY <1>1, <2>1, <2>2, <2>5 DEF HubIsAttended, process
  <2> QED BY <1>1, <2>1, <2>5, <2>6 DEF ProcessInv, process
<1>8. ASSUME NEW c \in Callers, SetStopping(c) PROVE ProcessInv'
  <2> DEFINE d == [call[c] EXCEPT !.at = "kill"]
  <2>1. call[c].at = "stop" /\ state' = "stopping" /\ call' = [call EXCEPT ![c] = d]
        /\ UNCHANGED <<pid, autoRestarted, process>>
    BY <1>8, <1>2 DEF SetStopping, Goto
  <2>2. d \in Calls /\ d.at = "kill" /\ d.child = call[c].child
    BY <1>2, CallRecords DEF Stages
  <2> HIDE DEF d
  <2>3. CallTyped(d) /\ c \notin probing BY <1>2, <2>1, <2>2 DEF CallTyped
  <2>4. Fits(c, d) BY <1>1, <1>2, <2>1, <2>2, <2>3 DEF process
  <2>5. Moved(c, d) BY <1>4, <2>4
  <2> HIDE DEF Fits
  <2>6. HubIsAttended' BY <1>1, <2>1, <2>2, <2>5 DEF HubIsAttended, process
  <2> QED BY <1>1, <2>1, <2>5, <2>6 DEF ProcessInv, process
<1>9. ASSUME NEW c \in Callers, NEW m \in Monitors, Reuse(c, m) PROVE ProcessInv'
  <2>1. /\ call[c].at = "probe" /\ (call[m].at = "idle" \/ m = c)
        /\ state' = "running" /\ probing' = probing \cup {m} /\ call' = [call EXCEPT ![c] = NoCall]
        /\ UNCHANGED <<pid, autoRestarted, watched, alive, listener>>
    BY <1>9 DEF Reuse, Return
  <2>2. NoCall \in Calls /\ CallTyped(NoCall) /\ NoCall.at = "idle" BY <1>2, CallRecords
  <2>3. Fits(c, NoCall) BY <1>1, <1>2, <2>1, <2>2
  <2>4. Moved(c, NoCall) BY <1>4, <2>3
  <2> HIDE DEF Fits
  <2>5. HubIsAttended' BY <1>1, <2>1, <2>4 DEF HubIsAttended
  <2>6. probing' \subseteq Monitors BY <1>1, <2>1
  <2> QED BY <1>1, <2>1, <2>4, <2>5, <2>6 DEF ProcessInv
<1>10. ASSUME NEW c \in Callers, SpawnFails(c) PROVE ProcessInv'
  <2>1. /\ call[c].at = "probe" /\ state' = "failed" /\ call' = [call EXCEPT ![c] = NoCall]
        /\ UNCHANGED <<pid, autoRestarted, process>>
    BY <1>10 DEF SpawnFails, Return
  <2>2. NoCall \in Calls /\ CallTyped(NoCall) /\ NoCall.at = "idle" BY <1>2, CallRecords
  <2>3. Fits(c, NoCall) BY <1>1, <1>2, <2>1, <2>2 DEF process
  <2>4. Moved(c, NoCall) BY <1>4, <2>3
  <2> HIDE DEF Fits
  <2>5. HubIsAttended' BY <1>1, <2>1, <2>4 DEF HubIsAttended, process
  <2> QED BY <1>1, <2>1, <2>4, <2>5 DEF ProcessInv, process
<1>11. ASSUME NEW c \in Callers, NEW k \in Children, Spawn(c, k) PROVE ProcessInv'
  <2> DEFINE d == [call[c] EXCEPT !.at = "wait", !.child = k]
  <2>1. /\ call[c].at = "probe" /\ alive' = alive \cup {k} /\ pid' = k
        /\ UNCHANGED <<state, autoRestarted, watched, probing, listener>>
    BY <1>11 DEF Spawn
  <2>2. call' = [call EXCEPT ![c] = d] BY <1>11, <1>2 DEF Spawn
  <2>3. d \in Calls /\ d.at = "wait" /\ d.child = k BY <1>2 DEF Calls, Stages
  <2> HIDE DEF d
  <2>4. CallTyped(d) /\ c \notin probing BY <1>2, <1>3, <2>1, <2>3 DEF CallTyped
  <2>5. Fits(c, d) BY <1>1, <1>2, <2>1, <2>2, <2>3, <2>4
  <2>6. Moved(c, d) BY <1>4, <2>5
  <2> HIDE DEF Fits
  <2>7. HubIsAttended' BY <1>1, <2>1, <2>3, <2>6 DEF HubIsAttended
  <2> QED BY <1>1, <2>1, <2>6, <2>7 DEF ProcessInv
<1>12. ASSUME NEW c \in Callers, Ready(c) PROVE ProcessInv'
  <2>1. /\ call[c].at = "wait" /\ state' = "running" /\ autoRestarted' = FALSE
        /\ watched' = watched \cup {call[c].child} /\ call' = [call EXCEPT ![c] = NoCall]
        /\ UNCHANGED <<pid, probing, alive, listener>>
    BY <1>12 DEF Ready, Return
  <2>2. NoCall \in Calls /\ CallTyped(NoCall) /\ NoCall.at = "idle" BY <1>2, CallRecords
  <2>3. call[c].child \in Children BY <1>2, <2>1 DEF CallTyped, Calls
  <2>4. Fits(c, NoCall) BY <1>1, <1>2, <2>1, <2>2
  <2>5. Moved(c, NoCall) BY <1>4, <2>4
  <2> HIDE DEF Fits
  <2>6. HubIsAttended' BY <1>1, <2>1, <2>5 DEF HubIsAttended
  <2>7. watched' \subseteq Children BY <1>1, <2>1, <2>3
  <2> QED BY <1>1, <2>1, <2>5, <2>6, <2>7 DEF ProcessInv
<1>13. ASSUME NEW c \in Callers, GiveUp(c) PROVE ProcessInv'
  <2>1. /\ call[c].at = "wait" /\ Dies(call[c].child) /\ pid' = None
        /\ state' = "failed" /\ call' = [call EXCEPT ![c] = NoCall]
        /\ UNCHANGED <<autoRestarted, watched, probing>>
    BY <1>13 DEF GiveUp, Return
  <2>2. NoCall \in Calls /\ CallTyped(NoCall) /\ NoCall.at = "idle" BY <1>2, CallRecords
  <2>3. Fits(c, NoCall) BY <1>1, <1>2, <2>1, <2>2
  <2>4. Moved(c, NoCall) BY <1>4, <2>3
  <2> HIDE DEF Fits
  <2>5. /\ alive' = alive \ {call[c].child} /\ alive' \subseteq Children
        /\ listener' \in alive' \cup {None, External}
    BY <1>1, <1>5, <2>1
  <2>6. HubIsAttended' BY <1>1, <2>1, <2>4, <2>5 DEF HubIsAttended
  <2> QED BY <1>1, <2>1, <2>4, <2>5, <2>6 DEF ProcessInv
<1>14. ASSUME NEW c \in Callers, Kill(c) PROVE ProcessInv'
  <2>1. /\ call[c].at = "kill" /\ Dies(call[c].child)
        /\ UNCHANGED <<state, pid, autoRestarted, watched, probing>>
    BY <1>14 DEF Kill
  <2>2. PICK d \in {NoCall, [NoCall EXCEPT !.at = "again"]} : call' = [call EXCEPT ![c] = d]
    <3>1. CASE call[c].again BY <1>14, <1>2, <3>1 DEF Kill
    <3>2. CASE ~call[c].again BY <1>14, <1>2, <3>2 DEF Kill
    <3> QED BY <3>1, <3>2
  <2>3. d \in Calls /\ CallTyped(d) /\ c \notin probing BY <1>2, <2>1, <2>2, CallRecords
  <2>4. Fits(c, d) BY <1>1, <1>2, <2>1, <2>2, <2>3
  <2>5. Moved(c, d) BY <1>4, <2>4
  <2> HIDE DEF Fits
  <2>6. /\ alive' = alive \ {call[c].child} /\ alive' \subseteq Children
        /\ listener' \in alive' \cup {None, External}
    BY <1>1, <1>5, <2>1
  <2>7. HubIsAttended' BY <1>1, <2>1, <2>5, <2>6 DEF HubIsAttended
  <2> QED BY <1>1, <2>1, <2>5, <2>6, <2>7 DEF ProcessInv
<1>15. ASSUME NEW c \in Commands, NEW again \in BOOLEAN, Stop(c, again) PROVE ProcessInv'
  <2> DEFINE d == [at |-> "stop", child |-> pid, again |-> again]
  <2>1. /\ call[c].at = "idle" /\ pid # None /\ call' = [call EXCEPT ![c] = d]
        /\ UNCHANGED <<state, pid, autoRestarted, process>>
    BY <1>15 DEF Stop
  <2>2. d \in Calls /\ CallTyped(d) BY <1>1, <2>1 DEF Calls, Stages, CallTyped
  <2> HIDE DEF d
  <2>3. c \in Callers /\ c \notin probing BY <1>1, <1>3
  <2>4. Fits(c, d) BY <1>1, <1>2, <2>1, <2>2, <2>3 DEF process
  <2>5. Moved(c, d) BY <1>4, <2>3, <2>4
  <2> HIDE DEF Fits
  <2>6. HubIsAttended' BY <1>1, <2>1, <2>5 DEF HubIsAttended, process
  <2> QED BY <1>1, <2>1, <2>5, <2>6 DEF ProcessInv, process
<1>16. ASSUME NEW m \in Monitors, MonitorNotices(m) PROVE ProcessInv'
  <2> DEFINE d == [call[m] EXCEPT !.at = "again"]
  <2>1. /\ m \in probing /\ probing' = probing \ {m} /\ state' = "stopped" /\ autoRestarted' = TRUE
        /\ UNCHANGED <<pid, watched, alive, listener>>
    BY <1>16 DEF MonitorNotices
  <2>2. m \in Callers /\ call[m].at = "idle" BY <1>2, <1>3, <2>1
  <2>3. CASE UNCHANGED call
    <3>1. CallOK' BY <1>1, <2>1, <2>3 DEF CallOK
    <3>2. HubIsAttended' BY <1>1, <2>1, <2>3 DEF HubIsAttended
    <3>3. probing' \subseteq Monitors BY <1>1, <2>1
    <3> QED BY <1>1, <2>1, <3>1, <3>2, <3>3 DEF ProcessInv
  <2>4. CASE call' = [call EXCEPT ![m].at = "again"]
    <3>1. call' = [call EXCEPT ![m] = d] BY <1>2, <2>4
    <3>2. d \in Calls /\ d.at = "again" /\ d.child = call[m].child
      BY <1>2, <2>2, CallRecords DEF Stages
    <3> HIDE DEF d
    <3>3. CallTyped(d) BY <1>2, <2>2, <3>2 DEF CallTyped
    <3>4. Fits(m, d) BY <1>1, <1>2, <2>1, <3>1, <3>2, <3>3
    <3>5. Moved(m, d) BY <1>4, <2>2, <3>4
    <3> HIDE DEF Fits
    <3>6. HubIsAttended' BY <1>1, <2>1, <2>2, <3>5 DEF HubIsAttended
    <3>7. probing' \subseteq Monitors BY <1>1, <2>1
    <3> QED BY <1>1, <2>1, <3>5, <3>6, <3>7 DEF ProcessInv
  <2> QED BY <1>16, <2>3, <2>4 DEF MonitorNotices
<1>17. ASSUME NEW k \in Children, ChildExit(k) PROVE ProcessInv'
  <2>1. /\ k \in watched \ alive /\ watched' = watched \ {k} /\ pid' = None
        /\ state' \in {"stopped", "failed"}
        /\ UNCHANGED <<autoRestarted, call, probing, alive, listener>>
    BY <1>17 DEF ChildExit
  <2>2. CallOK' BY <1>1, <2>1 DEF CallOK
  <2>3. HubIsAttended' BY <1>1, <2>1 DEF HubIsAttended
  <2> QED BY <1>1, <2>1, <2>2, <2>3 DEF ProcessInv
<1>18. ASSUME NEW k \in Children, Listen(k) \/ Crash(k) PROVE ProcessInv'
  <2>1. UNCHANGED <<state, pid, autoRestarted, call, watched, probing>>
    BY <1>18 DEF Listen, Crash
  <2>2. alive' \subseteq alive /\ listener' \in alive' \cup {None, External}
    <3>1. CASE Dies(k) BY <1>1, <1>5, <3>1
    <3>2. CASE k \in alive /\ listener' = k /\ UNCHANGED alive BY <3>2
    <3> QED BY <1>18, <3>1, <3>2 DEF Listen, Crash
  <2>3. CallOK' BY <1>1, <2>1 DEF CallOK
  <2>4. HubIsAttended' BY <1>1, <2>1, <2>2 DEF HubIsAttended
  <2> QED BY <1>1, <2>1, <2>2, <2>3, <2>4 DEF ProcessInv
<1>19. ASSUME ExternalChanges PROVE ProcessInv'
  <2>1. UNCHANGED <<state, pid, autoRestarted, call, watched, probing, alive>>
        /\ listener' \in {None, External}
    BY <1>19 DEF ExternalChanges
  <2>2. CallOK' BY <1>1, <2>1 DEF CallOK
  <2>3. HubIsAttended' BY <1>1, <2>1 DEF HubIsAttended
  <2> QED BY <1>1, <2>1, <2>2, <2>3 DEF ProcessInv
<1>20. ASSUME UNCHANGED controller PROVE ProcessInv'
  <2>1. UNCHANGED <<state, pid, autoRestarted, call, watched, probing, alive, listener>>
    BY <1>20 DEF controller
  <2>2. CallOK' BY <1>1, <2>1 DEF CallOK
  <2>3. HubIsAttended' BY <1>1, <2>1 DEF HubIsAttended
  <2> QED BY <1>1, <2>1, <2>2, <2>3 DEF ProcessInv
<1>21. ASSUME NEW c \in Commands, Start(c) PROVE ProcessInv'
  <2>1. c \in Callers /\ c \notin probing /\ Check(c, "idle") BY <1>1, <1>3, <1>21 DEF Start
  <2> QED BY <1>6, <2>1
<1>22. ASSUME NEW c \in Callers, StartAgain(c) PROVE ProcessInv'
  <2>1. Check(c, "again") /\ call[c].at = "again" BY <1>22 DEF StartAgain, Check
  <2>2. c \notin probing BY <1>2, <2>1
  <2> QED BY <1>6, <2>1, <2>2
<1> HIDE DEF Fits, Moved
<1> QED
  BY <1>7, <1>8, <1>9, <1>10, <1>11, <1>12, <1>13, <1>14, <1>15, <1>16, <1>17, <1>18,
     <1>19, <1>20, <1>21, <1>22, Zenon
  DEF ProcessNext, CallStep

\* Every hub the app has spawned has somebody who will see it end, a running hub
\* somebody who notices that it is gone, and a starting one a start at work, however
\* start, stop, restart and the tasks behind them interleave
\* (app/src-tauri/src/hub_process.rs).
THEOREM HubStaysAttended == ProcessSpec => []HubIsAttended
<1>1. ProcessInv => HubIsAttended BY DEF ProcessInv
<1> QED BY <1>1, ProcessInvInit, ProcessInvNext, PTL DEF ProcessSpec

\* The types of the controller, and the stage each of its calls is at.
THEOREM ProcessIsTyped == ProcessSpec => []ProcessTypeOK
  BY InvIsTyped, ProcessInvInit, ProcessInvNext, PTL DEF ProcessSpec

-----------------------------------------------------------------------------
(* The message feed (MessageFeed).                                         *)

\* In increasing order.
Increasing(s) == \A i, j \in DOMAIN s : i < j => s[i] < s[j]

\* A set of numbers has an increasing enumeration: each member at the place that
\* counts those below it.
LEMMA SortedExists ==
  ASSUME NEW N \in Nat, NEW S \in SUBSET (0..N)
  PROVE  \E s \in SetToSeqs(S) : Increasing(s)
<1> DEFINE n == Cardinality(S)
           below(m) == {x \in S : x < m}
           r == [m \in S |-> Cardinality(below(m)) + 1]
<1>1. IsFiniteSet(S) /\ n \in Nat BY NumbersFinite
<1>2. \A m \in S : m \in Nat
  <2>1. \A m \in 0..N : m \in Nat OBVIOUS
  <2> QED BY <2>1
<1>3. \A m \in S : below(m) \in SUBSET S OBVIOUS
<1>4. \A m \in S : IsFiniteSet(below(m)) /\ Cardinality(below(m)) \in Nat
  <2> SUFFICES ASSUME NEW m \in S
               PROVE  IsFiniteSet(below(m)) /\ Cardinality(below(m)) \in Nat
    OBVIOUS
  <2>1. below(m) \in SUBSET (0..N) OBVIOUS
  <2> HIDE DEF below
  <2> QED BY <2>1, NumbersFinite
<1>5. ASSUME NEW m \in S, NEW k \in S, m < k PROVE r[m] < r[k]
  <2>1. below(m) \cup {m} \in SUBSET below(k) /\ m \notin below(m)
    <3>1. m \in Nat /\ k \in Nat /\ m < k BY <1>2, <1>5
    <3>2. ASSUME NEW x \in S, x < m PROVE x < k
      <4>1. x \in Nat BY <1>2
      <4> QED BY <3>1, <3>2, <4>1
    <3>3. ~(m < m) BY <3>1
    <3> QED BY <3>1, <3>2, <3>3
  <2>2. r[m] = Cardinality(below(m)) + 1 /\ r[k] = Cardinality(below(k)) + 1 OBVIOUS
  <2>3. Cardinality(below(m)) \in Nat /\ Cardinality(below(k)) \in Nat
        /\ IsFiniteSet(below(m)) /\ IsFiniteSet(below(k))
    BY <1>4
  <2> HIDE DEF below, r
  <2>4. Cardinality(below(m) \cup {m}) = Cardinality(below(m)) + 1
    BY <2>1, <2>3, FS_AddElement
  <2>5. Cardinality(below(m) \cup {m}) <= Cardinality(below(k)) BY <2>1, <2>3, FS_Subset
  <2> QED BY <2>2, <2>3, <2>4, <2>5
<1>6. \A m \in S : r[m] \in 1..n
  <2> SUFFICES ASSUME NEW m \in S PROVE r[m] \in 1..n OBVIOUS
  <2>1. below(m) \in SUBSET (S \ {m})
    <3>1. m \in Nat BY <1>2
    <3>2. ~(m < m) BY <3>1
    <3> QED BY <3>2
  <2>2. r[m] = Cardinality(below(m)) + 1 OBVIOUS
  <2>3. Cardinality(below(m)) \in Nat BY <1>4
  <2> HIDE DEF below, r
  <2>4. IsFiniteSet(S \ {m}) /\ Cardinality(S \ {m}) = n - 1
    <3>1. IsFiniteSet(S \ {m}) /\ Cardinality(S \ {m}) = Cardinality(S) - 1
      BY <1>1, FS_RemoveElement
    <3> QED BY <3>1
  <2>5. Cardinality(below(m)) <= Cardinality(S \ {m}) BY <2>1, <2>4, FS_Subset
  <2> HIDE DEF n
  <2> QED BY <1>1, <2>2, <2>3, <2>4, <2>5
<1>7. r \in [S -> 1..n] BY <1>6
<1> HIDE DEF r, below
<1>8. r \in Surjection(S, 1..n)
  <2>1. \A m, k \in S : r[m] = r[k] => m = k
    <3> SUFFICES ASSUME NEW m \in S, NEW k \in S, r[m] = r[k] PROVE m = k OBVIOUS
    <3>1. r[m] \in Nat /\ r[k] \in Nat BY <1>6
    <3>2. ~(m < k) /\ ~(k < m) BY <1>5, <3>1
    <3>3. m \in Nat /\ k \in Nat BY <1>2
    <3> QED BY <3>2, <3>3
  <2>2. r \in Injection(S, 1..n) BY <1>7, <2>1 DEF Injection, IsInjective
  <2>3. IsFiniteSet(1..n) /\ Cardinality(1..n) = n
    <3>1. 1 \in Int /\ n \in Int BY <1>1
    <3> HIDE DEF n
    <3> QED BY <1>1, <3>1, FS_Interval
  <2> QED BY <1>1, <2>2, <2>3, FS_Injection
<1> DEFINE s == [i \in 1..n |-> CHOOSE m \in S : r[m] = i]
<1>9. \A i \in 1..n : s[i] \in S /\ r[s[i]] = i
  <2> SUFFICES ASSUME NEW i \in 1..n PROVE s[i] \in S /\ r[s[i]] = i OBVIOUS
  <2>1. \E m \in S : r[m] = i BY <1>8 DEF Surjection
  <2> QED BY <2>1
<1>10. s \in [1..n -> S] /\ DOMAIN s = 1..n BY <1>9
<1> HIDE DEF s, n
<1>11. \A i, j \in 1..n : i # j => s[i] # s[j] BY <1>9
<1>12. \A i, j \in 1..n : i < j => s[i] < s[j]
  <2> SUFFICES ASSUME NEW i \in 1..n, NEW j \in 1..n, i < j PROVE s[i] < s[j] OBVIOUS
  <2>1. s[i] \in Nat /\ s[j] \in Nat /\ s[i] # s[j]
    <3>1. s[i] \in S /\ s[j] \in S BY <1>9
    <3>2. i # j
      <4>1. i \in Int /\ j \in Int /\ i < j BY <1>1
      <4> QED BY <4>1
    <3>3. s[i] # s[j] BY <1>11, <3>2
    <3> QED BY <1>2, <3>1, <3>3
  <2>2. ~(s[j] < s[i])
    <3>1. s[i] \in S /\ s[j] \in S /\ r[s[i]] = i /\ r[s[j]] = j BY <1>9
    <3>2. s[j] < s[i] => r[s[j]] < r[s[i]] BY <1>5, <3>1
    <3> QED BY <3>1, <3>2
  <2> QED BY <2>1, <2>2
<1>13. s \in SetToSeqs(S) BY <1>10, <1>11 DEF SetToSeqs, n
<1> QED BY <1>10, <1>12, <1>13 DEF Increasing

\* The sequence has the elements of the set, each once and in order.
LEMMA AscendingFacts ==
  ASSUME NEW N \in Nat, NEW S \in SUBSET (0..N)
  PROVE  /\ Ascending(S) \in Seq(S) /\ Len(Ascending(S)) = Cardinality(S)
         /\ DOMAIN Ascending(S) = 1..Cardinality(S)
         /\ IsInjective(Ascending(S)) /\ ToSet(Ascending(S)) = S
         /\ Increasing(Ascending(S))
<1> DEFINE s == Ascending(S)
           n == Cardinality(S)
<1>1. IsFiniteSet(S) /\ n \in Nat BY NumbersFinite
<1>2. s \in SetToSeqs(S) /\ Increasing(s) BY SortedExists DEF Ascending, Increasing
<1>3. s \in [1..n -> S] /\ \A i, j \in 1..n : i # j => s[i] # s[j] BY <1>2 DEF SetToSeqs
<1> HIDE DEF s
<1>4. s \in Seq(S) /\ Len(s) = n /\ DOMAIN s = 1..n
  <2> HIDE DEF n
  <2> QED BY <1>1, <1>3
<1>5. IsInjective(s) BY <1>3, <1>4 DEF IsInjective
<1>6. s \in Surjection(1..n, S)
  <2>1. s \in Injection(1..n, S) BY <1>3, <1>5 DEF Injection
  <2>2. IsFiniteSet(1..n) /\ Cardinality(1..n) = n
    <3>1. 1 \in Int /\ n \in Int BY <1>1
    <3> HIDE DEF n
    <3> QED BY <1>1, <3>1, FS_Interval
  <2> QED BY <1>1, <2>1, <2>2, FS_Injection
<1>7. ToSet(s) = S BY <1>4, <1>6 DEF Surjection, ToSet
<1> QED BY <1>2, <1>4, <1>5, <1>7 DEF s

\* The end of the sequence is the newest of the set.
LEMMA TailIsNewest ==
  ASSUME NEW N \in Nat, NEW S \in SUBSET (0..N), NEW c \in Nat, c <= Cardinality(S)
  PROVE  LET s == Ascending(S)
             t == SubSeq(s, Len(s) - c + 1, Len(s))
         IN  t \in Seq(S) /\ Len(t) = c /\ IsInjective(t) /\ ToSet(t) = Newest(S, c)
<1> DEFINE s == Ascending(S)
           n == Cardinality(S)
           t == SubSeq(s, Len(s) - c + 1, Len(s))
<1>1. IsFiniteSet(S) /\ n \in Nat BY NumbersFinite
<1>2. /\ s \in Seq(S) /\ Len(s) = n /\ DOMAIN s = 1..n /\ IsInjective(s) /\ ToSet(s) = S
      /\ \A i, j \in 1..n : i < j => s[i] < s[j]
  BY AscendingFacts DEF Increasing
<1> HIDE DEF s
<1>3. t = SubSeq(s, n - c + 1, n) /\ c <= n BY <1>2
<1> HIDE DEF n, t
<1>4. \A i \in 1..n : s[i] \in S /\ s[i] \in Nat
  <2>1. \A m \in 0..N : m \in Nat OBVIOUS
  <2>2. \A i \in 1..n : s[i] \in S BY <1>2, ElementOfSeq
  <2> QED BY <2>1, <2>2
<1>5. t \in Seq(S) /\ Len(t) = c /\ \A i \in 1..c : t[i] = s[(n - c) + i]
  <2>1. \A i \in (n - c + 1)..n : s[i] \in S BY <1>1, <1>3, <1>4
  <2>2. n - c + 1 \in Int /\ n \in Int BY <1>1
  <2>3. /\ SubSeq(s, n - c + 1, n) \in Seq(S)
        /\ Len(SubSeq(s, n - c + 1, n)) = IF n - c + 1 <= n THEN n - (n - c + 1) + 1 ELSE 0
        /\ \A i \in 1..(n - (n - c + 1) + 1) : SubSeq(s, n - c + 1, n)[i] = s[(n - c + 1) + i - 1]
    BY <2>1, <2>2, SubSeqProperties
  <2>4. (n - (n - c + 1) + 1) = c /\ \A i \in 1..c : (n - c + 1) + i - 1 = (n - c) + i
    BY <1>1
  <2>5. (IF n - c + 1 <= n THEN n - (n - c + 1) + 1 ELSE 0) = c BY <1>1
  <2> QED BY <1>3, <2>3, <2>4, <2>5
<1>6. DOMAIN t = 1..c BY <1>5, LenProperties
<1>7. \A i \in 1..c : (n - c) + i \in 1..n BY <1>1, <1>3
<1>8. IsInjective(t)
  <2> SUFFICES ASSUME NEW i \in 1..c, NEW j \in 1..c, t[i] = t[j] PROVE i = j
    BY <1>6 DEF IsInjective
  <2>1. (n - c) + i = (n - c) + j BY <1>2, <1>5, <1>7 DEF IsInjective
  <2> QED BY <1>1, <2>1
<1>9. \A k \in 1..n : Cardinality({x \in S : x > s[k]}) = n - k
  <2> SUFFICES ASSUME NEW k \in 1..n PROVE Cardinality({x \in S : x > s[k]}) = n - k OBVIOUS
  <2> DEFINE X == {x \in S : x > s[k]}
             f == [j \in (k + 1)..n |-> s[j]]
  <2>1. \A j \in (k + 1)..n : j \in 1..n /\ k < j BY <1>1
  <2>2. \A j \in (k + 1)..n : s[j] \in X BY <1>2, <1>4, <2>1
  <2>3. \A x \in X : \E j \in (k + 1)..n : s[j] = x
    <3> SUFFICES ASSUME NEW x \in X PROVE \E j \in (k + 1)..n : s[j] = x OBVIOUS
    <3>1. PICK j \in 1..n : s[j] = x BY <1>2 DEF ToSet
    <3>2. s[j] > s[k] /\ s[j] \in Nat /\ s[k] \in Nat BY <1>4, <3>1
    <3>3. ~(j < k) /\ j # k BY <1>2, <3>2
    <3>4. j \in (k + 1)..n BY <1>1, <3>3
    <3> QED BY <3>1, <3>4
  <2>4. f \in [(k + 1)..n -> X] /\ \A i, j \in (k + 1)..n : f[i] = f[j] => i = j
    BY <1>2, <2>1, <2>2 DEF IsInjective
  <2>5. f \in Surjection((k + 1)..n, X) /\ f \in Injection((k + 1)..n, X)
    BY <2>3, <2>4 DEF Surjection, Injection, IsInjective
  <2> HIDE DEF f, X
  <2>6. IsFiniteSet((k + 1)..n) /\ Cardinality((k + 1)..n) = n - k
    <3>1. k + 1 \in Int /\ n \in Int BY <1>1
    <3>2. /\ IsFiniteSet((k + 1)..n)
          /\ Cardinality((k + 1)..n) = IF k + 1 > n THEN 0 ELSE n - (k + 1) + 1
      BY <3>1, FS_Interval
    <3>3. (IF k + 1 > n THEN 0 ELSE n - (k + 1) + 1) = n - k BY <1>1
    <3> QED BY <3>2, <3>3
  <2>7. Cardinality(X) = Cardinality((k + 1)..n) BY <2>5, <2>6, FS_Surjection
  <2> QED BY <2>6, <2>7 DEF X
<1>10. \A k \in 1..n : s[k] \in Newest(S, c) <=> k > n - c
  <2> SUFFICES ASSUME NEW k \in 1..n PROVE s[k] \in Newest(S, c) <=> k > n - c OBVIOUS
  <2>1. s[k] \in Newest(S, c) <=> Cardinality({x \in S : x > s[k]}) < c BY <1>4 DEF Newest
  <2>2. (n - k < c) <=> (k > n - c) BY <1>1
  <2> QED BY <1>9, <2>1, <2>2
<1>11. ToSet(t) = Newest(S, c)
  <2>1. ASSUME NEW i \in 1..c PROVE t[i] \in Newest(S, c)
    <3>1. (n - c) + i > n - c BY <1>1
    <3> QED BY <1>5, <1>7, <1>10, <3>1
  <2>2. ASSUME NEW x \in Newest(S, c) PROVE x \in ToSet(t)
    <3>1. x \in S BY DEF Newest
    <3>2. PICK k \in 1..n : s[k] = x BY <1>2, <3>1 DEF ToSet
    <3>3. k > n - c BY <1>10, <3>2
    <3>4. k - (n - c) \in 1..c /\ (n - c) + (k - (n - c)) = k BY <1>1, <1>3, <3>3
    <3>5. t[k - (n - c)] = x BY <1>5, <3>2, <3>4
    <3> QED BY <1>6, <3>4, <3>5 DEF ToSet
  <2> QED BY <1>6, <2>1, <2>2 DEF ToSet
<1> QED BY <1>5, <1>8, <1>11 DEF t, s

\* The cap keeps the newest of what is there, each message once.
LEMMA CapPoolFacts ==
  ASSUME NEW N \in Nat, NEW messages \in Seq(1..N), IsInjective(messages)
  PROVE  /\ CapPool(messages) \in Seq(1..N) /\ IsInjective(CapPool(messages))
         /\ Len(CapPool(messages)) <= PoolCap
         /\ ToSet(CapPool(messages)) = Newest(ToSet(messages), PoolCap)
<1> DEFINE S == ToSet(messages)
           n == Len(messages)
<1>1. PoolCap \in Nat BY FeedAssumption
<1>2. n \in Nat /\ DOMAIN messages = 1..n /\ \A i \in 1..n : messages[i] \in 1..N
  BY LenProperties, ElementOfSeq
<1>3. S \in SUBSET (0..N) /\ S \subseteq 1..N
  <2>1. \A m \in 1..N : m \in 0..N OBVIOUS
  <2>2. \A x \in S : \E i \in 1..n : x = messages[i] BY <1>2 DEF ToSet
  <2> HIDE DEF S
  <2> QED BY <1>2, <2>1, <2>2
<1>4. IsFiniteSet(S) /\ Cardinality(S) \in Nat
  <2> HIDE DEF S
  <2> QED BY <1>3, NumbersFinite
<1>5. Cardinality(S) = n
  <2>1. messages \in Surjection(1..n, S) /\ messages \in Injection(1..n, S)
    <3>1. messages \in [1..n -> S] BY <1>2 DEF ToSet
    <3>2. messages \in Injection(1..n, S) BY <3>1 DEF Injection
    <3>3. \A x \in S : \E i \in 1..n : messages[i] = x BY <1>2 DEF ToSet
    <3> QED BY <3>1, <3>2, <3>3 DEF Surjection
  <2>2. IsFiniteSet(1..n) /\ Cardinality(1..n) = n
    <3>1. 1 \in Int /\ n \in Int BY <1>2
    <3> HIDE DEF n
    <3> QED BY <1>2, <3>1, FS_Interval
  <2> HIDE DEF S, n
  <2>3. Cardinality(S) = Cardinality(1..n) BY <2>1, <2>2, FS_Surjection
  <2> QED BY <2>2, <2>3
<1>6. CASE n <= PoolCap
  <2>1. CapPool(messages) = messages BY <1>6 DEF CapPool
  <2>2. Newest(S, PoolCap) = S
    <3> SUFFICES ASSUME NEW m \in S PROVE Cardinality({x \in S : x > m}) < PoolCap
      BY DEF Newest
    <3> DEFINE X == {x \in S : x > m}
    <3>1. m \in Nat
      <4>1. \A k \in 0..N : k \in Nat OBVIOUS
      <4> HIDE DEF S
      <4> QED BY <1>3, <4>1
    <3>2. X \in SUBSET (S \ {m})
      <4>1. ~(m > m) BY <3>1
      <4> HIDE DEF S
      <4> QED BY <4>1
    <3> HIDE DEF X, S, n
    <3>3. IsFiniteSet(S \ {m}) /\ Cardinality(S \ {m}) = Cardinality(S) - 1
      BY <1>4, FS_RemoveElement
    <3>4. Cardinality(X) <= Cardinality(S \ {m}) /\ Cardinality(X) \in Nat
      <4>1. IsFiniteSet(X) /\ Cardinality(X) <= Cardinality(S \ {m})
        BY <3>2, <3>3, FS_Subset
      <4> QED BY <4>1, FS_CardinalityType
    <3>5. Cardinality(X) < PoolCap BY <1>1, <1>2, <1>4, <1>5, <1>6, <3>3, <3>4
    <3> QED BY <3>5 DEF X
  <2> QED BY <1>6, <2>1, <2>2
<1>7. CASE ~(n <= PoolCap)
  <2> DEFINE s == Ascending(S)
             t == SubSeq(s, Len(s) - PoolCap + 1, Len(s))
  <2>1. CapPool(messages) = t BY <1>7 DEF CapPool
  <2>2. PoolCap <= Cardinality(S) BY <1>1, <1>2, <1>5, <1>7
  <2> HIDE DEF S
  <2>3. t \in Seq(S) /\ Len(t) = PoolCap /\ IsInjective(t) /\ ToSet(t) = Newest(S, PoolCap)
    BY <1>1, <1>3, <2>2, TailIsNewest
  <2> HIDE DEF t
  <2>4. t \in Seq(1..N)
    <3>1. Seq(S) \subseteq Seq(1..N) BY <1>3, SeqMonotonic
    <3> QED BY <2>3, <3>1
  <2> QED BY <1>1, <2>1, <2>3, <2>4 DEF S
<1> QED BY <1>6, <1>7

\* A list of messages that are not in the pool, each once, is merged into it.
LEMMA MergeFacts ==
  ASSUME NEW N \in Nat, pool \in Seq(1..N), IsInjective(pool),
         NEW list \in Seq(1..N), IsInjective(list), ToSet(list) \cap ToSet(pool) = {}
  PROVE  /\ Merge(list) \in Seq(1..N) /\ IsInjective(Merge(list)) /\ Len(Merge(list)) <= PoolCap
         /\ ToSet(Merge(list)) = Newest(ToSet(pool) \cup ToSet(list), PoolCap)
<1> DEFINE w == pool \o list
           n == Len(pool)
           k == Len(list)
<1>1. n \in Nat /\ k \in Nat /\ DOMAIN pool = 1..n /\ DOMAIN list = 1..k
  BY LenProperties
<1>2. /\ w \in Seq(1..N) /\ Len(w) = n + k
      /\ \A i \in 1..(n + k) : w[i] = IF i <= n THEN pool[i] ELSE list[i - n]
  BY ConcatProperties
<1>3. DOMAIN w = 1..(n + k) BY <1>2, LenProperties
<1>4. \A i \in 1..n : pool[i] \in ToSet(pool) BY <1>1 DEF ToSet
<1>5. \A i \in 1..k : list[i] \in ToSet(list) BY <1>1 DEF ToSet
<1> HIDE DEF w, n, k
<1>6. \A i \in 1..(n + k) : i <= n => i \in 1..n /\ w[i] = pool[i] BY <1>1, <1>2
<1>7. \A i \in 1..(n + k) : ~(i <= n) => i - n \in 1..k /\ w[i] = list[i - n] BY <1>1, <1>2
<1>8. IsInjective(w)
  <2> SUFFICES ASSUME NEW i \in 1..(n + k), NEW j \in 1..(n + k), w[i] = w[j] PROVE i = j
    BY <1>3 DEF IsInjective
  <2>1. CASE i <= n /\ j <= n BY <1>1, <1>6, <2>1 DEF IsInjective
  <2>2. CASE ~(i <= n) /\ ~(j <= n)
    <3>1. i - n = j - n BY <1>1, <1>7, <2>2 DEF IsInjective
    <3> QED BY <1>1, <3>1
  <2>3. CASE i <= n /\ ~(j <= n) BY <1>4, <1>5, <1>6, <1>7, <2>3
  <2>4. CASE ~(i <= n) /\ j <= n BY <1>4, <1>5, <1>6, <1>7, <2>4
  <2> QED BY <2>1, <2>2, <2>3, <2>4
<1>9. ToSet(w) = ToSet(pool) \cup ToSet(list)
  <2>1. ASSUME NEW x \in ToSet(w) PROVE x \in ToSet(pool) \cup ToSet(list)
    <3>1. PICK i \in 1..(n + k) : w[i] = x BY <1>3 DEF ToSet
    <3>2. CASE i <= n BY <1>4, <1>6, <3>1, <3>2
    <3>3. CASE ~(i <= n) BY <1>5, <1>7, <3>1, <3>3
    <3> QED BY <3>2, <3>3
  <2>2. ASSUME NEW x \in ToSet(pool) PROVE x \in ToSet(w)
    <3>1. PICK i \in 1..n : pool[i] = x BY <1>1 DEF ToSet
    <3>2. i \in 1..(n + k) /\ i <= n BY <1>1
    <3>3. w[i] = x BY <1>6, <3>1, <3>2
    <3> QED BY <1>3, <3>2, <3>3 DEF ToSet
  <2>3. ASSUME NEW x \in ToSet(list) PROVE x \in ToSet(w)
    <3>1. PICK i \in 1..k : list[i] = x BY <1>1 DEF ToSet
    <3>2. n + i \in 1..(n + k) /\ ~(n + i <= n) /\ (n + i) - n = i BY <1>1
    <3>3. w[n + i] = list[(n + i) - n] BY <1>7, <3>2
    <3>4. w[n + i] = x BY <3>1, <3>2, <3>3
    <3> QED BY <1>3, <3>2, <3>4 DEF ToSet
  <2> QED BY <2>1, <2>2, <2>3
<1>10. Merge(list) = CapPool(w) BY DEF Merge, w
<1> QED BY <1>2, <1>8, <1>9, <1>10, CapPoolFacts

\* So is a set of messages, in either order: the pool comes to hold the newest
\* of all there have been.
LEMMA MergeKeepsNewest ==
  ASSUME NEW N \in Nat, pool \in Seq(1..N), IsInjective(pool),
         NEW Old \in SUBSET (1..N), ToSet(pool) = Newest(Old, PoolCap),
         NEW S \in SUBSET (1..N),
         NEW list, list \in {Ascending(New(S)), Reverse(Ascending(New(S)))}
  PROVE  /\ Merge(list) \in Seq(1..N) /\ IsInjective(Merge(list)) /\ Len(Merge(list)) <= PoolCap
         /\ ToSet(Merge(list)) = Newest(Old \cup S, PoolCap)
<1> DEFINE s == Ascending(New(S))
           n == Cardinality(New(S))
<1>1. New(S) \in SUBSET S /\ New(S) \cap ToSet(pool) = {} BY DEF New
<1>2. S \in SUBSET (0..N) /\ Old \in SUBSET (0..N) /\ New(S) \in SUBSET (0..N)
      /\ New(S) \in SUBSET (1..N)
  <2>1. \A m \in 1..N : m \in 0..N OBVIOUS
  <2> QED BY <1>1, <2>1
<1>3. /\ s \in Seq(New(S)) /\ Len(s) = n /\ DOMAIN s = 1..n /\ IsInjective(s)
      /\ ToSet(s) = New(S)
  BY <1>2, AscendingFacts
<1> HIDE DEF s
<1>4. s \in Seq(1..N) /\ n \in Nat
  <2>1. Seq(New(S)) \subseteq Seq(1..N) BY <1>2, SeqMonotonic
  <2> QED BY <1>2, <1>3, <2>1, NumbersFinite
<1>5. list \in Seq(1..N) /\ IsInjective(list) /\ ToSet(list) = New(S)
  <2>1. CASE list = s BY <1>3, <1>4, <2>1
  <2>2. CASE list = Reverse(s)
    <3> HIDE DEF n
    <3>1. /\ list \in Seq(1..N) /\ Len(list) = n
          /\ \A j \in 1..n : list[j] = s[n - j + 1]
      BY <1>3, <1>4, <2>2, ReverseFacts
    <3>2. DOMAIN list = 1..n BY <3>1, LenProperties
    <3>3. \A j \in 1..n : n - j + 1 \in 1..n BY <1>4
    <3>4. IsInjective(list)
      <4> SUFFICES ASSUME NEW i \in 1..n, NEW j \in 1..n, list[i] = list[j] PROVE i = j
        BY <3>2 DEF IsInjective
      <4>1. s[n - i + 1] = s[n - j + 1] BY <3>1
      <4>2. n - i + 1 = n - j + 1 BY <1>3, <3>3, <4>1 DEF IsInjective
      <4> QED BY <1>4, <4>2
    <3>5. ASSUME NEW x \in ToSet(list) PROVE x \in New(S)
      <4>1. PICK j \in 1..n : list[j] = x BY <3>2 DEF ToSet
      <4>2. s[n - j + 1] \in ToSet(s) BY <1>3, <3>3 DEF ToSet
      <4> QED BY <1>3, <3>1, <4>1, <4>2
    <3>6. ASSUME NEW x \in New(S) PROVE x \in ToSet(list)
      <4>1. PICK j \in 1..n : s[j] = x BY <1>3 DEF ToSet
      <4>2. n - j + 1 \in 1..n /\ n - (n - j + 1) + 1 = j BY <1>4
      <4>3. list[n - j + 1] = s[n - (n - j + 1) + 1] BY <3>1, <4>2
      <4>4. list[n - j + 1] = x BY <4>1, <4>2, <4>3
      <4> QED BY <3>2, <4>2, <4>4 DEF ToSet
    <3> QED BY <3>1, <3>4, <3>5, <3>6
  <2> QED BY <2>1, <2>2 DEF s
<1>6. /\ Merge(list) \in Seq(1..N) /\ IsInjective(Merge(list)) /\ Len(Merge(list)) <= PoolCap
      /\ ToSet(Merge(list)) = Newest(ToSet(pool) \cup ToSet(list), PoolCap)
  BY <1>1, <1>5, MergeFacts
<1>7. ToSet(pool) \cup ToSet(list) = Newest(Old, PoolCap) \cup S BY <1>5 DEF New
<1>8. Newest(Newest(Old, PoolCap) \cup S, PoolCap) = Newest(Old \cup S, PoolCap)
  <2>1. PoolCap \in Nat BY FeedAssumption
  <2>2. Latest(Latest(Old, PoolCap) \cup S, PoolCap) = Latest(Old \cup S, PoolCap)
    BY <1>2, <2>1, LatestAbsorbs
  <2> QED BY <2>2, Zenon DEF Latest, Newest
<1> QED BY <1>6, <1>7, <1>8

\* The message feed alone.
FeedSpec == FeedInit /\ [][FeedNext]_feed

\* The types, and the newest messages in the pool: with the types it is inductive.
FeedInv == FeedTypeOK /\ NewestKept

\* It holds when the app is first started.
LEMMA FeedInvInit == FeedInit => FeedInv
<1> SUFFICES ASSUME FeedInit PROVE FeedInv OBVIOUS
<1> USE DEF FeedInit
<1>1. sent \in 0..MaxSent BY FeedAssumption
<1>2. pool = <<>> /\ seen = {} OBVIOUS
<1>3. pool \in Seq(1..sent) /\ IsInjective(pool) /\ Len(pool) <= PoolCap
  BY <1>2, FeedAssumption DEF IsInjective
<1>4. Cardinality(restored) <= 1
  <2>1. Cardinality({0}) = 1 BY FS_Singleton
  <2> QED BY <2>1
<1>5. NewestKept
  <2>1. ToSet(pool) = {} BY <1>2 DEF ToSet
  <2>2. Newest(seen, PoolCap) = {} BY <1>2 DEF Newest
  <2> QED BY <2>1, <2>2 DEF NewestKept
<1> QED BY <1>1, <1>3, <1>4, <1>5 DEF FeedInv, FeedTypeOK

\* The answer to a poll has messages that were sent.
LEMMA AnswerIsSent ==
  ASSUME NEW last \in 0..sent, sent \in Nat
  PROVE  Answer(last) \in SUBSET (1..sent)
  BY DEF Answer, Newest

\* Every step keeps it; those that bring messages are merges of a set.
LEMMA FeedInvNext == FeedInv /\ [FeedNext]_feed => FeedInv'
<1> SUFFICES ASSUME FeedInv, [FeedNext]_feed PROVE FeedInv' OBVIOUS
<1>1. /\ sent \in 0..MaxSent /\ sent \in Nat
      /\ arriving \subseteq 1..sent /\ archive \subseteq 1..sent
      /\ answers \subseteq 0..sent
      /\ pool \in Seq(1..sent) /\ IsInjective(pool) /\ Len(pool) <= PoolCap
      /\ lastRead \in 0..sent /\ mark \in 0..sent /\ marking \subseteq 1..sent
      /\ restored \subseteq 0..sent /\ Cardinality(restored) <= 1
      /\ seen \subseteq 1..sent
      /\ ToSet(pool) = Newest(seen, PoolCap)
  BY FeedAssumption DEF FeedInv, FeedTypeOK, NewestKept
<1>2. Messages = 1..MaxSent BY DEF Messages
<1> DEFINE Came(list, S) ==
             /\ pool' = Merge(list) /\ seen' = seen \cup S /\ sent' = sent
             /\ list \in {Ascending(New(S)), Reverse(Ascending(New(S)))}
             /\ UNCHANGED <<lastRead, mark, marking, restored>>
<1>3. ASSUME NEW list, NEW S \in SUBSET (1..sent), Came(list, S),
             arriving' \subseteq arriving, answers' \subseteq answers, archive' = archive
      PROVE  FeedInv'
  <2>1. /\ Merge(list) \in Seq(1..sent) /\ IsInjective(Merge(list)) /\ Len(Merge(list)) <= PoolCap
        /\ ToSet(Merge(list)) = Newest(seen \cup S, PoolCap)
    <3>1. seen \in SUBSET (1..sent) /\ list \in {Ascending(New(S)), Reverse(Ascending(New(S)))}
      BY <1>1, <1>3
    <3> QED BY <1>1, <3>1, MergeKeepsNewest
  <2>2. /\ pool' \in Seq(1..sent') /\ IsInjective(pool') /\ Len(pool') <= PoolCap
        /\ ToSet(pool') = Newest(seen', PoolCap)
    BY <1>3, <2>1
  <2>3. seen' \subseteq 1..sent' BY <1>1, <1>3
  <2> QED BY <1>1, <1>3, <2>2, <2>3 DEF FeedInv, FeedTypeOK, NewestKept
<1>4. ASSUME NEW reaches \in BOOLEAN, Route(reaches) PROVE FeedInv'
  <2>1. /\ sent < MaxSent /\ sent' = sent + 1
        /\ arriving' = (IF reaches THEN arriving \cup {sent + 1} ELSE arriving)
        /\ UNCHANGED <<answers, pool, archive, lastRead, mark, marking, restored, seen>>
    BY <1>4 DEF Route
  <2>2. sent' \in 0..MaxSent BY <1>1, <2>1, FeedAssumption
  <2>3. 1..sent \subseteq 1..(sent + 1) /\ 0..sent \subseteq 0..(sent + 1) /\ sent + 1 \in 1..(sent + 1)
    BY <1>1
  <2>4. pool' \in Seq(1..sent') BY <1>1, <2>1, <2>3, SeqMonotonic
  <2>5. arriving' \subseteq 1..sent' BY <1>1, <2>1, <2>3
  <2>6. /\ archive' \subseteq 1..sent' /\ answers' \subseteq 0..sent' /\ lastRead' \in 0..sent'
        /\ mark' \in 0..sent' /\ marking' \subseteq 1..sent' /\ restored' \subseteq 0..sent'
        /\ seen' \subseteq 1..sent'
    BY <1>1, <2>1, <2>3
  <2>7. /\ IsInjective(pool') /\ Len(pool') <= PoolCap /\ Cardinality(restored') <= 1
        /\ ToSet(pool') = Newest(seen', PoolCap)
    BY <1>1, <2>1
  <2> QED BY <2>2, <2>4, <2>5, <2>6, <2>7 DEF FeedInv, FeedTypeOK, NewestKept
<1>5. ASSUME NEW m \in Messages, Arrive(m) PROVE FeedInv'
  <2>1. {m} \in SUBSET (1..sent) BY <1>1, <1>5 DEF Arrive
  <2>2. Came(Ascending(New({m})), {m}) BY <1>5 DEF Arrive
  <2>3. arriving' \subseteq arriving /\ answers' \subseteq answers /\ archive' = archive
    BY <1>5 DEF Arrive
  <2> HIDE DEF Came
  <2> QED BY <1>3, <2>1, <2>2, <2>3
<1>6. ASSUME NEW m \in Messages, MarkPeerRead(m) PROVE FeedInv'
  <2>1. m \in 1..sent
    <3>1. CASE m = sent
      <4>1. m \in 1..MaxSent BY <1>2
      <4> QED BY <1>1, <3>1, <4>1
    <3>2. CASE m \in ToSet(pool)
      <4>1. Newest(seen, PoolCap) \subseteq seen BY DEF Newest
      <4> QED BY <1>1, <3>2, <4>1
    <3> QED BY <1>6, <3>1, <3>2 DEF MarkPeerRead
  <2>2. lastRead' \in 0..sent /\ marking' \subseteq 1..sent
    <3>1. m \in 0..sent BY <2>1, <1>1
    <3> QED BY <1>1, <1>6, <2>1, <3>1 DEF MarkPeerRead
  <2>3. UNCHANGED <<sent, arriving, answers, pool, archive, mark, restored, seen>>
    BY <1>6 DEF MarkPeerRead
  <2> QED BY <1>1, <2>2, <2>3 DEF FeedInv, FeedTypeOK, NewestKept
<1>7. ASSUME NEW m \in Messages, ClearUnread(m) PROVE FeedInv'
  <2>1. m \in 0..sent BY <1>1, <1>7 DEF ClearUnread
  <2>2. /\ mark' = m /\ marking' \subseteq marking
        /\ UNCHANGED <<sent, arriving, answers, pool, archive, lastRead, restored, seen>>
    BY <1>7 DEF ClearUnread
  <2> QED BY <1>1, <2>1, <2>2 DEF FeedInv, FeedTypeOK, NewestKept
<1>8. ASSUME Poll PROVE FeedInv'
  <2>1. /\ answers' = answers \cup {sent} /\ archive' = archive \cup Answer(sent)
        /\ UNCHANGED <<sent, arriving, pool, lastRead, mark, marking, restored, seen>>
    BY <1>8 DEF Poll
  <2>2. sent \in 0..sent BY <1>1
  <2>3. Answer(sent) \in SUBSET (1..sent) BY <1>1, <2>2, AnswerIsSent
  <2> QED BY <1>1, <2>1, <2>2, <2>3 DEF FeedInv, FeedTypeOK, NewestKept
<1>9. ASSUME NEW last \in 0..MaxSent, Refresh(last) PROVE FeedInv'
  <2>1. last \in 0..sent BY <1>1, <1>9 DEF Refresh
  <2>2. Answer(last) \in SUBSET (1..sent) BY <1>1, <2>1, AnswerIsSent
  <2>3. Came(Ascending(New(Answer(last))), Answer(last)) BY <1>9 DEF Refresh
  <2>4. arriving' \subseteq arriving /\ answers' \subseteq answers /\ archive' = archive
    BY <1>9 DEF Refresh
  <2> HIDE DEF Came
  <2> QED BY <1>3, <2>2, <2>3, <2>4
<1>10. ASSUME NEW n \in 1..MaxSent, RestoreLocal(n) PROVE FeedInv'
  <2> DEFINE S == Newest(archive, n)
  <2>1. S \in SUBSET (1..sent) BY <1>1 DEF Newest
  <2>2. Came(Reverse(Ascending(New(S))), S) BY <1>10 DEF RestoreLocal
  <2>3. arriving' \subseteq arriving /\ answers' \subseteq answers /\ archive' = archive
    BY <1>10 DEF RestoreLocal
  <2> HIDE DEF Came, S
  <2> QED BY <1>3, <2>1, <2>2, <2>3
<1>11. ASSUME RestoreMark PROVE FeedInv'
  <2>1. (CHOOSE n \in restored : TRUE) \in restored BY <1>11 DEF RestoreMark
  <2>2. lastRead' \in 0..sent BY <1>1, <1>11, <2>1 DEF RestoreMark
  <2>3. restored' \subseteq 0..sent /\ Cardinality(restored') <= 1
    BY <1>11, FS_EmptySet DEF RestoreMark
  <2>4. UNCHANGED <<sent, arriving, answers, pool, archive, mark, marking, seen>>
    BY <1>11 DEF RestoreMark
  <2> QED BY <1>1, <2>2, <2>3, <2>4 DEF FeedInv, FeedTypeOK, NewestKept
<1>12. ASSUME RestartFeed PROVE FeedInv'
  <2>1. /\ arriving' = {} /\ answers' = {} /\ pool' = <<>> /\ seen' = {}
        /\ lastRead' = 0 /\ marking' = {} /\ restored' = {mark}
        /\ UNCHANGED <<sent, archive, mark>>
    BY <1>12 DEF RestartFeed
  <2>2. pool' \in Seq(1..sent) /\ IsInjective(pool') /\ Len(pool') <= PoolCap
    BY <2>1, FeedAssumption DEF IsInjective
  <2>3. Cardinality(restored') <= 1
    <3>1. Cardinality({mark}) = 1 BY FS_Singleton
    <3> QED BY <2>1, <3>1
  <2>4. ToSet(pool') = Newest(seen', PoolCap)
    <3>1. ToSet(<<>>) = {} BY DEF ToSet
    <3>2. Newest({}, PoolCap) = {} BY DEF Newest
    <3> QED BY <2>1, <3>1, <3>2
  <2>5. lastRead' \in 0..sent /\ restored' \subseteq 0..sent BY <1>1, <2>1
  <2> QED BY <1>1, <2>1, <2>2, <2>3, <2>4, <2>5 DEF FeedInv, FeedTypeOK, NewestKept
<1>13. CASE UNCHANGED feed
  <2>1. UNCHANGED <<sent, arriving, answers, pool, archive, lastRead, mark, marking, restored, seen>>
    BY <1>13 DEF feed
  <2> QED BY <1>1, <2>1 DEF FeedInv, FeedTypeOK, NewestKept
<1> HIDE DEF Came
<1> QED BY <1>4, <1>5, <1>6, <1>7, <1>8, <1>9, <1>10, <1>11, <1>12, <1>13 DEF FeedNext

\* The types of the message feed, and what is in the pool, in every state.
THEOREM FeedIsSound == FeedSpec => []FeedInv
  BY FeedInvInit, FeedInvNext, PTL DEF FeedSpec

\* Whichever way and in whichever order messages come, the pool holds the newest of
\* those that came since the start, each once (pushMessage, refresh and capPool of
\* app/src/stores/messagesStore.ts).
THEOREM NewestAreKept == FeedSpec => []NewestKept
<1>1. FeedInv => NewestKept BY DEF FeedInv
<1> QED BY <1>1, FeedIsSound, PTL

\* A read mark never goes back while the app runs (markPeerRead and the restoring
\* of marks in app/src/stores/messagesStore.ts).
THEOREM ReadMarksGrow == FeedSpec => ReadStaysRead
<1>1. ASSUME FeedInv, [FeedNext]_feed PROVE [lastRead' >= lastRead \/ RestartFeed]_feed
  <2>1. lastRead \in Nat /\ sent \in Nat /\ \A n \in restored : n \in Nat
    <3>1. sent \in Nat /\ lastRead \in 0..sent /\ restored \subseteq 0..sent
      BY <1>1, FeedAssumption DEF FeedInv, FeedTypeOK
    <3>2. \A n \in 0..sent : n \in Nat OBVIOUS
    <3> QED BY <3>1, <3>2
  <2>2. CASE lastRead' = lastRead BY <2>1, <2>2
  <2>3. ASSUME NEW m \in Messages, MarkPeerRead(m) PROVE lastRead' >= lastRead
    <3>1. m \in Nat BY DEF Messages
    <3> QED BY <2>1, <2>3, <3>1 DEF MarkPeerRead
  <2>4. ASSUME RestoreMark PROVE lastRead' >= lastRead
    <3>1. (CHOOSE n \in restored : TRUE) \in Nat BY <2>1, <2>4 DEF RestoreMark
    <3> QED BY <2>1, <2>4, <3>1 DEF RestoreMark
  <2>5. CASE RestartFeed BY <2>5
  <2> QED BY <1>1, <2>2, <2>3, <2>4, <2>5, Zenon
        DEF FeedNext, feed, Route, Arrive, ClearUnread, Poll, Refresh, RestoreLocal
<1> QED BY <1>1, FeedIsSound, PTL DEF FeedSpec, ReadStaysRead

-----------------------------------------------------------------------------
(* The roster (Roster).                                                    *)

\* The roster alone.
RosterSpec == RosterInit /\ [][RosterNext]_roster

\* The types hold when the app is first started.
LEMMA RosterInitTyped == RosterInit => RosterTypeOK
<1> SUFFICES ASSUME RosterInit PROVE RosterTypeOK OBVIOUS
<1>1. Nobody \in Lists BY DEF Nobody, Lists, Presence
<1>2. Idle \in [Peers -> {"idle", "unregistered", "deleted", "answered"}]
      /\ Idle \in [Peers -> {"idle", "forgotten", "renamed", "deleted"}]
  BY DEF Idle
<1> QED BY <1>1, <1>2 DEF RosterInit, RosterTypeOK

\* Every step keeps them.
LEMMA RosterNextTyped == RosterTypeOK /\ [RosterNext]_roster => RosterTypeOK'
<1> SUFFICES ASSUME RosterTypeOK, [RosterNext]_roster PROVE RosterTypeOK' OBVIOUS
<1> DEFINE Kicks  == {"idle", "unregistered", "deleted", "answered"}
           Leaves == {"idle", "forgotten", "renamed", "deleted"}
<1>1. /\ hub \in Lists /\ rows \in Lists /\ live \in Lists /\ rosterLocal \in Lists
      /\ arrived \subseteq Lists /\ synced \subseteq Lists /\ listing \subseteq Lists
      /\ kicked \subseteq Peers /\ suppressed \subseteq Peers /\ baseline \in BOOLEAN
      /\ kicking \in [Peers -> Kicks] /\ leaving \in [Peers -> Leaves]
  BY DEF RosterTypeOK
<1>2. ASSUME NEW l \in Lists, NEW p \in Peers, NEW s \in Presence
      PROVE  [l EXCEPT ![p] = s] \in Lists
  BY DEF Lists
<1>3. "absent" \in Presence /\ \A l \in Lists, p \in Peers : l[p] \in Presence
  BY DEF Presence, Lists
<1>4. \A p \in Peers : /\ \A s \in Kicks : [kicking EXCEPT ![p] = s] \in [Peers -> Kicks]
                       /\ \A s \in Leaves : [leaving EXCEPT ![p] = s] \in [Peers -> Leaves]
  BY <1>1
<1> HIDE DEF Kicks, Leaves
<1>5. ASSUME NEW p \in Peers, HubChanges(p) PROVE RosterTypeOK'
  <2>1. PICK s \in Presence : hub' = [hub EXCEPT ![p] = s]
    BY <1>5 DEF HubChanges
  <2>2. hub' \in Lists
    BY <1>1, <1>2, <2>1
  <2>3. UNCHANGED <<arrived, synced, kicking, leaving, listing, rows, kicked, live,
                    baseline, rosterLocal, suppressed>>
    BY <1>5 DEF HubChanges, table, views
  <2> QED BY <1>1, <2>2, <2>3 DEF RosterTypeOK, Kicks, Leaves
<1>6. ASSUME Arrives PROVE RosterTypeOK'
  <2>1. arrived' \subseteq Lists
    BY <1>1, <1>2, <1>3, <1>4, <1>6 DEF Arrives, table, views
  <2>2. UNCHANGED <<synced, kicking, leaving, listing, hub, rows, kicked, live,
                    baseline, rosterLocal, suppressed>>
    BY <1>6 DEF Arrives, table, views
  <2> QED BY <1>1, <2>1, <2>2 DEF RosterTypeOK, Kicks, Leaves
<1>7. ASSUME NEW list \in Lists, Sync(list) PROVE RosterTypeOK'
  <2>1. /\ arrived' \subseteq Lists /\ synced' \subseteq Lists
        /\ rows' \in Lists /\ kicked' \subseteq Peers
    BY <1>1, <1>2, <1>3, <1>4, <1>7 DEF Sync, table, views, Lists
  <2>2. UNCHANGED <<kicking, leaving, listing, hub, live, baseline, rosterLocal, suppressed>>
    BY <1>7 DEF Sync, table, views
  <2> QED BY <1>1, <2>1, <2>2 DEF RosterTypeOK, Kicks, Leaves
<1>8. ASSUME NEW list \in Lists, ApplyLive(list) PROVE RosterTypeOK'
  <2>1. synced' \subseteq Lists /\ live' \in Lists /\ baseline' \in BOOLEAN
    BY <1>1, <1>2, <1>3, <1>4, <1>8 DEF ApplyLive, table, views
  <2>2. UNCHANGED <<arrived, kicking, leaving, listing, hub, rows, kicked, rosterLocal,
                    suppressed>>
    BY <1>8 DEF ApplyLive, table, views
  <2> QED BY <1>1, <2>1, <2>2 DEF RosterTypeOK, Kicks, Leaves
<1>9. ASSUME NEW list \in Lists, ApplyLocal(list) PROVE RosterTypeOK'
  <2>1. listing' \subseteq Lists /\ rosterLocal' \in Lists
    BY <1>1, <1>2, <1>3, <1>4, <1>9 DEF ApplyLocal, table, views, Lists
  <2>2. UNCHANGED <<arrived, synced, kicking, leaving, hub, rows, kicked, live,
                    baseline, suppressed>>
    BY <1>9 DEF ApplyLocal, table, views
  <2> QED BY <1>1, <2>1, <2>2 DEF RosterTypeOK, Kicks, Leaves
<1>10. ASSUME NEW p \in Peers, Kick(p) PROVE RosterTypeOK'
  <2>1. hub' \in Lists /\ kicking' \in [Peers -> Kicks]
    BY <1>1, <1>2, <1>3, <1>4, <1>10 DEF Kick, table, views, Kicks
  <2>2. UNCHANGED <<arrived, synced, leaving, listing, rows, kicked, live, baseline,
                    rosterLocal, suppressed>>
    BY <1>10 DEF Kick, table, views
  <2> QED BY <1>1, <2>1, <2>2 DEF RosterTypeOK, Kicks, Leaves
<1>11. ASSUME NEW p \in Peers, KickDeletes(p) PROVE RosterTypeOK'
  <2>1. rows' \in Lists /\ kicking' \in [Peers -> Kicks]
    BY <1>1, <1>2, <1>3, <1>4, <1>11 DEF KickDeletes, table, views, Kicks
  <2>2. UNCHANGED <<arrived, synced, leaving, listing, hub, kicked, live, baseline,
                    rosterLocal, suppressed>>
    BY <1>11 DEF KickDeletes, table, views
  <2> QED BY <1>1, <2>1, <2>2 DEF RosterTypeOK, Kicks, Leaves
<1>12. ASSUME NEW p \in Peers, KickSuppresses(p) PROVE RosterTypeOK'
  <2>1. kicked' \subseteq Peers /\ kicking' \in [Peers -> Kicks]
    BY <1>1, <1>2, <1>3, <1>4, <1>12 DEF KickSuppresses, table, views, Kicks
  <2>2. UNCHANGED <<arrived, synced, leaving, listing, hub, rows, live, baseline,
                    rosterLocal, suppressed>>
    BY <1>12 DEF KickSuppresses, table, views
  <2> QED BY <1>1, <2>1, <2>2 DEF RosterTypeOK, Kicks, Leaves
<1>13. ASSUME NEW p \in Peers, KickAnswered(p) PROVE RosterTypeOK'
  <2>1. /\ live' \in Lists /\ rosterLocal' \in Lists
        /\ suppressed' \subseteq Peers /\ kicking' \in [Peers -> Kicks]
    BY <1>1, <1>2, <1>3, <1>4, <1>13 DEF KickAnswered, table, views, Kicks
  <2>2. UNCHANGED <<arrived, synced, leaving, listing, hub, rows, kicked, baseline>>
    BY <1>13 DEF KickAnswered, table, views
  <2> QED BY <1>1, <2>1, <2>2 DEF RosterTypeOK, Kicks, Leaves
<1>14. ASSUME NEW p \in Peers, Forget(p) PROVE RosterTypeOK'
  <2>1. rows' \in Lists /\ leaving' \in [Peers -> Leaves]
    BY <1>1, <1>2, <1>3, <1>4, <1>14 DEF Forget, table, views, Leaves
  <2>2. UNCHANGED <<arrived, synced, kicking, listing, hub, kicked, live, baseline,
                    rosterLocal, suppressed>>
    BY <1>14 DEF Forget, table, views
  <2> QED BY <1>1, <2>1, <2>2 DEF RosterTypeOK, Kicks, Leaves
<1>15. ASSUME NEW p \in Peers, ForgetAnswered(p) PROVE RosterTypeOK'
  <2>1. rosterLocal' \in Lists /\ suppressed' \subseteq Peers /\ leaving' \in [Peers -> Leaves]
    BY <1>1, <1>2, <1>3, <1>4, <1>15 DEF ForgetAnswered, table, views, Leaves
  <2>2. UNCHANGED <<arrived, synced, kicking, listing, hub, rows, kicked, live, baseline>>
    BY <1>15 DEF ForgetAnswered, table, views
  <2> QED BY <1>1, <2>1, <2>2 DEF RosterTypeOK, Kicks, Leaves
<1>16. ASSUME NEW p \in Peers, NEW new \in {{}} \cup {{r} : r \in Peers \ {p}}, Rename(p, new)
       PROVE  RosterTypeOK'
  <2>1. hub' \in Lists /\ leaving' \in [Peers -> Leaves]
    BY <1>1, <1>2, <1>3, <1>4, <1>16 DEF Rename, table, views, Leaves, Lists
  <2>2. UNCHANGED <<arrived, synced, kicking, listing, rows, kicked, live, baseline,
                    rosterLocal, suppressed>>
    BY <1>16 DEF Rename, table, views
  <2> QED BY <1>1, <2>1, <2>2 DEF RosterTypeOK, Kicks, Leaves
<1>17. ASSUME NEW p \in Peers, RenameDeletes(p) PROVE RosterTypeOK'
  <2>1. rows' \in Lists /\ leaving' \in [Peers -> Leaves]
    BY <1>1, <1>2, <1>3, <1>4, <1>17 DEF RenameDeletes, table, views, Leaves
  <2>2. UNCHANGED <<arrived, synced, kicking, listing, hub, kicked, live, baseline,
                    rosterLocal, suppressed>>
    BY <1>17 DEF RenameDeletes, table, views
  <2> QED BY <1>1, <2>1, <2>2 DEF RosterTypeOK, Kicks, Leaves
<1>18. ASSUME NEW p \in Peers, RenameAnswered(p) PROVE RosterTypeOK'
  <2>1. live' \in Lists /\ rosterLocal' \in Lists /\ leaving' \in [Peers -> Leaves]
    BY <1>1, <1>2, <1>3, <1>4, <1>18 DEF RenameAnswered, table, views, Leaves
  <2>2. UNCHANGED <<arrived, synced, kicking, listing, hub, rows, kicked, baseline,
                    suppressed>>
    BY <1>18 DEF RenameAnswered, table, views
  <2> QED BY <1>1, <2>1, <2>2 DEF RosterTypeOK, Kicks, Leaves
<1>19. ASSUME RestartRoster PROVE RosterTypeOK'
  <2>1. /\ Nobody \in Lists /\ Idle \in [Peers -> Kicks] /\ Idle \in [Peers -> Leaves]
    BY <1>3 DEF Nobody, Lists, Idle, Kicks, Leaves
  <2> QED BY <1>1, <2>1, <1>19 DEF RestartRoster, RosterTypeOK, Kicks, Leaves
<1>20. ASSUME UNCHANGED roster PROVE RosterTypeOK'
  <2> QED BY <1>1, <1>20 DEF RosterTypeOK, Kicks, Leaves, roster, table, views
<1> QED
  BY <1>5, <1>6, <1>7, <1>8, <1>9, <1>10, <1>11, <1>12, <1>13, <1>14, <1>15, <1>16,
     <1>17, <1>18, <1>19, <1>20, Zenon
  DEF RosterNext, Stir

\* The types of the roster, its table and its views.
THEOREM RosterIsTyped == RosterSpec => []RosterTypeOK
  BY RosterInitTyped, RosterNextTyped, PTL DEF RosterSpec

-----------------------------------------------------------------------------
(* The settings (Settings).                                                *)

\* The settings alone.
SettingsSpec == SettingsInit /\ [][SettingsNext]_settings

\* Unless a save failed or overlapped another one or a row could not be read, at most
\* one is being applied, and what it has read is what the rows say.
AppliedAlone ==
  ~unsure =>
    /\ \A s, u \in Saves : Applying(s) /\ Applying(u) => s = u
    /\ \A s \in Saves : save[s].at = "set" => save[s].read = Overlay(Default, saved)

SettingsInv == SettingsTypeOK /\ AppliedAlone /\ SavedIsInForce

SaveRecord ==
  [at     : {"idle", "write", "read", "set", "restart"},
   values : Rows, left : SUBSET Keys, read : Configs]

\* The assumption on the constants, and what the overlay of rows on the defaults is.
LEMMA SettingsFacts ==
  /\ Default \in Configs /\ Default \in Rows /\ NoRows \in Rows /\ Configs \subseteq Rows
  /\ \A found \in Rows : Overlay(Default, found) \in Configs
  /\ \A kept \in Rows, failed \in SUBSET Keys : Found(kept, failed) \in Rows
  /\ \A kept \in Rows : Found(kept, {}) = kept
  /\ Overlay(Default, NoRows) = Default
  /\ NoSave \in SaveRecord /\ NoSave.at = "idle" /\ NoSave.left = {}
<1>1. Default \in Configs /\ Default \in Rows /\ NoRows \in Rows /\ Configs \subseteq Rows
  BY SettingsAssumption DEF Configs, Rows, NoRows
<1>2. ASSUME NEW found \in Rows PROVE Overlay(Default, found) \in Configs
  BY <1>2, SettingsAssumption DEF Overlay, Configs, Rows
<1>3. Overlay(Default, NoRows) = Default
  BY SettingsAssumption DEF Overlay, NoRows
<1>4. ASSUME NEW kept \in Rows, NEW failed \in SUBSET Keys
      PROVE  Found(kept, failed) \in Rows /\ Found(kept, {}) = kept
  BY DEF Found, Rows
<1> QED BY <1>1, <1>2, <1>3, <1>4 DEF NoSave, SaveRecord

LEMMA SettingsStart == SettingsInit => SettingsInv
<1> SUFFICES ASSUME SettingsInit PROVE SettingsInv OBVIOUS
<1>1. \A s \in Saves : save[s] = NoSave
  BY DEF SettingsInit
<1>2. save \in [Saves -> SaveRecord]
  BY SettingsFacts DEF SettingsInit
<1> QED
  BY <1>1, <1>2, SettingsFacts
  DEF SettingsInit, SettingsInv, SettingsTypeOK, SaveRecord, AppliedAlone, SavedIsInForce, Applying

\* What the panel does, and a restart that is over, touches no save being applied.
LEMMA PanelKeeps ==
  ASSUME SettingsInv,
         \/ OpenPanel \/ ClosePanel
         \/ \E k \in Keys, v \in Values \cup {NoValue} : Edit(k, v)
         \/ UNCHANGED settings
  PROVE  SettingsInv'
<1>1. UNCHANGED <<saved, config, save, unsure>>
  BY DEF OpenPanel, ClosePanel, Edit, settings
<1>2. form' \in Rows /\ panel' \in {"closed", "open"} \cup Saves
  BY SettingsFacts
  DEF SettingsInv, SettingsTypeOK, OpenPanel, ClosePanel, Edit, settings, view, Rows, Configs
<1> QED
  BY <1>1, <1>2
  DEF SettingsInv, SettingsTypeOK, AppliedAlone, SavedIsInForce, Applying

\* One save makes a step that touches neither the panel's form nor, unless it says so,
\* anything else: its record stays one.
LEMMA SaveSteps ==
  ASSUME SettingsTypeOK, NEW s \in Saves, NEW step \in SaveRecord,
         save' = [save EXCEPT ![s] = step],
         (step.at = "write") <=> (step.left # {})
  PROVE  /\ save' \in [Saves -> SaveRecord] /\ save'[s] = step
         /\ \A u \in Saves : u # s => save'[u] = save[u]
         /\ \A u \in Saves : (save'[u].at = "write") = (save'[u].left # {})
BY DEF SettingsTypeOK, SaveRecord

LEMMA SaveKeeps ==
  ASSUME SettingsInv, NEW s \in Saves, Save(s)
  PROVE  SettingsInv'
<1> DEFINE begun == [NoSave EXCEPT !.at = "write", !.values = form, !.left = Keys]
<1>1. begun \in SaveRecord /\ begun.at = "write" /\ begun.left = Keys
  BY SettingsFacts DEF SettingsInv, SettingsTypeOK, SaveRecord, NoSave
<1>2. /\ save' = [save EXCEPT ![s] = begun] /\ panel' = s
      /\ UNCHANGED <<saved, form, config>>
      /\ unsure' = (unsure \/ \E u \in Saves : Applying(u))
  BY DEF Save
<1> HIDE DEF begun
<1>3. /\ save' \in [Saves -> SaveRecord] /\ save'[s] = begun
      /\ \A u \in Saves : u # s => save'[u] = save[u]
      /\ \A u \in Saves : (save'[u].at = "write") = (save'[u].left # {})
  BY <1>1, <1>2, SaveSteps, SettingsAssumption DEF SettingsInv
<1>4. SettingsTypeOK'
  BY <1>2, <1>3 DEF SettingsInv, SettingsTypeOK, SaveRecord
<1>5. ~unsure' => ~unsure /\ \A u \in Saves : ~Applying(u)
  BY <1>2 DEF SettingsInv, SettingsTypeOK
<1>6. AppliedAlone' /\ SavedIsInForce'
  BY <1>1, <1>2, <1>3, <1>5 DEF AppliedAlone, SavedIsInForce, Applying
<1> QED BY <1>4, <1>6 DEF SettingsInv

LEMMA WriteRowKeeps ==
  ASSUME SettingsInv, NEW s \in Saves, NEW k \in Keys, WriteRow(s, k)
  PROVE  SettingsInv'
<1> DEFINE left == save[s].left \ {k}
           step == IF left = {} THEN [NoSave EXCEPT !.at = "read"]
                   ELSE [save[s] EXCEPT !.left = left]
<1>1. save[s] \in SaveRecord /\ save[s].at = "write" /\ k \in save[s].left
  BY DEF WriteRow, SettingsInv, SettingsTypeOK, SaveRecord
<1>2. save' = [save EXCEPT ![s] = step] /\ UNCHANGED <<form, panel, config, unsure>>
  BY DEF WriteRow, view
<1>3. step \in SaveRecord /\ step.at \in {"write", "read"} /\ (step.at = "write" <=> step.left # {})
  <2>1. CASE left = {}
    BY <2>1, SettingsFacts DEF SaveRecord
  <2>2. CASE left # {}
    BY <1>1, <2>2 DEF SaveRecord
  <2> QED BY <2>1, <2>2
<1>4. saved' \in Rows
  BY <1>1 DEF WriteRow, SettingsInv, SettingsTypeOK, SaveRecord, Rows
<1> HIDE DEF step
<1>5. /\ save' \in [Saves -> SaveRecord] /\ save'[s] = step
      /\ \A u \in Saves : u # s => save'[u] = save[u]
      /\ \A u \in Saves : (save'[u].at = "write") = (save'[u].left # {})
  BY <1>2, <1>3, SaveSteps DEF SettingsInv
<1>6. SettingsTypeOK'
  BY <1>2, <1>4, <1>5 DEF SettingsInv, SettingsTypeOK, SaveRecord
<1>7. AppliedAlone' /\ SavedIsInForce'
  BY <1>1, <1>2, <1>3, <1>5 DEF SettingsInv, AppliedAlone, SavedIsInForce, Applying
<1> QED BY <1>6, <1>7 DEF SettingsInv

LEMMA ReadRowsKeeps ==
  ASSUME SettingsInv, NEW s \in Saves, ReadRows(s)
  PROVE  SettingsInv'
<1> PICK failed \in SUBSET Keys :
      /\ save' = [save EXCEPT ![s].at = "set", ![s].read = Overlay(Default, Found(saved, failed))]
      /\ unsure' = (failed # {} \/ (unsure /\ \E u \in Saves \ {s} : Applying(u)))
  BY DEF ReadRows
<1> DEFINE step == [save[s] EXCEPT !.at = "set", !.read = Overlay(Default, Found(saved, failed))]
<1>1. save[s] \in SaveRecord /\ save[s].at = "read" /\ save[s].left = {} /\ saved \in Rows
  BY DEF ReadRows, SettingsInv, SettingsTypeOK, SaveRecord
<1>2. save' = [save EXCEPT ![s] = step] /\ UNCHANGED <<saved, form, panel, config>>
  BY DEF ReadRows, view, SettingsInv, SettingsTypeOK
<1>3. /\ step \in SaveRecord /\ step.at = "set" /\ step.left = {}
      /\ failed = {} => step.read = Overlay(Default, saved)
  BY <1>1, SettingsFacts DEF SaveRecord
<1> HIDE DEF step
<1>4. /\ save' \in [Saves -> SaveRecord] /\ save'[s] = step
      /\ \A u \in Saves : u # s => save'[u] = save[u]
      /\ \A u \in Saves : (save'[u].at = "write") = (save'[u].left # {})
  BY <1>2, <1>3, SaveSteps DEF SettingsInv
<1>5. SettingsTypeOK'
  BY <1>2, <1>4 DEF SettingsInv, SettingsTypeOK, SaveRecord
<1>6. ~unsure' => failed = {} /\ \A u \in Saves \ {s} : ~Applying(u)
  BY <1>1 DEF SettingsInv, AppliedAlone, Applying
<1>7. AppliedAlone' /\ SavedIsInForce'
  BY <1>2, <1>3, <1>4, <1>6 DEF AppliedAlone, SavedIsInForce, Applying
<1> QED BY <1>5, <1>7 DEF SettingsInv

LEMMA SetConfigKeeps ==
  ASSUME SettingsInv, NEW s \in Saves, SetConfig(s)
  PROVE  SettingsInv'
<1> DEFINE step == [NoSave EXCEPT !.at = "restart"]
<1>1. save[s] \in SaveRecord /\ save[s].at = "set"
  BY DEF SetConfig, SettingsInv, SettingsTypeOK, SaveRecord
<1>2. /\ save' = [save EXCEPT ![s] = step] /\ UNCHANGED <<saved, form, panel, unsure>>
      /\ config' = save[s].read
  BY DEF SetConfig, view
<1>3. step \in SaveRecord /\ step.at = "restart" /\ step.left = {}
  BY SettingsFacts DEF SaveRecord
<1> HIDE DEF step
<1>4. /\ save' \in [Saves -> SaveRecord] /\ save'[s] = step
      /\ \A u \in Saves : u # s => save'[u] = save[u]
      /\ \A u \in Saves : (save'[u].at = "write") = (save'[u].left # {})
  BY <1>2, <1>3, SaveSteps DEF SettingsInv
<1>5. SettingsTypeOK'
  BY <1>1, <1>2, <1>4 DEF SettingsInv, SettingsTypeOK, SaveRecord
<1>6. AppliedAlone' /\ SavedIsInForce'
  BY <1>1, <1>2, <1>3, <1>4 DEF SettingsInv, AppliedAlone, SavedIsInForce, Applying
<1> QED BY <1>5, <1>6 DEF SettingsInv

LEMMA OverKeeps ==
  ASSUME SettingsInv, NEW s \in Saves, WriteFails(s) \/ Restarted(s)
  PROVE  SettingsInv'
<1>1. /\ save' = [save EXCEPT ![s] = NoSave] /\ UNCHANGED <<saved, form, config>>
      /\ panel' = IF panel = s THEN "open" ELSE panel
      /\ unsure' = TRUE \/ (unsure' = unsure /\ save[s].at = "restart")
  BY DEF WriteFails, Restarted, Over
<1>2. /\ save' \in [Saves -> SaveRecord] /\ save'[s] = NoSave
      /\ \A u \in Saves : u # s => save'[u] = save[u]
      /\ \A u \in Saves : (save'[u].at = "write") = (save'[u].left # {})
  BY <1>1, SettingsFacts, SaveSteps DEF SettingsInv
<1>3. SettingsTypeOK'
  BY <1>1, <1>2 DEF SettingsInv, SettingsTypeOK, SaveRecord
<1>4. AppliedAlone' /\ SavedIsInForce'
  BY <1>1, <1>2, SettingsFacts DEF SettingsInv, AppliedAlone, SavedIsInForce, Applying
<1> QED BY <1>3, <1>4 DEF SettingsInv

LEMMA AppStartsKeeps ==
  ASSUME SettingsInv, AppStarts
  PROVE  SettingsInv'
<1> PICK failed \in SUBSET Keys :
      config' = Overlay(Default, Found(saved', failed)) /\ unsure' = (failed # {})
  BY DEF AppStarts
<1>1. /\ saved' \in Rows /\ panel' = "closed" /\ form' = Default
      /\ save' = [s \in Saves |-> NoSave]
  BY DEF AppStarts
<1>2. config' \in Configs /\ (~unsure' => config' = Overlay(Default, saved'))
  BY <1>1, SettingsFacts
<1>3. save' \in [Saves -> SaveRecord] /\ \A s \in Saves : save'[s] = NoSave
  BY <1>1, SettingsFacts
<1> QED
  BY <1>1, <1>2, <1>3, SettingsFacts
  DEF SettingsInv, SettingsTypeOK, SaveRecord, AppliedAlone, SavedIsInForce, Applying

LEMMA SettingsStays == SettingsInv /\ [SettingsNext]_settings => SettingsInv'
BY PanelKeeps, SaveKeeps, WriteRowKeeps, ReadRowsKeeps, SetConfigKeeps, OverKeeps, AppStartsKeeps, Zenon
DEF SettingsNext

\* When no save is being applied, and none failed half-way or overlapped another since,
\* hubs are launched with what the saved rows say, for any settings and any number of
\* saves, wherever the app was closed or died before.
THEOREM SavedStaysInForce == SettingsSpec => []SavedIsInForce
<1>1. SettingsInv => SavedIsInForce
  BY DEF SettingsInv
<1> QED BY <1>1, SettingsStart, SettingsStays, PTL DEF SettingsSpec

-----------------------------------------------------------------------------
(* The session of the admin page (AdminSession).                           *)

\* The page's client and the hub's end of its session alone.
SessionSpec == SessionInit /\ [][SessionNext]_session

CallRecord ==
  [kind   : {"none", "initialize", "initialized", "call"},
   answer : {"none", "ok", "gone", "refused"},
   id     : Maybe]

\* A call has what its request and its answer need; see SessionTypeOK.  The hub answers
\* well only in a session.
FitsRequest(d) ==
  /\ d.kind = "none" => d = Rest
  /\ d.answer = "refused" => d.kind = "call"
  /\ d.answer = "ok" => d.id # NoSid
  /\ d.kind = "initialized" => d.id # NoSid

\* While nothing was forgotten: a call travels with no session or with a live one,
\* comes back with a live one, and is a call of a tool or the notification in a live
\* one only.
IsServed(d, ids) ==
  /\ d.answer \in {"none", "ok"}
  /\ d.id \in ids \cup {NoSid}
  /\ d.answer = "ok" \/ d.kind \in {"initialized", "call"} => d.id \in ids

\* The client has no session, or a live one; it has one when it is ready.
ClientServed == sid \in known \cup {NoSid} /\ (ready => sid \in known)

\* StaysConnected is not inductive: the client is ready once its notification is
\* answered, so it must hold a live session while the notification travels.
SessionInv ==
  /\ SessionTypeOK
  /\ \A k \in PageCalls : FitsRequest(asked[k])
  /\ losses = 0 =>
       /\ ClientServed
       /\ \A k \in PageCalls : IsServed(asked[k], known)
       /\ \A k \in PageCalls : asked[k].kind = "initialized" => sid \in known

LEMMA SessionStart == SessionInit => SessionInv
<1> SUFFICES ASSUME SessionInit PROVE SessionInv OBVIOUS
<1>1. Rest \in CallRecord /\ FitsRequest(Rest) /\ IsServed(Rest, known) /\ Rest.kind = "none"
  BY AdminSessionAssumption DEF CallRecord, FitsRequest, IsServed, Rest, Maybe
<1>2. asked \in [PageCalls -> CallRecord] /\ \A k \in PageCalls : asked[k] = Rest
  BY <1>1 DEF SessionInit
<1>3. sid \in Maybe /\ ready \in BOOLEAN /\ known \subseteq Sids /\ losses \in 0..MaxLosses
  <2>1. sid \in Maybe /\ known \subseteq Sids /\ losses \in 0..MaxLosses
    BY AdminSessionAssumption, SMT DEF SessionInit, Maybe
  <2>2. ready \in BOOLEAN
    BY Zenon DEF SessionInit
  <2> QED BY <2>1, <2>2
<1>4. SessionTypeOK
  BY <1>1, <1>2, <1>3 DEF SessionTypeOK, CallRecord, FitsRequest
<1>5. ClientServed
  BY DEF SessionInit, ClientServed
<1> QED BY <1>1, <1>2, <1>4, <1>5 DEF SessionInv

\* One call moves on, the others are as they were.
LEMMA OneCallMoves ==
  ASSUME SessionInv, NEW k \in PageCalls, NEW d \in CallRecord, FitsRequest(d),
         asked' = [asked EXCEPT ![k] = d],
         sid' \in Maybe, ready' \in BOOLEAN, known \subseteq known', known' \subseteq Sids,
         losses' = losses,
         losses = 0 =>
           /\ ClientServed'
           /\ IsServed(d, known')
           /\ d.kind = "initialized" => sid' \in known'
           /\ sid \in known => sid' \in known'
  PROVE  SessionInv'
<1>1. asked \in [PageCalls -> CallRecord]
  BY DEF SessionInv, SessionTypeOK, CallRecord
<1>2. /\ asked' \in [PageCalls -> CallRecord] /\ asked'[k] = d
      /\ \A j \in PageCalls : j # k => asked'[j] = asked[j]
  BY <1>1
<1>3. SessionTypeOK' /\ \A j \in PageCalls : FitsRequest(asked'[j])
  <2>1. \A j \in PageCalls : FitsRequest(asked'[j])
    BY <1>2 DEF SessionInv
  <2> QED
    BY <1>2, <2>1 DEF SessionInv, SessionTypeOK, FitsRequest, CallRecord, Maybe
<1>4. ASSUME losses' = 0
      PROVE  /\ \A j \in PageCalls : IsServed(asked'[j], known')
             /\ \A j \in PageCalls : asked'[j].kind = "initialized" => sid' \in known'
  BY <1>2, <1>4 DEF SessionInv, IsServed
<1> QED BY <1>3, <1>4 DEF SessionInv, FitsRequest, Rest

\* What a call can become is a record that fits.
LEMMA RequestRecords ==
  /\ Rest \in CallRecord /\ FitsRequest(Rest)
  /\ \A kind \in {"initialize", "call"}, id \in Maybe :
        Request(kind, id) \in CallRecord /\ FitsRequest(Request(kind, id))
  /\ \A id \in Sids :
        /\ Request("initialized", id) \in CallRecord
        /\ FitsRequest(Request("initialized", id))
  /\ NoSid \notin Sids
<1>1. NoSid \notin Sids
  BY AdminSessionAssumption
<1>2. Rest \in CallRecord /\ FitsRequest(Rest)
  BY DEF CallRecord, FitsRequest, Rest, Maybe
<1>3. ASSUME NEW kind \in {"initialize", "call"}, NEW id \in Maybe
      PROVE  Request(kind, id) \in CallRecord /\ FitsRequest(Request(kind, id))
  BY DEF CallRecord, FitsRequest, Request
<1>4. ASSUME NEW id \in Sids
      PROVE  Request("initialized", id) \in CallRecord /\ FitsRequest(Request("initialized", id))
  BY <1>1 DEF CallRecord, FitsRequest, Request, Maybe
<1> QED BY <1>1, <1>2, <1>3, <1>4

\* The calls of a refresh start as the client is: ready ones in its live session.
LEMMA RefreshPageKeeps ==
  ASSUME SessionInv, NEW K \in SUBSET PageCalls, RefreshPage(K)
  PROVE  SessionInv'
<1> DEFINE d == Request(IF ready THEN "call" ELSE "initialize", sid)
<1>1. /\ asked' = [k \in PageCalls |-> IF k \in K THEN d ELSE asked[k]]
      /\ UNCHANGED <<sid, ready, known, losses>>
  BY DEF RefreshPage
<1>2. d \in CallRecord /\ FitsRequest(d)
  BY RequestRecords DEF SessionInv, SessionTypeOK
<1>3. losses = 0 => IsServed(d, known) /\ d.kind # "initialized"
  <2>1. CASE ready
    BY <2>1 DEF SessionInv, ClientServed, IsServed, Request
  <2>2. CASE ~ready
    BY <2>2 DEF SessionInv, ClientServed, IsServed, Request
  <2> QED BY <2>1, <2>2
<1> HIDE DEF d
<1>4. asked' \in [PageCalls -> CallRecord] /\ \A k \in PageCalls : asked'[k] \in {d, asked[k]}
  BY <1>1, <1>2 DEF SessionInv, SessionTypeOK, CallRecord
<1>5. \A k \in PageCalls : FitsRequest(asked'[k])
  BY <1>2, <1>4 DEF SessionInv
<1>6. SessionTypeOK'
  BY <1>1, <1>4, <1>5 DEF SessionInv, SessionTypeOK, FitsRequest, CallRecord, Maybe
<1>7. ASSUME losses' = 0
      PROVE  /\ \A k \in PageCalls : IsServed(asked'[k], known')
             /\ \A k \in PageCalls : asked'[k].kind = "initialized" => sid' \in known'
  BY <1>1, <1>3, <1>4, <1>7 DEF SessionInv, IsServed
<1>8. ClientServed => ClientServed'
  BY <1>1 DEF ClientServed
<1> QED BY <1>1, <1>5, <1>6, <1>7, <1>8 DEF SessionInv, FitsRequest, Rest

\* The client takes an answer, or a call fails.
LEMMA AnsweredKeeps ==
  ASSUME SessionInv, NEW k \in PageCalls, Answered(k) \/ Lost(k)
  PROVE  SessionInv'
<1>1. /\ asked[k] \in CallRecord /\ FitsRequest(asked[k])
      /\ losses = 0 => IsServed(asked[k], known)
      /\ sid \in Maybe /\ ready \in BOOLEAN /\ known \subseteq Sids
  BY DEF SessionInv, SessionTypeOK, CallRecord, FitsRequest
<1>3. CASE Gone(k)
  <2>1. losses # 0
    BY <1>1, <1>3 DEF Gone, IsServed
  <2>2. /\ asked' = [asked EXCEPT ![k] = Rest] /\ UNCHANGED <<known, losses>>
        /\ sid' \in Maybe /\ ready' \in BOOLEAN
    BY <1>3 DEF Gone, Maybe
  <2> QED BY <1>1, <2>1, <2>2, RequestRecords, OneCallMoves
<1>4. CASE Initialized(k)
  <2>1. asked[k].answer = "ok" /\ asked[k].kind = "initialize"
    BY <1>4 DEF Initialized
  <2> DEFINE d == Request("initialized", asked[k].id)
  <2>2. asked[k].id \in Sids
    BY <1>1, <2>1 DEF FitsRequest, CallRecord, Maybe
  <2>3. d \in CallRecord /\ FitsRequest(d)
    BY <2>2, RequestRecords
  <2>4. losses = 0 => asked[k].id \in known /\ IsServed(d, known)
    BY <1>1, <2>1 DEF IsServed, Request
  <2>5. asked' = [asked EXCEPT ![k] = d] /\ sid' = asked[k].id /\ UNCHANGED <<ready, known, losses>>
    BY <1>4 DEF Initialized
  <2>6. sid' \in Maybe /\ ready' \in BOOLEAN /\ (losses = 0 => ClientServed')
    BY <1>1, <2>2, <2>4, <2>5 DEF ClientServed, Maybe
  <2> HIDE DEF d
  <2> QED BY <1>1, <2>3, <2>4, <2>5, <2>6, OneCallMoves
<1>5. CASE Connected(k)
  <2> DEFINE d == Request("call", sid)
  <2>1. d \in CallRecord /\ FitsRequest(d) /\ d.kind = "call"
    BY <1>1, RequestRecords DEF Request
  <2>2. losses = 0 => sid \in known
    BY <1>5 DEF Connected, SessionInv
  <2>3. losses = 0 => IsServed(d, known)
    BY <2>2 DEF IsServed, Request
  <2>4. asked' = [asked EXCEPT ![k] = d] /\ ready' = TRUE /\ UNCHANGED <<sid, known, losses>>
    BY <1>5 DEF Connected
  <2>5. ready' \in BOOLEAN /\ (losses = 0 => ClientServed')
    BY <2>2, <2>4 DEF ClientServed
  <2> HIDE DEF d
  <2> QED BY <1>1, <2>1, <2>2, <2>3, <2>4, <2>5, OneCallMoves
<1>6. CASE Returned(k) \/ Lost(k)
  <2>1. asked' = [asked EXCEPT ![k] = Rest] /\ UNCHANGED <<sid, ready, known, losses>>
    BY <1>6 DEF Returned, Lost
  <2>2. IsServed(Rest, known') /\ Rest.kind = "none"
    BY DEF IsServed, Rest
  <2>3. losses = 0 => ClientServed'
    BY <2>1 DEF SessionInv, ClientServed
  <2> QED BY <1>1, <2>1, <2>2, <2>3, RequestRecords, OneCallMoves
<1> QED BY <1>3, <1>4, <1>5, <1>6 DEF Answered

\* The hub answers.
LEMMA HandledKeeps ==
  ASSUME SessionInv, NEW k \in PageCalls, Handled(k)
  PROVE  SessionInv'
<1> DEFINE kind == asked[k].kind
           id   == asked[k].id
<1>1. /\ asked[k] \in CallRecord /\ FitsRequest(asked[k])
      /\ losses = 0 => IsServed(asked[k], known)
      /\ sid \in Maybe /\ ready \in BOOLEAN /\ known \subseteq Sids
  BY DEF SessionInv, SessionTypeOK, CallRecord
<1>2. kind \in {"initialize", "initialized", "call"} /\ id \in Maybe /\ UNCHANGED <<sid, ready, losses>>
  BY <1>1 DEF Handled, CallRecord
<1>3. kind = "initialized" => id # NoSid
  BY <1>1 DEF FitsRequest
<1>4. \A answer \in {"ok", "gone", "refused"}, i \in Maybe : Reply(kind, answer, i) \in CallRecord
  BY <1>2 DEF CallRecord, Reply
<1>5. losses = 0 => ClientServed /\ (kind = "initialized" => sid \in known)
  BY DEF SessionInv
<1>6. ASSUME known \subseteq known' PROVE ClientServed => ClientServed'
  BY <1>2, <1>6 DEF ClientServed
<1>7. CASE id # NoSid /\ id \notin known /\ UNCHANGED known
           /\ asked' = [asked EXCEPT ![k] = Reply(kind, "gone", id)]
  <2> DEFINE d == Reply(kind, "gone", id)
  <2>1. d \in CallRecord /\ FitsRequest(d)
    BY <1>2, <1>3, <1>4 DEF FitsRequest, Reply
  <2>2. losses # 0
    BY <1>1, <1>7 DEF IsServed
  <2>3. asked' = [asked EXCEPT ![k] = d]
    BY <1>7
  <2> HIDE DEF d
  <2> QED BY <1>1, <1>2, <1>7, <2>1, <2>2, <2>3, OneCallMoves
<1>8. CASE id \in known /\ UNCHANGED known
           /\ asked' = [asked EXCEPT ![k] = Reply(kind, "ok", id)]
  <2> DEFINE d == Reply(kind, "ok", id)
  <2>1. d \in CallRecord /\ FitsRequest(d) /\ d.kind = kind
    BY <1>1, <1>2, <1>3, <1>4, <1>8, AdminSessionAssumption DEF FitsRequest, Reply
  <2>2. IsServed(d, known')
    BY <1>8 DEF IsServed, Reply
  <2>3. losses = 0 => ClientServed' /\ (kind = "initialized" => sid' \in known')
    BY <1>2, <1>5, <1>6, <1>8
  <2>4. asked' = [asked EXCEPT ![k] = d]
    BY <1>8
  <2> HIDE DEF d, kind, id
  <2> QED BY <1>1, <1>2, <1>8, <2>1, <2>2, <2>3, <2>4, OneCallMoves
<1>9. CASE id = NoSid /\ kind = "call" /\ UNCHANGED known
           /\ asked' = [asked EXCEPT ![k] = Reply(kind, "refused", id)]
  <2> DEFINE d == Reply(kind, "refused", id)
  <2>1. d \in CallRecord /\ FitsRequest(d)
    BY <1>2, <1>3, <1>4, <1>9 DEF FitsRequest, Reply
  <2>2. losses # 0
    BY <1>1, <1>9, AdminSessionAssumption DEF IsServed
  <2>3. asked' = [asked EXCEPT ![k] = d]
    BY <1>9
  <2> HIDE DEF d
  <2> QED BY <1>1, <1>2, <1>9, <2>1, <2>2, <2>3, OneCallMoves
<1>10. ASSUME NEW s \in Sids, kind = "initialize", known' = known \cup {s},
             asked' = [asked EXCEPT ![k] = Reply(kind, "ok", s)]
      PROVE  SessionInv'
  <2> DEFINE d == Reply(kind, "ok", s)
  <2>1. d \in CallRecord /\ FitsRequest(d) /\ d.kind = "initialize"
    BY <1>4, <1>10, AdminSessionAssumption DEF FitsRequest, Reply, Maybe
  <2>2. IsServed(d, known')
    BY <1>10 DEF IsServed, Reply
  <2>3. losses = 0 => ClientServed' /\ (sid \in known => sid' \in known')
    BY <1>2, <1>5, <1>6, <1>10
  <2>4. known \subseteq known' /\ known' \subseteq Sids
    BY <1>1, <1>10
  <2>5. asked' = [asked EXCEPT ![k] = d]
    BY <1>10
  <2> HIDE DEF d, kind, id
  <2> QED BY <1>1, <1>2, <1>10, <2>1, <2>2, <2>3, <2>4, <2>5, OneCallMoves
<1>11. ASSUME kind = "initialize", \E s \in Sids : Unused(s),
              LET s == CHOOSE x \in Sids : Unused(x)
              IN /\ known' = known \cup {s}
                 /\ asked' = [asked EXCEPT ![k] = Reply(kind, "ok", s)]
       PROVE  SessionInv'
  <2> DEFINE s == CHOOSE x \in Sids : Unused(x)
  <2>1. s \in Sids BY <1>11
  <2>2. known' = known \cup {s} /\ asked' = [asked EXCEPT ![k] = Reply(kind, "ok", s)]
    BY <1>11
  <2> HIDE DEF s, kind
  <2> QED BY <1>10, <1>11, <2>1, <2>2
<1> QED BY <1>7, <1>8, <1>9, <1>11 DEF Handled

\* The hub forgets sessions: the page's, or one nobody uses any more.
LEMMA ForgettingKeeps ==
  ASSUME SessionInv,
         \/ \E S \in SUBSET known : Forgets(S)
         \/ \E s \in Sids : Sweep(s)
  PROVE  SessionInv'
<1>1. CASE \E S \in SUBSET known : Forgets(S)
  <2>1. /\ known' \subseteq known /\ losses' = losses + 1 /\ losses < MaxLosses
        /\ UNCHANGED <<sid, ready, asked>> /\ losses \in Nat /\ losses \in 0..MaxLosses
    BY <1>1 DEF Forgets, SessionInv, SessionTypeOK
  <2>2. losses' \in 0..MaxLosses /\ losses' # 0
    BY <2>1, AdminSessionAssumption
  <2> QED BY <2>1, <2>2 DEF SessionInv, SessionTypeOK, FitsRequest, Rest
<1>2. ASSUME NEW s \in Sids, Sweep(s) PROVE SessionInv'
  <2>1. /\ known' = known \ {s} /\ s # sid /\ (\A k \in PageCalls : asked[k].id # s)
        /\ UNCHANGED <<sid, ready, asked, losses>>
    BY <1>2 DEF Sweep
  <2>2. losses = 0 => ClientServed' /\ \A k \in PageCalls : IsServed(asked'[k], known')
    BY <2>1 DEF SessionInv, IsServed, ClientServed
  <2> QED BY <2>1, <2>2 DEF SessionInv, SessionTypeOK, FitsRequest, Rest
<1> QED BY <1>1, <1>2

LEMMA SessionStays == SessionInv /\ [SessionNext]_session => SessionInv'
<1>1. ASSUME SessionInv, UNCHANGED session PROVE SessionInv'
  <2>1. UNCHANGED <<sid, ready, known, asked, losses>>
    BY <1>1 DEF session
  <2>2. ClientServed => ClientServed'
    BY <2>1 DEF ClientServed
  <2> QED BY <1>1, <2>1, <2>2 DEF SessionInv, SessionTypeOK, FitsRequest, Rest
<1> QED
  BY <1>1, RefreshPageKeeps, AnsweredKeeps, HandledKeeps, ForgettingKeeps, Zenon DEF SessionNext

\* While the hub forgets no session the page may be using, no call of any refresh is
\* refused or sent in a dead session, for any number of calls, overlaps, lost requests
\* and sweeps (call, connect and rpc of admin/src/lib/mcp.ts).
THEOREM PageStaysConnected == SessionSpec => []StaysConnected
<1>1. SessionInv => StaysConnected
  BY DEF SessionInv, StaysConnected, IsServed, ClientServed
<1> QED BY <1>1, SessionStart, SessionStays, PTL DEF SessionSpec

-----------------------------------------------------------------------------
(* The five together.                                                      *)

\* What each part keeps, the others leave alone.
THEOREM DesktopIsSound ==
  Spec => [](ProcessInv /\ FeedInv /\ RosterTypeOK /\ SettingsInv /\ SessionInv)
<1> DEFINE Kept == ProcessInv /\ FeedInv /\ RosterTypeOK /\ SettingsInv /\ SessionInv
<1>1. Init => Kept
  BY ProcessInvInit, FeedInvInit, RosterInitTyped, SettingsStart, SessionStart DEF Init
<1>2. Kept /\ [Next]_<<part, controller, feed, roster, settings, session>> => Kept'
  <2> SUFFICES ASSUME Kept, [Next]_<<part, controller, feed, roster, settings, session>> PROVE Kept'
    OBVIOUS
  <2>1. /\ [ProcessNext]_controller /\ [FeedNext]_feed /\ [RosterNext]_roster
        /\ [SettingsNext]_settings /\ [SessionNext]_session
    BY DEF Next
  <2> QED BY <2>1, ProcessInvNext, FeedInvNext, RosterNextTyped, SettingsStays, SessionStays
<1> QED BY <1>1, <1>2, PTL DEF Spec

\* The controller, the message feed, the roster, the settings and the session of the
\* admin page keep their types.
THEOREM DesktopTypeOK == Spec => []TypeOK
<1>1. ProcessInv /\ FeedInv /\ RosterTypeOK /\ SettingsInv /\ SessionInv => TypeOK
  BY InvIsTyped DEF FeedInv, SettingsInv, SessionInv, TypeOK
<1> QED BY <1>1, DesktopIsSound, PTL

=============================================================================
