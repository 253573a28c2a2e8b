------------------------------ MODULE Terminals ------------------------------
(***************************************************************************)
(* The terminals behind the peers: the runners of runner.ts and the        *)
(* bridge_agent and bridge_pane tools type into panes of the herdr         *)
(* terminal runtime through herdr-ctl.ts, and index.ts runs one task of a  *)
(* peer at a time (runnerQueue).                                           *)
(*                                                                         *)
(* herdr is external.  A request to it, by its CLI or its socket, may fail *)
(* before it had its effect or after, and a failed CLI call tells nothing  *)
(* about the pane.  A runner types into the pane named like its peer, the  *)
(* default of RunnerConfig.target, so that no two runners share one.       *)
(***************************************************************************)
EXTENDS Naturals, FiniteSets, Sequences, SequencesExt

CONSTANTS
  HerdrPeers,  \* the peers whose runner types into their pane; also the panes
  CliPeers,    \* the peers whose runner is a command
  Runs,        \* bound: tasks handed to a runner
  Calls,       \* bound: calls of the control tools at the same time
  None

ASSUME TerminalAssumption ==
  /\ HerdrPeers \cap CliPeers = {} /\ Runs \cap Calls = {}
  /\ None \notin HerdrPeers \cup CliPeers

RunnerPeers == HerdrPeers \cup CliPeers
Typists == Runs \cup Calls

VARIABLES
  runnerQueue,  \* peer -> its runs that have not ended, in order
  typing,       \* what each run or call does
  result,       \* run -> its RunResult.status
  task,         \* run -> its ledger row: "open", "closed" (it is terminal), or "cut_off"
  working,      \* the panes whose program works
  line,         \* pane -> who typed what stands in its input line
  submitted     \* history: the sets of two or more runs whose texts were submitted as one

terminals == <<runnerQueue, typing, result, task, working, line, submitted>>

NotTyping == [op |-> "none", at |-> "idle", pane |-> None, wait |-> FALSE,
              seen |-> "none", stable |-> 0]

TerminalInit ==
  /\ runnerQueue = [p \in RunnerPeers |-> <<>>]
  /\ typing = [c \in Typists |-> NotTyping]
  /\ result = [r \in Runs |-> "none"]
  /\ task = [r \in Runs |-> "open"]
  /\ working = {}
  /\ line = [p \in HerdrPeers |-> {}]
  /\ submitted = {}

Pane(c) == typing[c].pane
At(c, at) == typing[c].at = at
GoTo(c, at) == typing' = [typing EXCEPT ![c].at = at]

-----------------------------------------------------------------------------
(* How a run or a call ends.                                               *)

\* The result is the peer's ack.  It closes a row of the peer that is open.  For a
\* row that is cut off it is routed and not applied, or ackForRunner throws: then
\* it is repeated once, as a failure, which throws again, and that is ignored.
EndRun(r, status) ==
  /\ result' = [result EXCEPT ![r] = status]
  /\ task' = [task EXCEPT ![r] = IF @ = "open" THEN "closed" ELSE @]
  /\ runnerQueue' = [runnerQueue EXCEPT ![Pane(r)] = Tail(@)]
  /\ typing' = [typing EXCEPT ![r] = NotTyping]

EndCall(c) ==
  /\ typing' = [typing EXCEPT ![c] = NotTyping]
  /\ UNCHANGED <<runnerQueue, result, task>>

Fails(c)    == IF c \in Runs THEN EndRun(c, "failed") ELSE EndCall(c)
Continue(c, at) == GoTo(c, at) /\ UNCHANGED <<runnerQueue, result, task>>
\* promptSmart has returned: a run reads back what the pane shows.
Prompted(c) == IF c \in Runs THEN Continue(c, "read") ELSE EndCall(c)

\* A request had its effect or not, and its caller is told that it succeeded
\* only when it had.
Requested(c, effect, success) ==
  \/ effect /\ success
  \/ effect /\ Fails(c)
  \/ UNCHANGED <<working, line, submitted>> /\ Fails(c)

SubmitText(p, typists) ==
  /\ submitted' = submitted \cup {mixed \in {typists \cap Runs} : Cardinality(mixed) > 1}
  /\ working' = IF typists = {} THEN working ELSE working \cup {p}
  /\ line' = [line EXCEPT ![p] = {}]

-----------------------------------------------------------------------------
(* The runners.                                                            *)

\* runTask: the chain of the peer's runs gets one more.
TaskQueued(r, p) ==
  /\ At(r, "idle") /\ result[r] = "none"
  /\ typing' = [typing EXCEPT ![r] =
       [NotTyping EXCEPT !.op = "prompt", !.at = "queued", !.pane = p, !.wait = TRUE]]
  /\ runnerQueue' = [runnerQueue EXCEPT ![p] = Append(@, r)]
  /\ UNCHANGED <<result, task, working, line, submitted>>

\* Mutant: the run does not wait for the previous one.
StartAtOnce(r) ==
  /\ At(r, "queued")
  /\ GoTo(r, IF Pane(r) \in CliPeers THEN "exec" ELSE "detect")
  /\ UNCHANGED <<runnerQueue, result, task, working, line, submitted>>

Start(r) ==
  /\ At(r, "queued") /\ Head(runnerQueue[Pane(r)]) = r
  /\ GoTo(r, IF Pane(r) \in CliPeers THEN "exec" ELSE "detect")
  /\ UNCHANGED <<runnerQueue, result, task, working, line, submitted>>

\* A command exits, with an error or not, or is killed when its time is up.
Exec(r) ==
  /\ At(r, "exec")
  /\ EndRun(r, "done") \/ EndRun(r, "failed")
  /\ UNCHANGED <<working, line, submitted>>

(* The ledger row while the run is under way.                              *)

\* It gets terminal otherwise: an ack of its peer, the deadline, a cancel.
TaskCloses(r) ==
  /\ ~At(r, "idle") /\ task[r] # "closed"
  /\ task' = [task EXCEPT ![r] = "closed"]
  /\ UNCHANGED <<runnerQueue, typing, result, working, line, submitted>>

\* No ack under the name the runner has closes the row from now on: a rename made
\* it another peer's, the sender is gone, so that route throws, or the ledger has
\* forgotten the task.
CutOff(r) ==
  /\ ~At(r, "idle") /\ task[r] = "open"
  /\ task' = [task EXCEPT ![r] = "cut_off"]
  /\ UNCHANGED <<runnerQueue, typing, result, working, line, submitted>>

\* The peer has its name again, or the sender is back.
Restored(r) ==
  /\ ~At(r, "idle") /\ task[r] = "cut_off"
  /\ task' = [task EXCEPT ![r] = "open"]
  /\ UNCHANGED <<runnerQueue, typing, result, working, line, submitted>>

-----------------------------------------------------------------------------
(* The control tools: each begins a call, which ends at once or later.     *)

BeginCall(c, op, at, p, wait) ==
  /\ At(c, "idle")
  /\ typing' = [typing EXCEPT ![c] =
       [NotTyping EXCEPT !.op = op, !.at = at, !.pane = p, !.wait = wait]]
  /\ UNCHANGED <<runnerQueue, result, task, working, line, submitted>>

AgentPrompt(c, p, wait) == BeginCall(c, "prompt", "detect", p, wait)
AgentWait(c, p)         == BeginCall(c, "wait", "detect", p, TRUE)
AgentKeys(c, p)         == BeginCall(c, "keys", "detect", p, FALSE)
AgentRead(c, p)         == BeginCall(c, "read", "read", p, FALSE)
PaneSend(c, p, enter)   == BeginCall(c, IF enter THEN "prompt" ELSE "send", "type", p, FALSE)
PaneKeys(c, p)          == BeginCall(c, "keys", "press", p, FALSE)
PaneWait(c, p)          == BeginCall(c, "wait", "match", p, TRUE)

-----------------------------------------------------------------------------
(* promptSmart, waitSmart and keysSmart.                                   *)

\* detectTarget: when herdr does not recognize the pane, and whatever is wrong
\* with the CLI, the target counts as a pane.
Detect(c, channel) ==
  /\ At(c, "detect")
  /\ GoTo(c, CASE typing[c].op = "keys" -> "press"
               [] typing[c].op = "wait"   /\ channel = "agent" -> "agent_wait"
               [] typing[c].op = "wait"   /\ channel = "pane"  -> "settle"
               [] typing[c].op = "prompt" /\ channel = "agent" -> "submit"
               [] typing[c].op = "prompt" /\ channel = "pane"  -> "type")
  /\ UNCHANGED <<runnerQueue, result, task, working, line, submitted>>

\* agent.prompt submits the text behind what stands in the line.
Submit(c) ==
  /\ At(c, "submit")
  /\ Requested(c, SubmitText(Pane(c), line[Pane(c)] \cup {c}),
               IF typing[c].wait THEN Continue(c, "agent_wait") ELSE Prompted(c))

\* agent.wait, or agent.prompt that waits: until the agent settles.
AgentSettled(c) ==
  /\ At(c, "agent_wait") /\ Pane(c) \notin working
  /\ Prompted(c)
  /\ UNCHANGED <<working, line, submitted>>

\* The CLI reports an error, or is killed when its time is up.
AgentWaitFails(c) ==
  /\ At(c, "agent_wait")
  /\ Fails(c)
  /\ UNCHANGED <<working, line, submitted>>

\* pane.send_input.
Type(c) ==
  LET effect == line' = [line EXCEPT ![Pane(c)] = @ \cup {c}] /\ UNCHANGED <<working, submitted>>
  IN /\ At(c, "type")
     /\ Requested(c, effect, IF typing[c].op = "send" THEN EndCall(c) ELSE Continue(c, "enter"))

\* pane.send_keys with Enter.
Enter(c) ==
  /\ At(c, "enter")
  /\ Requested(c, SubmitText(Pane(c), line[Pane(c)]),
               IF typing[c].wait THEN Continue(c, "settle") ELSE Prompted(c))

\* Raw keys: Enter submits the line, others clear it or do something else.
Press(c) ==
  LET effect == \/ SubmitText(Pane(c), line[Pane(c)])
                \/ line' = [line EXCEPT ![Pane(c)] = {}] /\ UNCHANGED <<working, submitted>>
                \/ UNCHANGED <<working, line, submitted>>
  IN /\ At(c, "press")
     /\ Requested(c, effect, EndCall(c))

\* waitForPaneSettled: a poll sees the revision of the previous one or another,
\* and two in a row that see the same settle the pane.  A poll that fails counts
\* for nothing.
StableTarget == 2

Poll(c) ==
  /\ At(c, "settle")
  /\ IF typing[c].seen = "same" /\ typing[c].stable + 1 = StableTarget
     THEN Prompted(c)
     ELSE /\ typing' = [typing EXCEPT ![c].stable = IF typing[c].seen = "same" THEN @ + 1 ELSE 0,
                                      ![c].seen = "same"]
          /\ UNCHANGED <<runnerQueue, result, task>>
  /\ UNCHANGED <<working, line, submitted>>

\* Mutant: a pane whose output never stops is waited for without an end.
OutOfTimeNever(c) ==
  /\ At(c, "settle") /\ Pane(c) \notin working
  /\ Prompted(c)
  /\ UNCHANGED <<working, line, submitted>>

\* The budget is used up: that is an answer too.
OutOfTime(c) ==
  /\ At(c, "settle")
  /\ Prompted(c)
  /\ UNCHANGED <<working, line, submitted>>

\* pane.wait_for_output: a match, a time-out or an error.
Matched(c) ==
  /\ At(c, "match")
  /\ EndCall(c)
  /\ UNCHANGED <<working, line, submitted>>

\* readSmart: what the pane shows becomes the note of a run that is done.
Read(c) ==
  /\ At(c, "read")
  /\ IF c \in Runs THEN EndRun(c, "done") ELSE EndCall(c)
  /\ UNCHANGED <<working, line, submitted>>

ReadFails(c) ==
  /\ At(c, "read")
  /\ Fails(c)
  /\ UNCHANGED <<working, line, submitted>>

-----------------------------------------------------------------------------
(* The panes.                                                              *)

\* Something is written to the pane: every poll that has seen it before will see
\* that it has changed.
Output(p) ==
  /\ typing' = [c \in Typists |->
       IF Pane(c) = p /\ typing[c].seen = "same" THEN [typing[c] EXCEPT !.seen = "changed"]
       ELSE typing[c]]
  /\ UNCHANGED <<runnerQueue, result, task, working, line, submitted>>

Settles(p) ==
  /\ p \in working
  /\ working' = working \ {p}
  /\ UNCHANGED <<runnerQueue, typing, result, task, line, submitted>>

-----------------------------------------------------------------------------

\* Every step of a run or a call but its polls.
TypistSteps(c) ==
  \/ \E channel \in {"agent", "pane"} : Detect(c, channel)
  \/ Submit(c) \/ AgentSettled(c) \/ AgentWaitFails(c)
  \/ Type(c) \/ Enter(c) \/ Press(c) \/ OutOfTime(c) \/ Matched(c)
  \/ Read(c) \/ ReadFails(c)

RunSteps(r) == Start(r) \/ Exec(r) \/ TypistSteps(r)

CallBegins(c, p) ==
  \/ \E wait \in BOOLEAN : AgentPrompt(c, p, wait) \/ PaneSend(c, p, wait)
  \/ AgentWait(c, p) \/ AgentKeys(c, p) \/ AgentRead(c, p)
  \/ PaneKeys(c, p) \/ PaneWait(c, p)

TerminalNext ==
  \/ \E r \in Runs : \/ RunSteps(r) \/ TaskCloses(r) \/ CutOff(r) \/ Restored(r)
                     \/ \E p \in RunnerPeers : TaskQueued(r, p)
  \/ \E c \in Calls : TypistSteps(c) \/ \E p \in HerdrPeers : CallBegins(c, p)
  \/ \E c \in Typists : Poll(c)
  \/ \E p \in HerdrPeers : Output(p) \/ Settles(p)

\* Processes exit or are killed, requests are answered or time out, and timers
\* fire.  Nothing is assumed of the programs in the panes.
TerminalFairness == \A r \in Runs : WF_terminals(RunSteps(r))

-----------------------------------------------------------------------------
(* Properties.                                                             *)

\* The types; a peer's queue holds its runs that have not ended, and only its
\* first one is under way.
TerminalTypeOK ==
  /\ runnerQueue \in [RunnerPeers -> Seq(Runs)]
  /\ \A c \in Typists :
       /\ typing[c].at \in {"idle", "queued", "exec", "detect", "submit", "agent_wait", "type",
                            "enter", "press", "settle", "match", "read"}
       /\ typing[c].seen \in {"none", "same", "changed"} /\ typing[c].stable \in 0..(StableTarget - 1)
       /\ (typing[c].pane = None) = (typing[c].at = "idle")
  /\ \A p \in RunnerPeers :
       /\ IsInjective(runnerQueue[p])
       /\ ToSet(runnerQueue[p]) = {r \in Runs : Pane(r) = p}
  /\ result \in [Runs -> {"none", "done", "failed"}]
  /\ task \in [Runs -> {"open", "cut_off", "closed"}]
  /\ working \subseteq HerdrPeers
  /\ line \in [HerdrPeers -> SUBSET Typists]
  /\ submitted \subseteq SUBSET Runs

\* What index.ts promises of its queue: the inputs of two runs are not mixed,
\* unless all of them but one failed on the way to the Enter key.
InputsApart ==
  \A mixed \in submitted : Cardinality({r \in mixed : result[r] # "failed"}) <= 1

\* Every task handed to a runner gets a result, whatever its pane does, whichever
\* requests are lost and whoever types into the pane meanwhile; and a row that can
\* be reached when the result is there is closed.  A row that is cut off at that
\* moment stays open for good: nobody repeats the ack (runTask in index.ts).
RunsAreAnswered ==
  \A r \in Runs : ~At(r, "idle") ~> (result[r] # "none" /\ task[r] # "open")

=============================================================================
