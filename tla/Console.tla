------------------------------- MODULE Console -------------------------------
(***************************************************************************)
(* One debugging session end to end, from a loaded graph on: the panel      *)
(* (webview/src/model.ts reduce and the buttons of App.tsx), the extension  *)
(* host with its run recorder (extension.ts, runRecorder.ts), the relay     *)
(* (server.py) and the worker, which takes the commands and emits what      *)
(* RunProtocol allows; Worker is the module that implements that protocol.  *)
(*                                                                         *)
(* Events travel worker -> extension (`up`) -> panel (`shows`), commands    *)
(* panel -> worker (`queue`), each in order and each with any delay: the    *)
(* panel decides on what it has been shown so far.  A command that is slow  *)
(* to reach the worker is, for everyone else, one posted later from the     *)
(* same stale panel, so posting and reading it are one step; and a Stop     *)
(* that is read between the worker's look at the flag and its next event    *)
(* is one posted just after that event.                                     *)
(***************************************************************************)
EXTENDS Naturals, FiniteSets, SequencesExt, Subsequences

CONSTANTS Nodes,     \* nodes of the graph
          MaxPosts,  \* bound: commands the user posts
          MaxNodes   \* bound: node runs, but for the one a resumed stream begins with

ASSUME BoundsAssumption == MaxPosts \in Nat /\ MaxNodes \in Nat

VARIABLES
  panel,    \* CanvasState: what the controls depend on
  posts,    \* commands posted so far; a Run's input is the number of its post
  queue,    \* commands on their way to the worker, and read but not taken
  phase,    \* the worker, as RunProtocol has it
  out,      \* the events of the worker's last step
  flag,     \* the worker's abort flag
  at,       \* the node it last reported
  due,      \* what a stream runs first: "another" node after a breakpoint or a fork to a
            \* node, "again" one of this run's after an interrupt; else "any" or none
  ran,      \* node runs so far
  alive,    \* the worker process lives
  up,       \* events on their way to the extension
  cut,      \* history: the relay broke with events it had not forwarded
  shows,    \* events on their way to the panel
  rec,      \* the recorder: pendingInput, and cur when `open`
  saved,    \* the records appended to runs.jsonl
  runs,     \* history: the runs, as the worker ran them
  crossed,  \* history: a start_run was posted while another was under way
  refused   \* history: an error that no started node raised, and no run has finished since

worker == <<phase, out, flag, at, due, ran, alive, runs, refused>>
vars == <<panel, posts, queue, worker, up, cut, shows, rec, saved, crossed>>

Proto == INSTANCE RunProtocol WITH HasCheckpointer <- TRUE

Nowhere == "nowhere"
Live == phase \in {"running", "manual", "breakpoint"}

Init ==
  /\ panel = [running |-> FALSE, paused |-> FALSE, pending |-> FALSE, timeline |-> FALSE]
  /\ posts = 0 /\ queue = <<>>
  /\ Proto!Init /\ flag = FALSE /\ at = Nowhere /\ due = "any" /\ ran = 0 /\ alive = TRUE
  /\ up = <<>> /\ cut = FALSE /\ shows = <<>>
  /\ rec = [pendingInput |-> 0, open |-> FALSE, input |-> 0, nodePath |-> <<>>]
  /\ saved = <<>> /\ runs = <<>>
  /\ crossed = FALSE /\ refused = FALSE

-----------------------------------------------------------------------------
(* The panel's controls.                                                   *)

StopOffered == panel.running \/ panel.paused \/ panel.pending

\* A start_run that has not reached its run_started, or whose run_started is on its way.
StartUnderWay ==
  \/ \E k \in DOMAIN queue : queue[k].cmd = "start_run"
  \/ \E k \in DOMAIN up : up[k].ev = "run_started"

\* A command for a dead worker breaks the relay: what its pump has not forwarded by then
\* is lost.
RelayBreaks ==
  \E k \in 0 .. Len(up) : up' = SubSeq(up, 1, k) /\ cut' = (cut \/ k < Len(up))

\* onDidReceiveMessage: the recorder sees the command, then the socket takes it.  The
\* worker's reader thread raises the flag ahead of the queue.
Post(cmd) ==
  /\ posts < MaxPosts /\ posts' = posts + 1
  /\ queue' = IF alive THEN Append(queue, cmd) ELSE queue
  /\ flag' = (flag \/ (alive /\ cmd.cmd = "cancel"))
  /\ rec' = IF cmd.cmd = "start_run" THEN [rec EXCEPT !.pendingInput = cmd.input] ELSE rec
  /\ crossed' = (crossed \/ (cmd.cmd = "start_run"
                               /\ (StartUnderWay \/ (cmd.input # 0 /\ phase # "idle"))))
  /\ IF alive THEN UNCHANGED <<up, cut>> ELSE RelayBreaks
  /\ UNCHANGED <<panel, phase, out, at, due, ran, alive, shows, saved, runs, refused>>

ClickRun      == ~panel.running /\ Post([cmd |-> "start_run", input |-> posts + 1])
ClickContinue == panel.paused /\ Post([cmd |-> "start_run", input |-> 0])
ClickStep     == panel.paused /\ Post([cmd |-> "step"])
ClickFork     == (panel.timeline \/ panel.paused) /\ Post([cmd |-> "fork"])
ClickAnswer   == panel.pending /\ Post([cmd |-> "resume"])
ClickStop     == StopOffered /\ Post([cmd |-> "cancel"])

-----------------------------------------------------------------------------
(* The worker: RunProtocol driven by the commands.                         *)

\* The events the panel and the recorder look at, with the node of the moment.
Carried == {"run_started", "node_start", "breakpoint_hit", "manual_inference_required",
            "checkpoint_history", "run_finished(completed)", "run_finished(aborted)", "error"}

Emits ==
  LET seen == At(out', {k \in DOMAIN out' : out'[k] \in Carried})
  IN  up' = up \o [k \in DOMAIN seen |-> [ev |-> seen[k], node |-> at']]

WorkerOnly == alive /\ Emits /\ UNCHANGED <<panel, posts, cut, shows, rec, saved, crossed, alive>>

\* _to_worker keeps the order; the worker takes one line at a time.
Takes(cmds) ==
  /\ queue # <<>> /\ Head(queue).cmd \in cmds
  /\ queue' = Tail(queue)

\* history: the current run ends or is replaced, a new one begins.
Ends(status) == [runs EXCEPT ![Len(runs)].status = status]
Begun(sofar, input) == Append(sofar, [input |-> input, path |-> <<>>, status |-> "live"])

\* _run: the flag is cleared, run_started is sent.
TakesRun ==
  /\ Takes({"start_run"}) /\ Proto!Starts
  /\ flag' = FALSE /\ due' = "any"
  /\ runs' = Begun(runs, Head(queue).input)
  /\ UNCHANGED <<at, ran, refused>> /\ WorkerOnly

\* A node runs: after an answer one that the interrupt was in, once more.  Of nodes that run
\* in parallel this need not be the last one reported.
NodeRuns ==
  /\ Proto!NodeEvent /\ out' = <<"node_start">>
  /\ ~flag /\ (due = "any" => ran < MaxNodes) /\ ran' = ran + 1
  /\ \E n \in Nodes :
       /\ due = "again" => n \in Range(runs[Len(runs)].path)
       /\ at' = n /\ runs' = [runs EXCEPT ![Len(runs)].path = Append(@, n)]
  /\ due' = "any"
  /\ UNCHANGED <<queue, flag, refused>> /\ WorkerOnly

PausesManually ==
  /\ Proto!PausesForAnswer
  /\ due = "any" /\ runs[Len(runs)].path # <<>> /\ due' = "again"
  /\ UNCHANGED <<queue, flag, at, ran, runs, refused>> /\ WorkerOnly

PausesAtBreakpoint ==
  /\ Proto!PausesAtNode
  /\ due = "any" /\ due' = "another"
  /\ UNCHANGED <<queue, flag, at, ran, runs, refused>> /\ WorkerOnly

Completes ==
  /\ Proto!Completes /\ due = "any"
  /\ runs' = Ends("run_finished(completed)") /\ refused' = FALSE
  /\ UNCHANGED <<queue, flag, at, due, ran>> /\ WorkerOnly

\* The stream sees the flag and the run is over.
AbortsStream ==
  /\ phase = "running" /\ Proto!Aborts
  /\ flag /\ flag' = FALSE
  /\ runs' = Ends("run_finished(aborted)") /\ refused' = FALSE
  /\ UNCHANGED <<queue, at, due, ran>> /\ WorkerOnly

\* Mutation of AbortsPause: the pause leaves the abort to the flag.
AbortsPause_Dropped ==
  /\ phase # "running" /\ phase # "idle" /\ Proto!Quiet /\ Takes({"cancel"})
  /\ UNCHANGED <<flag, at, due, ran, runs, refused>> /\ WorkerOnly

\* The abort is taken off the queue at a pause; the flag stays up.
AbortsPause ==
  /\ phase # "running" /\ Proto!Aborts /\ Takes({"cancel"})
  /\ runs' = Ends("run_finished(aborted)") /\ refused' = FALSE
  /\ UNCHANGED <<flag, at, due, ran>> /\ WorkerOnly

\* The stream raises: in a node, or before it has started one.
Fails ==
  /\ phase = "running" /\ Proto!Fails
  /\ refused' = (refused \/ due # "any" \/ runs[Len(runs)].path = <<>>)
  /\ runs' = Ends("error")
  /\ UNCHANGED <<queue, flag, at, due, ran>> /\ WorkerOnly

\* Step, or start_run / resume as Continue, at a breakpoint; an answer at an interrupt.
Advances ==
  /\ Proto!Continues /\ out' = <<>>
  /\ Takes(IF phase = "breakpoint" THEN {"step", "start_run", "resume"} ELSE {"resume"})
  /\ UNCHANGED <<flag, at, due, ran, runs, refused>> /\ WorkerOnly

\* A fork opens the run again from an older checkpoint: one before a node, which runs
\* then, or the one before __start__, after which a breakpoint may come before any node.
Forks ==
  /\ Proto!Continues /\ out' = <<"run_started">> /\ Takes({"fork"})
  /\ due' \in {"another", "any"}
  /\ runs' = Begun(Ends("forked"), 0)
  /\ UNCHANGED <<flag, at, ran, refused>> /\ WorkerOnly

\* An answer of the wrong kind, a checkpoint that does not exist.
Refuses ==
  /\ Proto!Refuses /\ Takes(IF phase = "manual" THEN {"resume", "fork"} ELSE {"fork"})
  /\ refused' = TRUE
  /\ UNCHANGED <<flag, at, due, ran, runs>> /\ WorkerOnly

\* update_state raises on the fork's override: the run is over.
ForkRaises ==
  /\ phase # "running" /\ Proto!Fails /\ Takes({"fork"})
  /\ runs' = Ends("error") /\ refused' = TRUE
  /\ UNCHANGED <<flag, at, due, ran>> /\ WorkerOnly

\* A command that does not fit the wait is dropped.
Drops ==
  /\ Proto!Quiet
  /\ \/ phase = "idle" /\ Takes({"step", "fork", "resume", "cancel"})
     \/ phase = "manual" /\ Takes({"start_run", "step"})
  /\ UNCHANGED <<flag, at, due, ran, runs, refused>> /\ WorkerOnly

\* The worker process dies; the relay forwards what it has written and waits for commands.
WorkerDies ==
  /\ alive /\ alive' = FALSE
  /\ queue' = <<>>
  /\ UNCHANGED <<panel, posts, phase, out, flag, at, due, ran, runs, refused, up, cut, shows,
                 rec, saved, crossed>>

-----------------------------------------------------------------------------
(* The extension: RunRecorder.onEvent, then the panel.                     *)

\* Mutation of Opened: a run_started during a run does not replace the open record.
Opened_Kept(r) ==
  IF r.open THEN r
  ELSE [pendingInput |-> 0, open |-> TRUE, input |-> r.pendingInput, nodePath |-> <<>>]

\* Mutation of Opened: the input stays pending and is used for the next run too.
Opened_InputKept(r) ==
  [pendingInput |-> r.pendingInput, open |-> TRUE, input |-> r.pendingInput, nodePath |-> <<>>]

\* run_started replaces the open record, if any, and takes the pending input.
Opened(r) == [pendingInput |-> 0, open |-> TRUE, input |-> r.pendingInput, nodePath |-> <<>>]

\* node_start extends the path, unless it repeats its last node.
Visited(r, n) ==
  IF r.nodePath # <<>> /\ Last(r.nodePath) = n THEN r ELSE [r EXCEPT !.nodePath = Append(@, n)]

FinishedEvents == {"run_finished(completed)", "run_finished(aborted)"}

\* onEvent, what it keeps.
OnEvent(r, e) ==
  CASE e.ev = "run_started" -> Opened(r)
    [] e.ev = "node_start" /\ r.open -> Visited(r, e.node)
    [] e.ev \in FinishedEvents -> [r EXCEPT !.open = FALSE]
    [] OTHER -> r

\* onEvent, what it returns, appended by recordRun.
Finished(r, e) ==
  IF e.ev \in FinishedEvents /\ r.open
  THEN <<[input |-> r.input, nodePath |-> r.nodePath, status |-> e.ev]>> ELSE <<>>

\* onServerEvent.
Records ==
  /\ up # <<>> /\ up' = Tail(up)
  /\ rec' = OnEvent(rec, Head(up))
  /\ shows' = Append(shows, Head(up))
  /\ saved' = saved \o Finished(rec, Head(up))
  /\ UNCHANGED <<panel, posts, queue, worker, cut, crossed>>

\* Mutation of Reduce: a node that starts does not clear the breakpoint pause.
Reduce_PauseKept(p, ev) ==
  CASE ev = "run_started" -> [p EXCEPT !.running = TRUE, !.paused = FALSE, !.timeline = FALSE]
    [] ev = "node_start" -> [p EXCEPT !.pending = FALSE]
    [] ev = "breakpoint_hit" -> [p EXCEPT !.paused = TRUE]
    [] ev = "manual_inference_required" -> [p EXCEPT !.pending = TRUE]
    [] ev = "checkpoint_history" -> [p EXCEPT !.timeline = TRUE]
    [] ev \in FinishedEvents -> [p EXCEPT !.running = FALSE, !.pending = FALSE, !.paused = FALSE]
    [] ev = "error" -> [p EXCEPT !.running = FALSE]

\* reduce.
Reduce(p, ev) ==
  CASE ev = "run_started" -> [p EXCEPT !.running = TRUE, !.paused = FALSE, !.timeline = FALSE]
    [] ev = "node_start" -> [p EXCEPT !.pending = FALSE, !.paused = FALSE]
    [] ev = "breakpoint_hit" -> [p EXCEPT !.paused = TRUE]
    [] ev = "manual_inference_required" -> [p EXCEPT !.pending = TRUE]
    [] ev = "checkpoint_history" -> [p EXCEPT !.timeline = TRUE]
    [] ev \in FinishedEvents -> [p EXCEPT !.running = FALSE, !.pending = FALSE, !.paused = FALSE]
    [] ev = "error" -> [p EXCEPT !.running = FALSE]

\* The panel's message handler.
Shows ==
  /\ shows # <<>> /\ shows' = Tail(shows)
  /\ panel' = Reduce(panel, Head(shows).ev)
  /\ UNCHANGED <<posts, queue, worker, up, cut, rec, saved, crossed>>

-----------------------------------------------------------------------------
User == \/ ClickRun \/ ClickContinue \/ ClickStep \/ ClickFork \/ ClickAnswer \/ ClickStop

Worker == \/ TakesRun \/ NodeRuns \/ PausesManually \/ PausesAtBreakpoint \/ Completes
          \/ AbortsStream \/ AbortsPause \/ Fails \/ Advances \/ Forks
          \/ Refuses \/ ForkRaises \/ Drops

Next == User \/ Worker \/ WorkerDies \/ Records \/ Shows

Spec == Init /\ [][Next]_vars

\* The worker's coroutine, the extension host and the webview are scheduled; the user need
\* not click and the worker need not die.
FairSpec == Spec /\ WF_vars(Worker) /\ WF_vars(Records) /\ WF_vars(Shows)

-----------------------------------------------------------------------------
(* Correctness.                                                            *)

Statuses == FinishedEvents \cup {"live", "forked", "error"}
Inputs == 0 .. MaxPosts

\* The types; the worker has a current run exactly while it is live; and an input that is
\* still pending is that of a start under way.
TypeOK ==
  /\ panel \in [running : BOOLEAN, paused : BOOLEAN, pending : BOOLEAN, timeline : BOOLEAN]
  /\ posts \in Inputs /\ ran \in 0 .. MaxNodes + MaxPosts
  /\ phase \in {"idle", "running", "manual", "breakpoint"}
  /\ flag \in BOOLEAN /\ at \in Nodes \cup {Nowhere} /\ due \in {"any", "another", "again"}
  /\ alive \in BOOLEAN /\ cut \in BOOLEAN /\ crossed \in BOOLEAN /\ refused \in BOOLEAN
  /\ rec \in [pendingInput : Inputs, open : BOOLEAN, input : Inputs, nodePath : Seq(Nodes)]
  /\ \A k \in DOMAIN saved : saved[k] \in [input : Inputs, nodePath : Seq(Nodes), status : FinishedEvents]
  /\ \A k \in DOMAIN runs : runs[k] \in [input : Inputs, path : Seq(Nodes), status : Statuses]
  /\ \A k \in DOMAIN runs : runs[k].status = "live" <=> Live /\ k = Len(runs)
  /\ alive /\ ~crossed /\ rec.pendingInput # 0 => StartUnderWay
  /\ alive => ~cut

\* Nothing is on its way.
Delivered == queue = <<>> /\ up = <<>> /\ shows = <<>>

\* The runs that finished, in the order they did.
Ran == At(runs, {k \in DOMAIN runs : runs[k].status \in FinishedEvents})

\* A node path without its consecutive repeats.
Collapsed(path) == At(path, {k \in DOMAIN path : k = 1 \/ path[k] # path[k - 1]})

\* The history tells the runs that finished, each once, in order and with the nodes that
\* started in it, repeats in a row taken together: nothing of a run a fork left behind, and
\* none is missing once every event has arrived, unless the relay broke before it.
HistoryTrue ==
  /\ Len(saved) <= Len(Ran)
  /\ \A k \in DOMAIN saved :
       saved[k].status = Ran[k].status /\ saved[k].nodePath = Collapsed(Ran[k].path)
  /\ up = <<>> /\ ~cut => Len(saved) = Len(Ran)

\* runhistory.ts:35, a record's input is "the start_run input": while no start_run is
\* posted before the one under way has been answered, a record has the input its run was
\* started with, and a fork's record has none.
InputRecorded == ~crossed => \A k \in DOMAIN saved : saved[k].input = Ran[k].input

\* The panel offers what the worker is waiting for: once everything has arrived, a live run
\* can be stopped and no other can be started; a pause is shown as what it is, and never as
\* an interrupt's when it is a breakpoint's once a node of this run has started; an idle
\* worker leaves no control of a run behind.  A refused command, or a stream that raises
\* before it has started a node, breaks this until a run finishes: the panel takes every
\* error for the end of the run, and none for the end of a pause.
Steerable ==
  Delivered /\ alive /\ ~refused =>
    /\ Live => panel.running
    /\ phase = "breakpoint" =>
         panel.paused /\ panel.timeline /\ (panel.pending => runs[Len(runs)].path = <<>>)
    /\ phase = "manual" => panel.pending /\ ~panel.paused /\ panel.timeline
    /\ phase = "idle" => ~StopOffered

\* A Stop on its way to the worker ends with a panel that shows nothing left to stop.
StopAnswered ==
  (\E k \in DOMAIN queue : queue[k].cmd = "cancel") ~> ~StopOffered \/ refused \/ ~alive

\* README.md:23-27 has a pause either step or continue, or wait for an answer; the panel
\* shows one or the other.
OnePause == Delivered /\ alive /\ ~refused => ~(panel.paused /\ panel.pending)

\* README.md:33: "every run is saved".  A run is over when the worker waits for the next;
\* one that a fork opened again counts as the same run.
EveryRunSaved ==
  up = <<>> /\ phase = "idle" =>
    Len(saved) = Cardinality({k \in DOMAIN runs : runs[k].status # "forked"})
=============================================================================
