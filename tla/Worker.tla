------------------------------- MODULE Worker -------------------------------
(***************************************************************************)
(* The graph worker, graphloupe_sidecar/worker.py: a stdin reader thread, an *)
(* asyncio command queue and the coroutine that runs the user's graph,      *)
(* pauses it and serves the debugger's commands.                            *)
(*                                                                         *)
(* Standard input is an immutable log with two cursors.  Lines 1 .. rd were *)
(* parsed by the reader thread, which raises the abort flag as it reads an  *)
(* abort; lines 1 .. got were taken off the asyncio queue by the coroutine. *)
(* The queue is therefore lines got+1 .. rd, and a line that is read but    *)
(* whose call_soon_threadsafe callback has not run yet is one the coroutine *)
(* has not taken yet.  End of file is a last line, "eof": the None that the *)
(* reader enqueues.                                                        *)
(*                                                                         *)
(* LangGraph itself is modelled from how worker.py uses it: a super-step    *)
(* runs one node, commits a checkpoint and moves `next`; interrupt_before / *)
(* interrupt_after stop the stream; a stream that resumes from a checkpoint *)
(* does not stop again at the node it resumes; a checkpoint in front of     *)
(* START runs the input again, one behind the last node runs nothing, and   *)
(* an override moves the run to wherever the node behind the checkpoint     *)
(* leads under it.                                                         *)
(***************************************************************************)
EXTENDS Naturals, Sequences

CONSTANTS Nodes,           \* nodes of the compiled graph
          Entry,           \* the node START leads to
          Succ,            \* node |-> the nodes (or End) it may lead to
          Manual,          \* nodes that call interrupt()
          HasCheckpointer, \* whether the graph was compiled with one
          RecursionLimit,  \* LangGraph's cap on super-steps of one stream
          Offered,         \* the commands the client may send
          MaxLines         \* bound: lines ever written to stdin

Start == "__start__"
End == "__end__"
Boundaries == {"before", "after"}
Positions == Nodes \cup {Start, End}  \* what a checkpoint can be in front of

Commands ==
  [cmd : {"run"}, fresh : BOOLEAN]
    \cup [cmd : {"step", "abort", "get_state", "shutdown", "eof"}]
    \cup [cmd : {"resume"}, valid : BOOLEAN]
    \cup [cmd : {"fork"}, to : Positions, edit : BOOLEAN]
    \cup [cmd : {"set_breakpoint", "clear_breakpoint"}, node : Nodes, when : Boundaries]

ASSUME GraphAssumption ==
  /\ Entry \in Nodes /\ Start \notin Nodes /\ End \notin Nodes
  /\ Succ \in [Nodes -> SUBSET (Nodes \cup {End})]
  /\ Manual \subseteq Nodes
  /\ HasCheckpointer \in BOOLEAN
  /\ RecursionLimit \in Nat \ {0}

ASSUME ClientAssumption == Offered \subseteq Commands /\ MaxLines \in Nat

VARIABLES
  log,      \* every line written to stdin, in order
  saw,      \* history: the interrupt that line k answers, when it is a resume
  rd, got,  \* lines parsed by the reader thread, lines taken off the queue
  abort,    \* _abort["on"]
  pc,       \* where the coroutine is
  bps,      \* the breakpoints set
  next,     \* the head checkpoint's state.next: a node or End
  hist,     \* positions some checkpoint of the thread is in front of
  pending,  \* the head carries an unanswered interrupt
  intr,     \* interrupts raised so far; the pending one, if any, is number intr
  stepMode, \* step_mode of the run loop
  stops,    \* the interrupt_before / interrupt_after lists of the current stream
  armed,    \* the stream has left the node it resumed at, so `before` applies
  inside,   \* the node `next` is executing
  steps,    \* super-steps of the current stream
  passed,   \* a node event of the stream has passed the flag and is not out yet
  resetAt,  \* history: what the reader had read when the run cleared the flag
  late,     \* history: node events the run reported with the flag up
  out       \* history: the events the last step wrote to stdout

pipeVars  == <<log, saw, rd>>
graphVars == <<next, hist, pending, intr>>
flowVars  == <<stops, armed, inside, steps>>
eventVars == <<passed, late>>
vars == <<pipeVars, got, abort, pc, bps, graphVars, stepMode, flowVars, eventVars, resetAt, out>>

InStream == pc \in {"stream", "stopped", "examine"}
Paused   == pc \in {"manual", "breakpoint"}
Live     == InStream \/ Paused
Waiting  == pc = "idle" \/ Paused

Init ==
  /\ log = <<>> /\ saw = <<>> /\ rd = 0 /\ got = 0
  /\ abort = FALSE
  /\ pc = "idle"
  /\ bps = {}
  /\ next = End /\ hist = {} /\ pending = FALSE /\ intr = 0
  /\ stepMode = FALSE
  /\ stops = [before |-> {}, after |-> {}] /\ armed = TRUE /\ inside = FALSE /\ steps = 0
  /\ passed = FALSE /\ late = 0
  /\ resetAt = 0
  /\ out = <<>>

-----------------------------------------------------------------------------
(* The client and the reader thread.                                       *)

\* A client writes a line; nothing follows the end of file.
ClientWrites(c) ==
  /\ Len(log) < MaxLines
  /\ \A k \in 1 .. Len(log) : log[k].cmd # "eof"
  /\ c.cmd = "resume" => intr > 0
  /\ log' = Append(log, c) /\ saw' = Append(saw, IF c.cmd = "resume" THEN intr ELSE 0)
  /\ out' = <<>>
  /\ UNCHANGED <<rd, got, abort, pc, bps, graphVars, stepMode, flowVars, eventVars, resetAt>>

\* Mutation of ReaderFlag: an abort is only queued, never flagged.
ReaderFlag_QueueOnly(c) == abort

\* reader(): the flag is raised before the line is queued.
ReaderFlag(c) == abort \/ c.cmd = "abort"

ReaderReads ==
  /\ rd < Len(log)
  /\ rd' = rd + 1
  /\ abort' = ReaderFlag(log[rd + 1])
  /\ out' = <<>>
  /\ UNCHANGED <<log, saw, got, pc, bps, graphVars, stepMode, flowVars, eventVars, resetAt>>

-----------------------------------------------------------------------------
(* _next_cmd: the coroutine takes the next line off the queue.             *)

Cmd == log[got + 1]

\* Mutation of Takes: the coroutine takes a line the reader has not queued.
Takes_Unread(kinds) ==
  /\ got < Len(log)
  /\ Cmd.cmd \in kinds
  /\ got' = got + 1
  /\ UNCHANGED pipeVars

Takes(kinds) ==
  /\ got < rd
  /\ Cmd.cmd \in kinds
  /\ got' = got + 1
  /\ UNCHANGED pipeVars

\* set_breakpoint / clear_breakpoint apply wherever the coroutine waits.
ApplyBreakpoint ==
  /\ Waiting
  /\ Takes({"set_breakpoint", "clear_breakpoint"})
  /\ bps' = IF Cmd.cmd = "set_breakpoint" THEN bps \cup {<<Cmd.node, Cmd.when>>}
                                          ELSE bps \ {<<Cmd.node, Cmd.when>>}
  /\ out' = <<>>
  /\ UNCHANGED <<abort, pc, graphVars, stepMode, flowVars, eventVars, resetAt>>

-----------------------------------------------------------------------------
(* _stream: one call of astream_events.                                    *)

BpNodes(when) == {n \in Nodes : <<n, when>> \in bps}

\* Mutation of StopLists: single-stepping keeps the plain breakpoint lists.
StopLists_NoStep(step) ==
  IF HasCheckpointer THEN [before |-> BpNodes("before"), after |-> BpNodes("after")]
                     ELSE [before |-> {}, after |-> {}]

\* Mutation of StopLists: the lists of the previous stream are used again.
StopLists_Stale(step) == IF step THEN [before |-> Nodes, after |-> {}] ELSE stops

\* The lists the run loop computes before each stream, _bp_lists included.
StopLists(step) ==
  IF HasCheckpointer
  THEN [before |-> IF step THEN Nodes ELSE BpNodes("before"), after |-> BpNodes("after")]
  ELSE [before |-> {}, after |-> {}]

\* Start a stream at `next`; `fromInput` tells a fresh input from a resume.
BeginStream(step, fromInput) ==
  /\ pc' = "stream"
  /\ stepMode' = step
  /\ stops' = StopLists(step)
  /\ armed' = fromInput
  /\ inside' = FALSE
  /\ steps' = 0

Stopping == armed /\ next \in stops.before

\* The graph has a node to report on: one that runs, or one that may start.
NodeDue == inside \/ (next # End /\ ~Stopping /\ steps < RecursionLimit)

\* Mutation of FlagDown: the flag is looked at only while no node runs.
FlagDown_Between == inside \/ ~abort

\* _stream asks for the flag first and writes the event after it: the reader thread may
\* raise the flag in between.
FlagDown == ~abort

EventPasses ==
  /\ pc = "stream" /\ ~passed /\ FlagDown
  /\ NodeDue
  /\ passed' = TRUE
  /\ out' = <<>>
  /\ UNCHANGED <<pipeVars, got, abort, pc, bps, graphVars, stepMode, flowVars, resetAt, late>>

\* _emit_event writes the node event that passed.
Emits == passed /\ passed' = FALSE /\ late' = late + (IF abort THEN 1 ELSE 0)

NodeStarts ==
  /\ pc = "stream" /\ ~inside /\ next # End
  /\ Emits
  /\ inside' = TRUE
  /\ out' = <<"node_start">>
  /\ UNCHANGED <<pipeVars, got, abort, pc, bps, graphVars, stepMode, stops, armed, steps, resetAt>>

\* The node returns, its checkpoint is committed, an interrupt_after may be due.
NodeEnds ==
  /\ pc = "stream" /\ inside
  /\ Emits
  /\ next' \in Succ[next]
  /\ hist' = hist \cup {next'}
  /\ pc' = IF next \in stops.after THEN "stopped" ELSE "stream"
  /\ armed' = TRUE
  /\ inside' = FALSE
  /\ steps' = steps + 1
  /\ out' = <<"node_end">>
  /\ UNCHANGED <<pipeVars, got, abort, bps, pending, intr, stepMode, stops, resetAt>>

\* The stream runs out: the graph is done or an interrupt_before stop is due.
StreamEnds ==
  /\ pc = "stream" /\ ~inside /\ ~passed
  /\ next = End \/ Stopping
  /\ pc' = "stopped"
  /\ out' = <<>>
  /\ UNCHANGED <<pipeVars, got, abort, bps, graphVars, stepMode, flowVars, eventVars, resetAt>>

\* An event arrives with the flag raised: _stream returns without emitting it.
StreamAborts ==
  /\ pc = "stream" /\ ~passed /\ abort
  /\ next # End
  /\ pc' = "stopped"
  /\ inside' = FALSE
  /\ out' = <<>>
  /\ UNCHANGED <<pipeVars, got, abort, bps, graphVars, stepMode, stops, armed, steps,
                eventVars, resetAt>>

\* The node calls interrupt(): the stream ends in front of it.
NodeInterrupts ==
  /\ pc = "stream" /\ inside /\ ~passed
  /\ next \in Manual /\ HasCheckpointer
  /\ pending' = TRUE /\ intr' = intr + 1
  /\ pc' = "stopped"
  /\ inside' = FALSE
  /\ out' = <<>>
  /\ UNCHANGED <<pipeVars, got, abort, bps, next, hist, stepMode, stops, armed, steps,
                eventVars, resetAt>>

\* The graph raises: an input it cannot take, user code in a node, the recursion limit.
\* _amain reports it and stays alive.
RunFails ==
  /\ pc = "stream" /\ ~passed
  /\ next # End
  /\ pc' = "idle"
  /\ inside' = FALSE
  /\ out' = <<"error">>
  /\ UNCHANGED <<pipeVars, got, abort, bps, graphVars, stepMode, stops, armed, steps,
                eventVars, resetAt>>

-----------------------------------------------------------------------------
(* _run: what the run loop does once a stream is over.                     *)

\* _aborted(): the flag is consumed and the run ends.
RunAborted ==
  /\ pc = "stopped" /\ abort
  /\ abort' = FALSE
  /\ pc' = "idle"
  /\ out' = <<"run_finished(aborted)">>
  /\ UNCHANGED <<pipeVars, got, bps, graphVars, stepMode, flowVars, eventVars, resetAt>>

\* Mutation of StepModeAfterStream: step_mode survives the stream it was for.
StepModeAfterStream_Kept == stepMode

\* step_mode is for one stream.
StepModeAfterStream == FALSE

StreamExamined ==
  /\ pc = "stopped" /\ ~abort
  /\ pc' = "examine"
  /\ stepMode' = StepModeAfterStream
  /\ out' = <<>>
  /\ UNCHANGED <<pipeVars, got, abort, bps, graphVars, flowVars, eventVars, resetAt>>

\* Mutation of Completion: run_finished goes out before the reconstructions.
Completion_Early == <<"run_finished(completed)", "branch_decisions", "state_timeline", "state_snapshot">>

\* What a completed run writes, in order.
Completion ==
  (IF HasCheckpointer THEN <<"branch_decisions", "state_timeline", "state_snapshot">> ELSE <<>>)
    \o <<"run_finished(completed)">>

RunCompletes ==
  /\ pc = "examine"
  /\ ~HasCheckpointer \/ next = End
  /\ pc' = "idle"
  /\ out' = Completion
  /\ UNCHANGED <<pipeVars, got, abort, bps, graphVars, stepMode, flowVars, eventVars, resetAt>>

Reconstructions == <<"checkpoint_history", "branch_decisions", "state_timeline">>

PausesManually ==
  /\ pc = "examine" /\ HasCheckpointer /\ pending
  /\ pc' = "manual"
  /\ out' = <<"manual_inference_required">> \o Reconstructions
  /\ UNCHANGED <<pipeVars, got, abort, bps, graphVars, stepMode, flowVars, eventVars, resetAt>>

\* An interrupt whose value _manual_required cannot read: the run fails in front of it.
PauseFails ==
  /\ pc = "examine" /\ HasCheckpointer /\ pending
  /\ pc' = "idle"
  /\ out' = <<"error">>
  /\ UNCHANGED <<pipeVars, got, abort, bps, graphVars, stepMode, flowVars, eventVars, resetAt>>

PausesAtBreakpoint ==
  /\ pc = "examine" /\ HasCheckpointer /\ ~pending /\ next # End
  /\ pc' = "breakpoint"
  /\ out' = <<"breakpoint_hit", "state_snapshot">> \o Reconstructions
  /\ UNCHANGED <<pipeVars, got, abort, bps, graphVars, stepMode, flowVars, eventVars, resetAt>>

-----------------------------------------------------------------------------
(* _amain while idle, and the start of _run.                               *)

IdleTakesRun ==
  /\ pc = "idle"
  /\ Takes({"run"})
  /\ pc' = "starting"
  /\ out' = <<>>
  /\ UNCHANGED <<abort, bps, graphVars, stepMode, flowVars, eventVars, resetAt>>

\* Mutation of FlagAtRunStart: _run does not clear the flag.
FlagAtRunStart_Kept == abort

\* _abort["on"] = False, the first thing _run does.
FlagAtRunStart == FALSE

\* _run begins: a fresh thread has no checkpoints but its own, a reused one keeps its.
RunStarts ==
  /\ pc = "starting"
  /\ abort' = FlagAtRunStart
  /\ resetAt' = rd
  /\ next' = Entry /\ pending' = FALSE
  /\ hist' = {Start, Entry} \cup (IF log[got].fresh THEN {} ELSE hist)
  /\ BeginStream(FALSE, TRUE)
  /\ passed' = FALSE /\ late' = 0
  /\ out' = <<"run_started">>
  /\ UNCHANGED <<pipeVars, got, bps, intr>>

IdleShutsDown ==
  /\ pc = "idle"
  /\ Takes({"shutdown", "eof"})
  /\ pc' = "exited"
  /\ out' = <<>>
  /\ UNCHANGED <<abort, bps, graphVars, stepMode, flowVars, eventVars, resetAt>>

IdleIgnores ==
  /\ pc = "idle"
  /\ Takes({"resume", "step", "abort", "fork", "get_state"})
  /\ out' = <<>>
  /\ UNCHANGED <<abort, pc, bps, graphVars, stepMode, flowVars, eventVars, resetAt>>

-----------------------------------------------------------------------------
(* _await_resume and _await_debug: the two pauses.                         *)

\* The None of end of file: _run returns, and _amain waits for another line.
PauseSeesEof ==
  /\ Paused
  /\ Takes({"eof"})
  /\ pc' = "idle"
  /\ out' = <<>>
  /\ UNCHANGED <<abort, bps, graphVars, stepMode, flowVars, eventVars, resetAt>>

\* Mutation of PauseAborts: a paused run drops the abort, as if the flag would end it.
PauseAborts_Dropped ==
  /\ Paused
  /\ Takes({"abort"})
  /\ out' = <<>>
  /\ UNCHANGED <<abort, pc, bps, graphVars, stepMode, flowVars, eventVars, resetAt>>

\* Stop at a pause, by the queued command; the flag stays up until the next run.
PauseAborts ==
  /\ Paused
  /\ Takes({"abort"})
  /\ pc' = "idle"
  /\ out' = <<"run_finished(aborted)">>
  /\ UNCHANGED <<abort, bps, graphVars, stepMode, flowVars, eventVars, resetAt>>

\* Where the node behind a checkpoint in front of `to` may lead; START is one.
Rerouted(to) ==
  {n \in Nodes \cup {End} :
     \/ \E p \in Nodes : {to, n} \subseteq Succ[p]
     \/ to \in {Start, Entry} /\ n = Entry}

\* Where a fork goes on: at the checkpoint, or where its override leads (update_state).
ForkLeads(c) == IF c.edit THEN Rerouted(c.to) ELSE {IF c.to = Start THEN Entry ELSE c.to}

\* fork to a checkpoint of the thread; in front of START it runs the input again.
PauseForks ==
  /\ Paused
  /\ Takes({"fork"})
  /\ Cmd.to \in hist
  /\ next' \in ForkLeads(Cmd) /\ pending' = FALSE
  /\ hist' = hist \cup {next'}
  /\ BeginStream(stepMode, Cmd.to = Start /\ ~Cmd.edit)
  /\ out' = <<"run_started">>
  /\ UNCHANGED <<abort, bps, intr, eventVars, resetAt>>

\* Mutation of PauseRefusesFork: the refused command is tried again, forever.
PauseRefusesFork_Retried ==
  /\ Paused
  /\ got < rd /\ Cmd.cmd = "fork" /\ Cmd.to \notin hist
  /\ out' = <<"error">>
  /\ UNCHANGED <<pipeVars, got, abort, pc, bps, graphVars, stepMode, flowVars, eventVars, resetAt>>

\* checkpoint_not_found: the run stays paused where it is.
PauseRefusesFork ==
  /\ Paused
  /\ Takes({"fork"})
  /\ Cmd.to \notin hist
  /\ out' = <<"error">>
  /\ UNCHANGED <<abort, pc, bps, graphVars, stepMode, flowVars, eventVars, resetAt>>

\* update_state raises on the fork's state override: the error leaves _run.
PauseForkRaises ==
  /\ Paused
  /\ Takes({"fork"})
  /\ Cmd.to \in hist /\ Cmd.edit
  /\ pc' = "idle"
  /\ out' = <<"error">>
  /\ UNCHANGED <<abort, bps, graphVars, stepMode, flowVars, eventVars, resetAt>>

\* Mutation of Accepts: _validate_resume lets every payload through.
Accepts_Any(c) == TRUE

\* _validate_resume: the payload fits what the pending interrupt expects.
Accepts(c) == c.valid

ManualResumes ==
  /\ pc = "manual"
  /\ Takes({"resume"})
  /\ Accepts(Cmd)
  /\ pending' = FALSE
  /\ BeginStream(stepMode, FALSE)
  /\ out' = <<>>
  /\ UNCHANGED <<abort, bps, next, hist, intr, eventVars, resetAt>>

ManualRejects ==
  /\ pc = "manual"
  /\ Takes({"resume"})
  /\ ~Accepts(Cmd)
  /\ out' = <<"error">>
  /\ UNCHANGED <<abort, pc, bps, graphVars, stepMode, flowVars, eventVars, resetAt>>

ManualIgnores ==
  /\ pc = "manual"
  /\ Takes({"run", "step", "get_state", "shutdown"})
  /\ out' = <<>>
  /\ UNCHANGED <<abort, pc, bps, graphVars, stepMode, flowVars, eventVars, resetAt>>

\* Step, or run / resume as Continue.
BreakpointAdvances ==
  /\ pc = "breakpoint"
  /\ Takes({"step", "run", "resume"})
  /\ BeginStream(Cmd.cmd = "step", FALSE)
  /\ out' = <<>>
  /\ UNCHANGED <<abort, bps, graphVars, eventVars, resetAt>>

BreakpointShowsState ==
  /\ pc = "breakpoint"
  /\ Takes({"get_state"})
  /\ out' = <<"state_snapshot">>
  /\ UNCHANGED <<abort, pc, bps, graphVars, stepMode, flowVars, eventVars, resetAt>>

BreakpointIgnores ==
  /\ pc = "breakpoint"
  /\ Takes({"shutdown"})
  /\ out' = <<>>
  /\ UNCHANGED <<abort, pc, bps, graphVars, stepMode, flowVars, eventVars, resetAt>>

-----------------------------------------------------------------------------
Client == \E c \in Offered : ClientWrites(c)

Stream == \/ EventPasses \/ NodeStarts \/ NodeEnds \/ NodeInterrupts
          \/ StreamEnds \/ StreamAborts \/ RunFails

RunLoop == \/ RunStarts \/ RunAborted \/ StreamExamined \/ RunCompletes
           \/ PausesManually \/ PauseFails \/ PausesAtBreakpoint

Serve == \/ ApplyBreakpoint \/ IdleTakesRun \/ IdleShutsDown \/ IdleIgnores
         \/ PauseSeesEof \/ PauseAborts \/ PauseForks \/ PauseRefusesFork
         \/ PauseForkRaises \/ ManualResumes \/ ManualRejects \/ ManualIgnores
         \/ BreakpointAdvances \/ BreakpointShowsState \/ BreakpointIgnores

Coroutine == Stream \/ RunLoop \/ Serve

Next == Client \/ ReaderReads \/ Coroutine

Spec == Init /\ [][Next]_vars

\* The reader thread and the event loop are scheduled, and a node that runs
\* eventually produces an event.  Nothing obliges the client to write.
FairSpec == Spec /\ WF_vars(ReaderReads) /\ WF_vars(Coroutine)

-----------------------------------------------------------------------------
(* Correctness.                                                            *)

PCs == {"idle", "starting", "stream", "stopped", "examine", "manual", "breakpoint", "exited"}

\* What a step may write to stdout.
Bursts == {<<>>, <<"run_started">>, <<"node_start">>, <<"node_end">>, <<"state_snapshot">>,
           <<"manual_inference_required">> \o Reconstructions,
           <<"breakpoint_hit", "state_snapshot">> \o Reconstructions,
           Completion, <<"run_finished(aborted)">>, <<"error">>}

\* The variables keep their types and the cursors of stdin their order.
TypeOK ==
  /\ log \in Seq(Commands) /\ saw \in Seq(Nat)
  /\ rd \in Nat /\ got \in Nat /\ got <= rd /\ rd <= Len(log)
  /\ abort \in BOOLEAN
  /\ pc \in PCs
  /\ bps \in SUBSET (Nodes \X Boundaries)
  /\ next \in Nodes \cup {End} /\ hist \in SUBSET Positions
  /\ pending \in BOOLEAN /\ intr \in Nat
  /\ stepMode \in BOOLEAN
  /\ stops \in [before : SUBSET Nodes, after : SUBSET Nodes]
  /\ armed \in BOOLEAN /\ inside \in BOOLEAN /\ (inside => next \in Nodes)
  /\ steps \in Nat
  /\ passed \in BOOLEAN /\ late \in Nat
  /\ resetAt \in Nat /\ resetAt <= rd
  /\ out \in Bursts

\* While a run is live, the flag is up exactly when the reader has read an abort
\* since that run cleared it: a Stop never kills a run started after it, and none
\* read during the run is forgotten (_abort, worker.py 267-271, 581, 585-590).
AbortOwned ==
  Live => (abort <=> \E k \in resetAt + 1 .. rd : log[k].cmd = "abort")

\* A run reports at most one node event after an abort was read in it, the one that had
\* passed the check when the flag went up, through however many streams the commands
\* queued before the abort still start (_stream, worker.py 372-374).
OneLateEvent == late <= 1

\* A node with a breakpoint in force only runs when the stream resumed in front of
\* it, that is, after the user was stopped there or forked there.
BreakpointsHonoured ==
  inside /\ HasCheckpointer /\ <<next, "before">> \in bps => ~armed

\* The command that started the current stream: streams take no line themselves.
LastCommand == log[got].cmd

\* A run stops in front of a node only for a Step or for a breakpoint in force
\* before that node or after one that leads to it.
PauseJustified ==
  [][pc # "breakpoint" /\ pc' = "breakpoint" =>
       \/ LastCommand = "step"
       \/ <<next, "before">> \in bps
       \/ \E n \in Nodes : <<n, "after">> \in bps /\ next \in Succ[n]]_vars

\* Step advances one node: a stream started by a Step runs at most one.
StepRunsOneNode ==
  InStream /\ LastCommand = "step" => steps + (IF inside THEN 1 ELSE 0) <= 1

\* A pause waiting for an answer is left only by an answer that fits, a fork to a
\* checkpoint that exists, a Stop, or the end of input: whatever else the client
\* sends, and however often, the interrupt stays answerable.
PauseLeftOnPurpose ==
  [][pc = "manual" /\ pc' # "manual" =>
       LET c == log[got'] IN
         \/ c.cmd = "resume" /\ c.valid
         \/ c.cmd = "fork" /\ c.to \in hist
         \/ c.cmd \in {"abort", "eof"}]_vars

\* The refinement mapping to what the reader of stdout is promised.
Phase == CASE pc \in {"idle", "starting"} -> "idle"
           [] InStream -> "running"
           [] pc = "exited" -> "closed"
           [] OTHER -> pc

Protocol == INSTANCE RunProtocol WITH phase <- Phase

\* The worker implements the event protocol.
ImplementsProtocol == Protocol!Spec

\* Whatever the client writes is taken off the queue, or the worker has exited.
EveryLineTaken ==
  \A k \in 1 .. MaxLines : Len(log) >= k ~> got >= k \/ pc = "exited"

\* A Stop written while a run is live ends that run, paused or streaming.
StopEndsRun ==
  (Live /\ \E k \in got + 1 .. Len(log) : log[k].cmd = "abort") ~> ~Live

\* The commands that ask the worker to end do end it.
ShutdownExits ==
  (\E k \in 1 .. Len(log) : log[k].cmd \in {"shutdown", "eof"}) ~> pc = "exited"

\* An answer resumes the interrupt the client was answering.
AnswerFitsInterrupt ==
  [][pc = "manual" /\ got' > got /\ pc' = "stream" /\ log[got'].cmd = "resume" =>
       saw[got'] = intr]_vars
=============================================================================
