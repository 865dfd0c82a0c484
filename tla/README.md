# GraphLoupe in TLA+

Specifications, model-checking configurations and machine-checked proofs for
GraphLoupe, a VS Code debugger for LangGraph programs. Paths are relative to the
repository (`worker.py` is `graphloupe_sidecar/worker.py`, `extension.ts` is
`extension/src/extension.ts`).

## 1. The system

    webview (React)  --postMessage-->  extension host  --WebSocket-->  relay  --stdin-->  worker
    App.tsx, model.ts                  extension.ts                   server.py          worker.py
                     <-----------------------  events, one JSON line each  ---------------

| Component | State it keeps | Operations | What makes it correct |
|---|---|---|---|
| **Graph worker** (`worker.py`) | an asyncio queue fed by a stdin reader thread, the abort flag, the breakpoint set, step mode, the position of the run coroutine, the thread's head checkpoint | `run`, `resume`, `step`, `set_breakpoint`, `clear_breakpoint`, `get_state`, `fork`, `abort`, `shutdown`, end of input | a Stop reaches the run it was meant for and no other; breakpoints hold; a step runs one node; a pause ends only by a command meant for it; events come in an order the clients understand; every line is taken |
| **Checkpoint lineage** (`worker.py` 396-508) | LangGraph's tree of checkpoints | super-step, fork, fork with state override; three reconstructions | the rewind timeline lists every position of the live path, the state timeline adds up to the state, decisions are the ones the routers took |
| **Session lifecycle** (`extension.ts`, `sidecarStatus.ts`) | `panel`, `sidecar`, `socket`, `expectedKills`, `status` | open, reload, restart, select, dispose, the awaits of `startSession`, child exits | no process leaks; the status bar tells the truth; a kill is not shown as a crash; every start settles |
| **Relay** (`server.py`) | one worker process per connection, a pump task | load handshake with a timeout, command translation, pump, disconnect | every load is answered, with the graph or an error; commands reach the worker in order, one line each; the worker dies with the socket |
| **Run recorder and store** (`runRecorder.ts`, `runStore.ts`, `runhistory.ts`) | the open record, the pending input, `runs.jsonl` | `onCommand`, `onEvent`, `finish`, `appendRun`, `readRuns` | a record holds the input, nodes and end of one run; its token count is the panel's; a write that is cut short costs little |
| **Run comparison** (`runhistory.ts` 104-165) | none (pure) | `branchesDiff`, `compareRuns` | lossless, minimal, no false change, the first divergence |
| **Panel** (`model.ts` `reduce`, `App.tsx`, `layout.ts`) | `running`, `paused`, `pending`, timelines, the current run's thread; breakpoint rings; positions and the layout under way; the compare selection | one reduction per event; Run, Stop, Step, Continue, Fork, Answer; `toggleBreakpoint`, the layout effect, `toggleCompare` | the controls a state of the worker needs are offered in that state; graph and run state are those of the session in place, a ring is the worker's breakpoint, no late layout replaces a newer one |
| **Interpreter and managed environment** (`python.ts`, `venv.ts`, `ensureSidecarVenv`) | one directory in the extension's global storage, shared by all windows, and the processes that fill it | `resolvePython`, `runDoctor`, `probeVenv`, `python -m venv`, pip | what is interrupted is repaired; a sidecar is spawned from a complete environment |
| **Choice of the graph** (`selectGraph`, `entryWizard.ts`) | the setting `graphEntry`, the adapter module | discovery, quick picks, `renderAdapter`, the update of the setting, a new start | the session whose start was begun last runs the graph confirmed last |
| **Introspection, static discovery's scan, schemas** | none | pure | see section 7 |

How they interact: the panel posts commands, the extension forwards each to the
relay's socket (and shows `start_run` to the recorder), the relay translates it
into one line of the worker's stdin (`_to_worker`, `server.py` 81-99). The
worker's stdout lines come back through the relay's pump, and `onServerEvent`
(`extension.ts` 63-67) gives each to the recorder and to the panel. There are no
replies and no acknowledgements: panel and recorder only see events.

Where it is hard: two threads in the worker share the abort flag; the
run coroutine reads the command queue at pauses only; `startSession` is an async
function whose calls overlap freely and share globals; the events of every
socket go to whatever panel and recorder are current; child processes exit
whenever they like, and what they leave on disk is what the next start finds;
windows share a history file and an environment without a lock; time travel
turns the linear history of a run into a tree.
`PROJECT.json` lists these hazards line by line under `hazards`.

## 2. The modules

| Module | Models |
|---|---|
| `RunProtocol` | the abstract specification: a run as seen by its clients |
| `Worker` | `worker.py`'s queue, reader thread, run loop and pauses; implements `RunProtocol` |
| `WorkerMC` | the instance of `Worker` that TLC checks |
| `WorkerProofs` | theorems about `Worker` for every graph and every input; for step mode and the pauses from a stronger invariant |
| `Lineage`, `LineageMC` | checkpoints, forks and the worker's reconstructions |
| `LineageProofs` | the three reconstructions are right, for every graph and any tree of checkpoints |
| `SidecarSession` | `startSession`, `killSidecar`, exits, disposal, the status bar |
| `CompareRuns` | `branchesDiff` step by step and `compareRuns`' divergence |
| `CompareProofs` | the comparison is lossless, longest and without false changes, for runs of any length |
| `Subsequences` | the part of a sequence at some of its positions, which filters are written with |
| `SubsequenceProofs` | its lemmas, and induction over the naturals in the form the other proofs use |
| `Console` | panel, extension with its run recorder, and relay, composed with the worker as `RunProtocol` allows it, within one session |
| `ConsoleProofs` | its four invariants, for any number of posts and node runs |
| `Link` | `SidecarSession` composed with relays, sockets and the panel, from one session to the next |
| `LinkProofs` | the invariant and safety theorems of `SidecarSession`; `Link` implements it; the four invariants of `Link` for any number of sessions, posts and events |
| `Setup` | the interpreter's resolution and the managed environment, across calls, windows and crashes |
| `SetupProofs` | an undisturbed start is never failed by what earlier ones left, nor spawns without its dependencies; the last choice of a graph is in force |
| `Selection` | `selectGraph`: dialogs, the adapter, the setting, the session that results |
| `Records` | the two token counts of a run, `runs.jsonl`, the list of runs and the compare selection |
| `RecordsProofs` | the counts agree, a cut write costs one record at most and what is ticked is compared, for any number of windows and runs |

### Worker

Standard input is a log with two cursors. Lines `1..rd` were parsed by the reader
thread (`ReaderReads`, worker.py 667-677), which raises `abort` *before* it queues the
line; lines `1..got` were taken by the coroutine (`Takes`, 511-518). The queue is
what lies between. `pc` is the coroutine's position: `idle` in `_amain`'s loop,
`stream` while a super-step may start, `stopped` and `examine` around
the end of `_stream`, `manual` in `_await_resume`, `breakpoint` in `_await_debug`,
`exited`. Each action is the code from one await to the next: `RunStarts` is
`_run` up to its first chunk, `NodeStarts`/`NodeEnds` the two events of a super-step, `Completion`
the code from the end of the stream to `run_finished`, `PausesManually` and
`PausesAtBreakpoint` the two ways into a pause with their whole bundle of events,
`PauseForks`, `ManualResumes`, `BreakpointAdvances` and so on one command each at
a pause. Commands that a wait drops have actions too (`IdleIgnores`, `ManualIgnores`,
`BreakpointIgnores`), since taking and forgetting a line is a state change. `out`
holds the events of the last step, in order.

A node event takes two steps: `EventPasses` is `_stream`'s look at the flag (372) and
`NodeStarts` or `NodeEnds` the write (374), since the reader thread may raise the flag between
them. `OneLateEvent` says that this is all an aborted run still reports: one event, which had
passed already. A fork goes to any position a checkpoint of the thread was in front of
(`hist`), START and the end included: in front of START the input runs again and a breakpoint on
the first node holds, behind the end nothing runs, and an override moves the run to
wherever the node behind the checkpoint leads (`Rerouted`, `ForkLeads`). `RunFails` is an
exception at any point of a stream, before the first node too (an input the graph cannot take).

LangGraph is external and modelled from how `_run` uses it: `interrupt_before`
and `interrupt_after` stop the stream, a stream that resumes does not stop again
in front of the node it resumes, `interrupt()` leaves the head with a pending
interrupt, a super-step limit ends the run with an error. The model runs one node
per super-step; fan-out is in `Lineage`.

`RunProtocol` has three variables: whether a run is live, whether it is paused, and what
may come next. `Worker` maps to it by `pc` and `out`.

### Lineage

One variable, the sequence of checkpoints; a checkpoint has a parent, a frontier
(`next`), values, and three history fields that no reconstruction reads (`made`, `by`,
`chose`). `SuperStep` commits a child with the whole frontier run; `Fork` and
`ForkWithOverride` are `_fork_target` (499-508) at any pause, to any checkpoint, the one the
run is paused at included. An input is a checkpoint in front of START (`InputTo`), and
`StartRuns` writes it into the state; `AnotherInput` is a second one on the same thread, which a
`start_run` meant as a Continue becomes when the run is over by the time it is taken. `_state_timeline`
skips START's write, so what it accounts for begins behind the last START of the live path (`Beginning`).
`CheckpointHistory`, `StateTimeline` and `BranchDecisions` are the three
reconstructions as operators over the parent walk, with their limit, their collapsing of
equal neighbours and their `next[0]`. External assumptions: a replay of an older
checkpoint leaves a copy at the same position (the comment at 408-410), and
`update_state` writes as the node behind the checkpoint and routes again. Routers without a path map, whose
targets the worker does not know (428-429) and for which it reports no decision, are left out.

### SidecarSession

`pc[i]` is what the i-th call of `startSession` awaits (interpreter, venv, port,
connect), `child[i]` its process. Code between two awaits is one action because
JavaScript runs it so. `KillSidecar` is the helper and used, as in the code, by starts,
disposals and failures. `overlapped` is a history variable: the properties that
hold only while starts do not overlap say so in their text, and two violation runs
show what happens otherwise.

### CompareRuns

The scan of `branchesDiff` as it runs: an LCS table, one operation per step,
then the pairing of a deletion with its neighbouring insertion. The reference definitions
(subsequences, longest common subsequence) are separate and brute force.

### Console

A session from a loaded graph on. The worker is `INSTANCE RunProtocol`, the
specification `Worker` is shown to implement, here driven by the commands in `queue`; its
actions add what a client can tell apart: the node reported, the abort flag, and `due`, what
a stream runs first (after an answer one of this run's nodes again, which with parallel nodes need not be the
last one reported; another node after a breakpoint or a fork to a node; after a fork to the row
before `__start__` anything, a breakpoint on the first node included). Events go through `up` (the relay's pump and the socket) to the
recorder and through `shows` (`postMessage`) to the panel, in order and with any delay.
`Click...` are the buttons with the conditions App.tsx puts on them, all
`Post`: the recorder sees a `start_run`, the worker's reader raises the flag for a cancel. Posting
and reading a line are one step: until it is read, a command has changed nothing but the
recorder's `pendingInput`, and the panel may lag just as much without a second delay.
`Opened`, `OnEvent` and `Finished` are `RunRecorder`; `Reduce` is the part of `reduce` the
controls depend on. `WorkerDies` leaves the socket open and everyone uninformed, as server.py does, until the
next command makes the relay's write fail: its `finally` then cancels the pump, and what was not forwarded
by then is lost (`RelayBreaks`, `cut`).

Four history variables serve the properties and steer nothing: `runs`, the runs as the
worker ran them; `crossed`, a start was posted while another was under way; `refused`, a command
was refused, or a stream raised before its first node, and no run has finished since; `cut`. `HistoryTrue`,
`InputRecorded` and `Steerable` say in their text that they hold outside `cut`, `crossed` and `refused`. `Steerable` lets an
old interrupt's form stand beside a breakpoint until a node of the run has started, which is what the code does
(`OnePause` is refuted); sections 6 and `hazards` say what happens inside.

### Link

`Console` follows one session closely; `Link` follows the panel from session to
session. It EXTENDS `SidecarSession`, and each of its steps is a step of that
module together with what it does to the relays and the panel (`UserMoves`,
`StartMoves`), or leaves it alone: a start for a new panel begins with an empty page
(`Mounts`), a restart leaves the page of the panel there is as it was (`Remains`), a disposal ends it (`Unmounts`), a connection makes the relay spawn a worker (`Opens`, `Accepts`), a child that
exits takes its relay and worker along (`Dissolves`). `RelayServes`,
`RelayRefuses`, `RelayTimesOut` and `RelayStumbles` are the outcomes of the load
handshake (server.py 111-125), the last one for a module that prints while it is imported;
`Ends` is the `finally` that all ways out share. `Delivers` is `onServerEvent`,
which hands the events of *every* socket to the current panel; `SocketBreaks` is
the `error` handler of `connect`, which stays on the socket and connects again after it
was up. In the panel there are the graph shown, its run state, one breakpoint
ring, and the layout effect: `solving` is the set of promises, `wanted` the one whose
`live` flag is still up.

That a restart leaves the page alone is how VS Code treats extension.ts:379: the html assigned is the same string
every time (315-322), and a page is loaded anew only for one that differs. What the reducer does not clear
at the next graph event, the breakpoint rings, therefore outlives the worker that had the breakpoints. `unheard`
records that the worker was not sent what the ring shows, because it is newer than the ring or because the click was posted to no
session; `RemountClean`, which says what the comment at 379 says, is refuted. A rejected layout is no longer
waited for and leaves the old positions (`LayoutFails`, `rejected`).

A worker is reduced to loading, idle and running; a graph is named by its session;
one node can carry a breakpoint. Two facts of the network are assumed, in
`Silent` and `Drained`: a socket the extension has closed delivers nothing that was
sent after a newer sidecar listens, and what it held has been read by then. Between
the two are an interpreter probe, a port and a spawned Python process, against one
turn of the event loop.

### Setup

`disk` is what the environment's directory holds: the interpreter, pip, and each
dependency. A call of `startSession` resolves an interpreter, asks the doctor and probes the
environment without an await (`Examines`), and then runs processes, `job[i]`, which outlive
the window that started them (`WindowGone`) but not the machine (`MachineDown`).
`python -m venv` and pip are external: they put things into the directory in steps,
may fail between any two, and pip removes what it overwrites. `clash` is a history
variable, the calls beside which another call's process ran, and `spoilt` the
calls one of whose processes failed by itself or was too slow for its probe. The
properties are about the other calls; inside an overlap the code promises nothing.
Assumed of pip: the files of a distribution are in place before the metadata by which it counts as installed, so
a distribution is there whole or, for the next pip, not at all. An interruption that left the metadata without the files
would be taken for installed by every later bootstrap.

### Selection

Each run of `selectGraph` is a dialog with its phase; a quick pick that opens closes the
one that is open. Updates of the setting are queued (`saving`), since VS Code writes
them one after another, and each is followed by a start that reads the setting. Starts may overlap
(`starting`): each connects or fails when it will, the one that connects last is in force, and one that fails kills whatever
sidecar there is. `LastChoiceRuns` is about a session whose start was begun last (`newest`); that an older one
may be in force instead is what the code does (`LastChoiceWins` is refuted), for the reason that
`session_orphan` shows.
The adapter is one file behind one entry, whatever it points at, so a session's
graph is decided when its worker imports it (`Loads`).

### Records

`lines` and `tail` are `runs.jsonl`: the complete lines, and what follows the last
newline. `Appended` writes a record behind whatever the file ends with, `CutShort` leaves a
fragment or a record without its newline; a run's end writes and reads the file
in one step, as `recordRun` and `broadcastHistory` do in one turn. The LLM calls of one
window, `Watched`, are followed with the panel's count (`PanelPrompt`) and the
recorder's (`RecordedPrompt`); the calls of other windows touch nothing these share.
`Ticks`, `Compared` and `TickedRows` are the History tab with `toggleCompare`. A restart drops the run but
not the page, so list and selection stay (`SessionStarts`); a new panel has neither (`PanelOpens`).

## 3. What the runs check

| Run | Bounds | Shows |
|---|---|---|
| `worker_safety` | a graph that loops `ingest -> plan -> ingest` with a human node, 4 lines of any kind, 3 super-steps a stream | `AbortOwned`, `OneLateEvent`, `BreakpointsHonoured`, `StepRunsOneNode`, `PauseJustified`, `PauseLeftOnPurpose`, and refinement of `RunProtocol` |
| `worker_liveness` | 4 lines of the kinds that block or end waits, 2 super-steps | every line is taken; a Stop ends the run it finds |
| `lineage` | up to 7 checkpoints, limit 4, a router that may lead to itself, a loop, a fan-out, inputs stacked on one thread | `HistoryCoversPath`, `TimelineAccounts`, `TimelineNamesRan`, `DecisionsMatch` |
| `session` | 3 calls of `startSession` | one start at a time leaks nothing and reports the truth; a kill is not blamed on the child; every start settles |
| `session_orphan` (violation) | 2 calls | overlapping starts leak a process |
| `compare` | all pairs of sequences of up to 4 decisions of 3 kinds | lossless, longest, no false change, the first divergence |
| `console` | 3 commands, 2 node runs beside resumed ones, 2 nodes | `HistoryTrue`, `InputRecorded`, `Steerable`; a Stop is answered (`StopAnswered`) |
| `link` | 2 starts, 2 posts to each panel, 2 events in flight on a socket | a settled session is the one the panel shows, running or not (`PanelAgrees`); a failed load is told (`RefusalTold`); ring and breakpoint agree unless the worker was not sent the ring (`RingsHonoured`); what is drawn never changes to another graph's layout (`LayoutCurrent`) |
| `link_print` (violation) | 1 start | a module that prints while it is imported gets neither graph nor error (`LoadAnswered`) |
| `setup` | 3 calls, 2 dependencies of which 1 is probed | an undisturbed start fails for a cause of its own only (`FailsForCause`) and finds the dependencies (`SoloSpawnFindsDeps`) |
| `selection` | 2 dialogs, 2 starts at a time, 2 graphs of which 1 can be discovered | a session whose start was begun last runs the graph confirmed last (`LastChoiceRuns`) |
| `records` | 2 windows, 3 runs, 2 LLM calls, a list of 2 | the counts agree (`ExactRunsAgree`), a cut write costs one record (`LossBounded`), what is ticked is compared (`ComparedAreTicked`) |

Why these bounds are enough. *Worker*: a run, a command for a pause, a Stop and the next
run are four lines, which is one more than any of the races needs (the abort flag: run,
abort, run). Two nodes and a loop give a breakpoint before, after, on and off the resumed
node, and step mode a second node to stop at. *Lineage*: with a limit of 4, seven
checkpoints reach past the limit after a fork, an override and a loop; the router's edge to itself
is what told `DecisionsMatch` from what the docstring says. The code's
limit is 50; nothing depends on the number. *Session*: three starts give a current one, a
superseded one and one in between. *Compare*: four decisions allow two separate
edits around a common one, with repeated decisions on either side. *Console*: a start, a command
at a pause and a Stop or a second start are three posts; two node runs tell a run from the one a
fork left behind, and two nodes a repeated node from a new one. *Link*: two starts give an old socket beside a new one, and every overlap of their calls; two posts set a
ring and clear it, or set it and run, in each session; two events in flight are a graph and what follows it. *Setup*: one call
leaves a wreck, one is disturbed or not while repairing it, a third comes after; one
dependency is probed and one is not. *Selection*: two dialogs race, one graph is chosen by its entry and one through
the adapter only. *Records*: one record is cut, one is glued to it, one follows; three runs overflow a
list and a selection of two. The theorems of section 5 remove these bounds for every safety
property of every passing run; the bounds of the liveness checks stay.

Symmetry is not used: the graphs are asymmetric and starts are ordered.

Some definitions state what the repository says and the code does not do. Two have a run (`session_orphan`,
`link_print`); the others stay beside the properties they qualify, and TLC refutes each within seconds when its name is
put in the module's .cfg in place of what is there. Under `INVARIANTS`: `Lineage!ChangesAreNodes`,
`Console!EveryRunSaved`, `Console!OnePause`, `Link!RemountClean`, `Selection!LastChoiceWins` and
`Setup!NotFoundMeansNotRunnable`. Under `PROPERTIES`:
`Worker!ShutdownExits` (with `Offered <- ShutdownKinds`), `Worker!AnswerFitsInterrupt`
(with `Offered <- AnswerKinds`) and `SidecarSession!OldStartHarmless`.

## 4. Fairness

`Worker`'s liveness assumes weak fairness of the reader thread and of the coroutine's own
steps, which the operating system's and asyncio's schedulers give them. Nothing is
assumed of the client: it need not write another line, and a stream need not be
offered a Stop. The node of the user's graph under execution is assumed to return or raise;
one that hangs is outside what the worker can do about it.

`SidecarSession` assumes that the awaits of a start settle (`connect` gives up
after 21 attempts, the others are bounded by their processes) and that a process which
was asked to stop does. Nothing is assumed of the user, and no child need ever crash.

`Console` assumes that the worker's coroutine, the extension host and the webview are
scheduled, each one weakly fair as a whole. The user need not click, and the worker need not die;
`StopAnswered` accepts a dead worker, since the panel is not told.

`Link`, `Setup`, `Selection` and `Records` state safety only: what they promise is what holds once
things have settled, and what settles them is stated with `SidecarSession`.

## 5. What is proved

All proofs are checked by TLAPS for every value of the constants, under the
named assumptions in the modules (the graph is a graph, the bounds are naturals). Every invariant and every
safety action property that a passing run checks is the statement of a theorem.

* `WorkerProofs`: `TypeCorrect`, `AbortsOwned`, `LateEventsBounded`, `BreakpointsCorrect`
  and `ProtocolImplemented` (refinement of `RunProtocol`). The invariant behind
  them strengthens the type invariant with: the cursors are ordered; a live run cleared the flag
  after some prefix of the lines; in a stream the stop lists are those of the breakpoints at
  its start or of step mode; an event that has passed the flag belongs to a stream, and one that was late to the run that was
  aborted. `HasCheckpointer = FALSE` is covered by the proofs only.
  Then `StepsAreSingle`, `PausesJustified` and `PausesLeftOnPurpose`. `StepRunsOneNode`
  is not inductive: it needs that `step_mode` says whether the last command taken was a Step and is down
  again once that stream was examined (`ModeOfLast`), that a running stream has the lists of its
  mode and of the breakpoints in force (`ListsOfMode`), and that a Step's stream is in front of its node, in it or
  armed behind it (`OneNode`). `StopReason` carries why a stream ended to where the pause is announced;
  a stream that the flag ended needs no reason, and never pauses.
* `LineageProofs`: `ParentsOlder`, `RewindCoversPath`, `NamedNodesRan`, `DecisionsAreChoices` and
  `TimelineExplains`. The inductive invariant is small: parents are older, and each checkpoint came about from its
  parent in one of the ways the framework has (`Grown`: a step ran its whole frontier, a copy is in front of the same
  nodes with the same values, and so on); a commit changes no older checkpoint. The work is in the reconstructions. `PathTo`
  is a ladder, each rung the parent of the one before (`Ladder`), so it goes down in age and everything on it is
  reached by climbing (`LineClimbs`). The checkpoints that collapsing skips are all in front of the node of the
  newest one above them, which covers them (`HistoryCoversPath`). For the state timeline, values that differ between two
  rungs differ at some rung between (`Telescope`), the last such rung is the last entry for the channel, and between where the timeline begins and the newest checkpoint there
  is no START (`BeginningIs`).
* `CompareProofs`: `CompareTyped`, `NoFalseChange`, `NothingLost`, `AlignmentLongest` and `DivergenceFirst`. The scan's
  invariant says that the operations so far replay the prefixes of both runs that were taken (`Took`), that the report names
  those that are without a partner (`Told`), and how the open difference at the end of the operations relates to the
  positions reached (`LastDiffers`). Optimality has two halves: an entry of the table bounds
  every common subsequence of what is left of the runs, by induction over their lengths (`CommonBounds`), and what is taken
  as common and what the table promises of the rests always add up to what it promised of the runs (`Count`).
* `ConsoleProofs`: `ConsoleTyped`, `HistoryTellsRuns`, `InputsRecorded` and `PanelSuitsWorker`. The last speaks of
  states where nothing is in flight, and the history is behind the worker by whatever is, so none of them is inductive.
  Their invariants say what recorder and panel *will* be: `Reaches(T, a, events, b)` holds when taking
  the events one after another leads from a to b, and the recorder (`RecorderFollows`), the input it records
  (`InputsFollow`) and the panel (`PanelFollows`) reach, by the events still under way, what the worker's present state and the
  finished runs ask for. An event that the worker emits then extends the chain at its end (`ReachesOneMore`), and one that the
  recorder or the panel takes shortens it at its head (`ReachesRest`); neither disturbs the other.
  `Shape` holds what is true of the worker side alone: the current run, its path and what its stream runs first. A relay that
  broke lets the chains end early, at a part of what was emitted.
* `LinkProofs`: the invariant of `SidecarSession` is `TypeOK` with `Numbered` (calls that have not begun are
  unused), `Superseded` and `Unasked` (which children may still be alive, and which were asked to
  stop), `Solo` (without overlap at most one call is under way, and it is the newest)
  and `StoppedNeverShown`. From it follow `SessionTyped`, `NoOrphanWithoutOverlap`, `RunningMeansConnected`,
  `FailedMeansStopped`, `StoppedUnreachable` and `KillIsNotACrash`.
  `SessionImplemented`: every behaviour of `Link` is one of `SidecarSession`, so that
  `NoOrphanInComposition` and `KillIsNotACrashInComposition` are corollaries; `LayoutNeverStale`;
  and `PanelShowsSession`, `RefusalReachesPanel`, `RingsReachWorker`. The last three speak of states where
  nothing is in flight and are far from inductive. Their invariant says what *will* be shown: for the session in
  place, the graph is shown or on its way, the last event on its way (or what is shown, without one) decides
  whether a run is (`Agreement`), and, unless the worker was not sent the ring, the last breakpoint command on its way (or the worker's set) is the ring
  (`RingsKept`). For that no other socket may have events on their way once the session is connected (`Alone`), which
  needs that sessions which do not overlap are the newest (`Newest`), that a sidecar no
  call has connected to has no relay (`Unborn`), and that a worker serves only behind its relay (`Imported`).
* `SetupProofs`: `FailureHasCause` and `SpawnFindsDeps`. While an undisturbed call relies on the directory, the
  only process that can run is its own (`Undisturbed`), so what its processes have put there stays
  (`Progress`), and when its pip is done everything is there, whatever the directory held before (`Complete`).
  `LastChoiceInForce`, about `Selection`: the update of the setting that was asked for last names the choice, directly or
  through the adapter (`LastUpdateNames`), and the start begun last always read the setting as it is, because whoever
  writes it starts one (`SessionReadSetting`).
* `RecordsProofs`: `CutsCostOne`, `CountsAgree` and `TickedAreCompared`. A cut write is paid for when the next record is glued to the
  fragment (`Unpaid`), and that only one record is lost needs that the record on the last line is not one that was
  written whole (`Fresh`); the counts agree because both add the same for an exactly counted call; a window never ticks
  a run twice nor more than two (`Selected`).

What a recursive definition computes is proved here where the recursion is a function: its table is taken
with CHOOSE, shown to exist by induction over a set of naturals (`SetInduction`, from the least number of a set),
and then unfolded once where needed. Filters are written with `At` of `Subsequences`, which selects positions
without recursing, and its lemmas (appending, mapping, composing, comparing two selections) are in `SubsequenceProofs`.

Model-checked only: liveness (`EveryLineTaken`, `StopEndsRun`, `StartSettles`, `StopAnswered`), since fairness and ENABLED are beyond the prover. The two violation runs are TLC's.

## 6. What the work found

* A shutdown or end of input at a pause does not end the worker (`ShutdownExits`).
* An answer is matched to an interrupt by kind, not by id (`AnswerFitsInterrupt`).
* After a state override, the state timeline credits the edit to a node that did not run
  (`ChangesAreNodes`).
* A rewind to a router that may lead to itself is reported as a decision of that router for itself, which nobody took:
  the copy that the rewind leaves looks like a step. Found when `DecisionsMatch` resisted its proof; the run's graph has
  such a router since, and `CopyChosen` names the entries. The rewind timeline lists a node's iterations on itself once.
* Overlapping starts leak a sidecar (`session_orphan`), an old start's failure kills the new one
  (`OldStartHarmless`), and an older choice may end up in force (`LastChoiceWins`).
* The status bar can never say "stopped" (`StoppedNeverShown`, proved).
* A run whose graph raises is never saved (`EveryRunSaved`).
* A rejected answer makes the panel say that nothing runs while the worker still waits: after the
  correct answer Stop is gone and Run enabled until the run ends. `Steerable` excludes it by `refused`.
* The rewind timeline stays clickable after a run finished, where a fork is dropped.
* A worker that dies in mid-run is not reported to anyone.
* A graph module that prints while it is imported ends the load without a graph or an error (`link_print`).
* When an established socket breaks, the handler meant for the first connection makes another
  one, while commands keep going to the dead socket (`SocketBreaks`; `RingsHonoured` excludes its rings by `unheard`).
* A restart does not reload the page: rings of the session before are shown while the new worker has no breakpoint,
  and the first click on one clears what is not there (`RemountClean`).
* A fork from an interrupt to the row before `__start__`, with a breakpoint on the first node, leaves the interrupt's form beside
  the breakpoint's controls, and an answer given there is dropped (`OnePause`).
* Late events of an old socket reach the new recorder, which saves the old run under the new entry.
* A slow or failing `import langgraph` is told as "interpreter not found" (`NotFoundMeansNotRunnable`), and the probe
  of the environment does not look for `websockets`.
* A record written behind a cut one is lost with it, and the recorder counts no prompt tokens for models without usage data,
  where the panel counts its estimate.
* The run form overrides most defaults of the graph's input schema (`model.ts` 176).

## 7. What is not modelled, and the plan

Not modelled: graph introspection (node kinds, docs, sources, edge labels, the input schema), the AST scan of
static discovery, what React and ELK draw, the wire schemas beyond the fields that steer control, the form's
conversions, build tools and documents. They are pure or run once, and their own tests reach them. Of the worker
the state diff at a breakpoint (`prev`) is left out, of the extension `pickFolder` and `openSource`.

Two overlapping starts are in `SidecarSession`, `Setup`, `Selection` and `Link`, but the properties promise nothing inside
an overlap except `KilledNotBlamed`, `LayoutCurrent` and, for the start begun last, `LastChoiceRuns`: the code does not either.

The plan, in order:

1. `Lineage` with pauses: the diff shown at a breakpoint, which is against the previous pause, and `get_state`'s.
2. Proofs that the liveness checks rest on: that the actions they assume fair are possible whenever they are needed,
   as plain formulas about the guards.
3. `Console` across two panels of one project: both read the history file that `Records` models.
