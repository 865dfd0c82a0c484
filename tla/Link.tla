-------------------------------- MODULE Link --------------------------------
(***************************************************************************)
(* One panel and the sessions it goes through.  SidecarSession says how     *)
(* sessions start and end; this module adds what flows between them: the    *)
(* relay of each sidecar (server.py) with the worker it spawns for a        *)
(* connection, the events in flight on each socket, onServerEvent, which    *)
(* hands the events of every socket to the one current panel, and the panel *)
(* (App.tsx) with its graph, breakpoint rings and asynchronous layout.      *)
(*                                                                         *)
(* A worker is idle or runs; Worker has the rest.  The graph of session i   *)
(* is named i, and one node of it can carry a breakpoint.                   *)
(*                                                                         *)
(* A start assigns the page's html (extension.ts:379), which is the same    *)
(* string every time, and VS Code reloads no page for that: what the page   *)
(* has lasts as long as its panel, through every restart.                   *)
(***************************************************************************)
EXTENDS SidecarSession, Sequences

CONSTANTS
  MaxPosts,  \* bound: commands posted from one start to the next
  MaxEvents  \* bound: events in flight on one socket

ASSUME LinkAssumption == MaxPosts \in Nat /\ MaxEvents \in Nat

VARIABLES
  relay,     \* the relay's connection of each sidecar
  worker,    \* its worker
  line,      \* the worker's first line, on its way to the relay
  stops,     \* the worker has the breakpoint
  down,      \* commands on their way to the worker
  up,        \* events on their way to the extension
  view,      \* what the panel shows: graph, running, and the start whose error it shows
  ring,      \* the panel shows the breakpoint
  layout,    \* the graph whose positions the panel has
  solving,   \* layouts under way
  wanted,    \* the one whose result is awaited
  rejected,  \* history: graphs whose layout failed
  posts,     \* commands posted since the last start
  unheard,   \* history: the worker was not sent what the ring shows
  deaf       \* history: the current socket broke and its relay connection was made anew

chain == <<relay, worker, line, stops, down, up>>
drawn == <<layout, solving, wanted, rejected>>
shown == <<view, ring, drawn, posts, unheard>>
linkVars == <<chain, shown, deaf>>

Clean == [graph |-> None, running |-> FALSE, error |-> None]

LinkInit ==
  /\ Init
  /\ relay = [i \in Starts |-> "none"] /\ worker = [i \in Starts |-> "none"]
  /\ line = [i \in Starts |-> "none"] /\ stops = [i \in Starts |-> FALSE]
  /\ down = [i \in Starts |-> <<>>] /\ up = [i \in Starts |-> <<>>]
  /\ view = Clean /\ ring = FALSE /\ layout = None /\ solving = {} /\ wanted = None
  /\ rejected = {} /\ posts = 0 /\ unheard = FALSE /\ deaf = FALSE

Set(f, i, value) == f' = [f EXCEPT ![i] = value]

\* Assumed of the network: a socket the extension closed is silent, and what it held is
\* read, before a sidecar that was spawned after the closing listens.
Silent(i) == child[i] # "alive" /\ \E j \in Starts : j > i /\ relay[j] # "none"
Drained(i) == \A j \in 1 .. i - 1 : up[j] = <<>>

Sends(i, event) ==
  /\ Len(up[i]) < MaxEvents
  /\ Set(up, i, IF Silent(i) THEN up[i] ELSE Append(up[i], event))

-----------------------------------------------------------------------------
(* The relay and its worker.                                               *)

\* A connection is accepted and a worker spawned for it.
Accepts(i) ==
  /\ Set(relay, i, "loading") /\ Set(worker, i, "loading")
  /\ Set(line, i, "none") /\ Set(stops, i, FALSE) /\ Set(down, i, <<>>)

\* ws_endpoint ends, whatever the way: its finally kills a worker that is still there.
Ends(i) ==
  /\ Set(relay, i, "closed") /\ Set(worker, i, "gone")
  /\ Set(down, i, <<>>) /\ UNCHANGED <<line, stops>>

\* The worker imported the graph, or failed to; or the import prints before either.
WorkerAnswers(i) ==
  /\ worker[i] = "loading" /\ line[i] = "none"
  /\ \E first \in {"graph", "error", "nothing", "print"} :
       /\ Set(line, i, first)
       /\ Set(worker, i, IF first \in {"graph", "print"} THEN "idle" ELSE "gone")
  /\ UNCHANGED <<relay, stops, down, up>>

\* The first line is a graph: it is forwarded, and commands and events are from now on.
RelayServes(i) ==
  /\ relay[i] = "loading" /\ line[i] = "graph"
  /\ Set(relay, i, "serving") /\ Sends(i, "graph")
  /\ UNCHANGED <<worker, line, stops, down>>

\* The first line is an error, which is forwarded, or the worker ended without one.
RelayRefuses(i) ==
  /\ relay[i] = "loading" /\ line[i] \in {"error", "nothing"}
  /\ Ends(i) /\ Sends(i, "error")

\* Mutation of RelayTimesOut: the worker is killed and nobody told.
RelayTimesOut_Silently(i) == relay[i] = "loading" /\ Ends(i) /\ UNCHANGED up

\* The load takes too long, its line perhaps already in the pipe.
RelayTimesOut(i) == relay[i] = "loading" /\ Ends(i) /\ Sends(i, "error")

\* The first line is something the imported code printed: it is forwarded, no event for the
\* extension, and the relay fails to parse it.
RelayStumbles(i) ==
  /\ relay[i] = "loading" /\ line[i] = "print"
  /\ Ends(i) /\ UNCHANGED up

\* The extension closed the socket and terminated the sidecar.
RelayDrops(i) ==
  /\ relay[i] \in {"loading", "serving"} /\ child[i] = "dying"
  /\ Ends(i) /\ UNCHANGED up

\* Mutation of WorkerTakes: a breakpoint command flips the breakpoint.
WorkerTakes_Flips(i) ==
  /\ relay[i] = "serving" /\ worker[i] = "idle" /\ down[i] # <<>>
  /\ Set(down, i, Tail(down[i]))
  /\ IF Head(down[i]) = "run"
     THEN Set(worker, i, "running") /\ Sends(i, "run_started") /\ UNCHANGED stops
     ELSE Set(stops, i, ~stops[i]) /\ UNCHANGED <<worker, up>>
  /\ UNCHANGED <<relay, line>>

\* An idle worker takes the next command.
WorkerTakes(i) ==
  /\ relay[i] = "serving" /\ worker[i] = "idle" /\ down[i] # <<>>
  /\ Set(down, i, Tail(down[i]))
  /\ CASE Head(down[i]) = "run" ->
            Set(worker, i, "running") /\ Sends(i, "run_started") /\ UNCHANGED stops
       [] Head(down[i]) = "set_breakpoint" -> Set(stops, i, TRUE) /\ UNCHANGED <<worker, up>>
       [] Head(down[i]) = "clear_breakpoint" -> Set(stops, i, FALSE) /\ UNCHANGED <<worker, up>>
  /\ UNCHANGED <<relay, line>>

WorkerFinishes(i) ==
  /\ worker[i] = "running"
  /\ Set(worker, i, "idle") /\ Sends(i, "run_finished")
  /\ UNCHANGED <<relay, line, stops, down>>

Relay(i) ==
  \/ WorkerAnswers(i) \/ RelayServes(i) \/ RelayRefuses(i) \/ RelayTimesOut(i)
  \/ RelayStumbles(i) \/ RelayDrops(i) \/ WorkerTakes(i) \/ WorkerFinishes(i)

-----------------------------------------------------------------------------
(* The extension.                                                          *)

\* Mutation of Reduce: a graph leaves the run state as it is.
Reduce_RunKept(i, event) ==
  CASE event = "graph" -> [view EXCEPT !.graph = i, !.error = None]
    [] event = "run_started" -> [view EXCEPT !.running = TRUE]
    [] event = "run_finished" -> [view EXCEPT !.running = FALSE]
    [] event = "error" -> [view EXCEPT !.running = FALSE, !.error = i]

\* reduce, as far as it concerns the session.
Reduce(i, event) ==
  CASE event = "graph" -> [graph |-> i, running |-> FALSE, error |-> None]
    [] event = "run_started" -> [view EXCEPT !.running = TRUE]
    [] event = "run_finished" -> [view EXCEPT !.running = FALSE]
    [] event = "error" -> [view EXCEPT !.running = FALSE, !.error = i]

\* The layout effect: a new topology is solved, and the older results are unwanted.
Lays(graph) ==
  IF graph = view.graph THEN UNCHANGED <<solving, wanted>>
  ELSE solving' = solving \cup {graph} /\ wanted' = graph

\* onServerEvent: an event of any socket goes to the current panel.
Delivers(i) ==
  /\ up[i] # <<>>
  /\ Set(up, i, Tail(up[i]))
  /\ IF panel THEN view' = Reduce(i, Head(up[i])) /\ Lays(view'.graph)
     ELSE UNCHANGED <<view, solving, wanted>>
  /\ UNCHANGED <<relay, worker, line, stops, down, ring, layout, rejected, posts, unheard, deaf>>

\* A panel is created with an empty page, or disposed of.
Blank ==
  /\ view' = Clean /\ ring' = FALSE /\ posts' = 0 /\ unheard' = FALSE
  /\ layout' = None /\ solving' = {} /\ wanted' = None /\ rejected' = {}

\* startSession for a new panel.
Mounts == Blank /\ deaf' = FALSE /\ UNCHANGED chain

\* startSession for a panel there is: its page stays, with a worker to come that has not
\* been sent its breakpoint.
Remains ==
  /\ posts' = 0 /\ unheard' = ring /\ deaf' = FALSE
  /\ UNCHANGED <<chain, view, ring, drawn>>

Unmounts == Blank /\ UNCHANGED <<chain, deaf>>

\* The connection is up and the relay accepts it.
Opens(i) ==
  /\ Drained(i) /\ Accepts(i)
  /\ UNCHANGED <<up, shown, deaf>>

\* The established socket fails: its error handler, meant for the first connection, makes
\* another one, for which the relay spawns a worker, while `socket` stays the dead one.
SocketBreaks(i) ==
  /\ socket = i /\ relay[i] = "serving" /\ child[i] = "alive"
  /\ Accepts(i) /\ Set(up, i, <<>>)
  /\ deaf' = TRUE /\ unheard' = ring
  /\ UNCHANGED <<view, ring, drawn, posts>>

\* The sidecar's process is gone and its worker's input with it (a worker at a pause
\* stays for ever: Worker's shutdown at a pause).
Dissolves(i) ==
  /\ IF relay[i] = "none" THEN UNCHANGED <<relay, worker, line, stops, down>> ELSE Ends(i)
  /\ UNCHANGED <<up, shown, deaf>>

-----------------------------------------------------------------------------
(* The panel.                                                              *)

Connected ==
  socket # None /\ ~deaf /\ child[socket] = "alive" /\ relay[socket] \in {"loading", "serving"}

\* onDidReceiveMessage: a command goes to the current socket, or nowhere.
Posts(command) ==
  /\ panel /\ posts < MaxPosts /\ posts' = posts + 1
  /\ IF Connected THEN Set(down, socket, Append(down[socket], command)) ELSE UNCHANGED down
  /\ UNCHANGED <<relay, worker, line, stops, up, view, drawn, deaf>>

\* Run is enabled unless a run is shown, a graph or none.
ClickRun == ~view.running /\ Posts("run") /\ UNCHANGED <<ring, unheard>>

\* toggleBreakpoint, on a node that has a position and so is drawn.
ToggleBreakpoint ==
  /\ layout # None
  /\ ring' = ~ring /\ unheard' = ~Connected
  /\ Posts(IF ring THEN "clear_breakpoint" ELSE "set_breakpoint")

\* Mutation of LayoutSolved: the last result to arrive is shown.
LayoutSolved_AnyResult(graph) ==
  /\ graph \in solving /\ solving' = solving \ {graph}
  /\ layout' = graph
  /\ wanted' = IF graph = wanted THEN None ELSE wanted
  /\ UNCHANGED <<chain, view, ring, rejected, posts, unheard, deaf>>

\* elkLayout's promise: its result is shown if it is still wanted.
LayoutSolved(graph) ==
  /\ graph \in solving /\ solving' = solving \ {graph}
  /\ IF graph = wanted THEN layout' = graph /\ wanted' = None
     ELSE UNCHANGED <<layout, wanted>>
  /\ UNCHANGED <<chain, view, ring, rejected, posts, unheard, deaf>>

\* elkLayout's promise is rejected: logged, nothing is awaited any more, and the old
\* positions stay.
LayoutFails(graph) ==
  /\ graph \in solving /\ solving' = solving \ {graph}
  /\ wanted' = (IF graph = wanted THEN None ELSE wanted)
  /\ rejected' = rejected \cup {graph}
  /\ UNCHANGED <<chain, view, ring, layout, posts, unheard, deaf>>

-----------------------------------------------------------------------------
\* The steps of SidecarSession that touch nothing here.
OtherCall(i) ==
  \/ InterpreterFound(i) \/ InterpreterMissing(i) \/ VenvReady(i) \/ VenvFails(i)
  \/ Spawns(i) \/ SpawnFails(i) \/ PortFails(i) \/ ConnectFails(i)

\* A session the user begins or ends, and the panel with it.
UserMoves ==
  \/ OpenPanel /\ Mounts
  \/ Restart /\ Remains
  \/ DisposePanel /\ Unmounts

\* A step of a start: of its call, its relay or its events.
StartMoves(i) ==
  \/ OtherCall(i) /\ UNCHANGED linkVars
  \/ Connects(i) /\ Opens(i)
  \/ ChildExits(i) /\ Dissolves(i)
  \/ Relay(i) /\ UNCHANGED <<vars, shown, deaf>>
  \/ (Delivers(i) \/ SocketBreaks(i) \/ LayoutSolved(i) \/ LayoutFails(i)) /\ UNCHANGED vars

PanelMoves == (ClickRun \/ ToggleBreakpoint) /\ UNCHANGED vars

LinkNext == UserMoves \/ PanelMoves \/ \E i \in Starts : StartMoves(i)

LinkSpec == LinkInit /\ [][LinkNext]_<<vars, linkVars>>

-----------------------------------------------------------------------------
(* Correctness.                                                            *)

\* No start is under way or was overlapped, and nothing is in flight to the panel.
Settled ==
  /\ panel /\ Pending = {} /\ ~overlapped
  /\ sidecar # None /\ child[sidecar] = "alive"
  /\ \A i \in Starts : up[i] = <<>>

\* Once a session has settled, the panel shows its graph, and a run exactly when its
\* worker is in one; late events of an older session's socket have left nothing behind.
PanelAgrees ==
  Settled /\ relay[sidecar] = "serving" /\ worker[sidecar] # "gone" =>
    view.graph = sidecar /\ (view.running <=> worker[sidecar] = "running")

Told == view.error = sidecar /\ ~view.running

\* A load that has come to nothing, or took too long, is told in the panel, which shows its
\* error, not an older one, and no run; unless the code of the graph printed while it was
\* imported.
RefusalTold == Settled /\ relay[sidecar] = "closed" /\ line[sidecar] # "print" => Told

\* Every load is answered with the graph or an error ("forward the GraphTopology (or
\* graph_load_failed)", server.py).
LoadAnswered == Settled /\ relay[sidecar] = "closed" => Told

\* Once the commands posted have been taken, the ring in the panel is the breakpoint in the
\* worker, through restarts and broken sockets; unless the ring's last change was posted to
\* no session, or the ring is left over from an earlier worker.  One click on the node that
\* reaches the worker ends either disagreement.
RingsHonoured ==
  Settled /\ relay[sidecar] = "serving" /\ ~unheard /\ down[sidecar] = <<>> =>
    (ring <=> stops[sidecar])

\* "remount -> clean state" (extension.ts:379): a restart leaves no ring of an earlier
\* session behind.
RemountClean ==
  Settled /\ relay[sidecar] = "serving" /\ posts = 0 /\ ~deaf => (ring <=> stops[sidecar])

\* A panel that awaits no layout draws the one of the graph it shows, unless the solver
\* rejected that one; and in whatever order the solver's answers come, what it draws never
\* changes to the layout of a graph it does not show, after a rejection either.
LayoutCurrent ==
  /\ [](panel /\ wanted = None => layout = view.graph \/ view.graph \in rejected)
  /\ [][layout' \in {layout, None, view.graph}]_layout
=============================================================================
