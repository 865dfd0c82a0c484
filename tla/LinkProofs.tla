----------------------------- MODULE LinkProofs -----------------------------
(***************************************************************************)
(* Proofs about SidecarSession, for any number of starts, and about Link,   *)
(* for any number of starts, posts and events in flight: the sessions Link  *)
(* goes through are SidecarSession's, so that what is proved of them holds  *)
(* here; the panel draws the layout of the graph it shows unless the solver *)
(* rejected that; and once a session begun without overlap has settled, the *)
(* panel shows its graph, its run or its refusal, and its worker has the    *)
(* breakpoint the panel's ring was last set to in that session.             *)
(***************************************************************************)
EXTENDS Link, SequenceTheorems, TLAPS

-----------------------------------------------------------------------------
(* The sessions.                                                           *)


PreSpawn == {"interpreter", "venv", "port"}

\* Calls are numbered in order, and a call has a process only once it has spawned it.
Numbered ==
  \A i \in Starts :
    /\ i > starts => pc[i] = "unused"
    /\ pc[i] \in PreSpawn \cup {"unused"} => child[i] = "none"

\* A child that was asked to stop has been spawned, is no longer alive and is not the
\* current one.
Superseded ==
  \A i \in expected : child[i] \in {"dying", "dead"} /\ i # sidecar

\* Only a child that was asked to stop is dying.
Unasked == \A i \in Starts : child[i] = "dying" => i \in expected

\* While no start has overlapped another, the one call under way is the latest, the panel
\* is open, the current child is its child, and no other process is alive.
Solo ==
  ~overlapped =>
    /\ \A i \in Pending : i = starts /\ panel /\ status # "running"
    /\ \A i \in Pending : pc[i] \in PreSpawn => sidecar = None /\ status = "starting"
    /\ \A i \in Pending : pc[i] = "connect" => sidecar = i
    /\ \A i \in Starts : child[i] = "alive" => i = sidecar /\ status # "failed"
    /\ status = "running" /\ panel => sidecar # None /\ socket = sidecar
                                      /\ child[sidecar] = "alive"

SessionInv == TypeOK /\ Numbered /\ Superseded /\ Unasked /\ Solo /\ StoppedNeverShown
-----------------------------------------------------------------------------
LEMMA NoneIsNoStart == None \notin Starts
BY StartsAssumption DEF None, Starts

\* What killSidecar does to the invariant's parts, whatever the rest of a step does.
LEMMA Killed ==
  ASSUME TypeOK, Superseded, Unasked, KillSidecar
  PROVE  /\ expected' \subseteq {i \in Starts : child'[i] \in {"dying", "dead"}}
         /\ Superseded' /\ Unasked'
         /\ child' \in [Starts -> {"none", "alive", "dying", "dead"}]
         /\ sidecar' = None /\ socket' = None
         /\ \A i \in Starts : child[i] = "none" <=> child'[i] = "none"
         /\ \A i \in Starts : child'[i] = "alive" => child[i] = "alive" /\ i # sidecar
<1>1. CASE sidecar # None /\ child[sidecar] = "alive"
  <2>1. sidecar \in Starts /\ expected' = expected \cup {sidecar} /\ sidecar' = None
        /\ child' = [child EXCEPT ![sidecar] = "dying"]
    BY <1>1 DEF TypeOK, KillSidecar
  <2>2. Superseded' /\ Unasked'
    BY <2>1, NoneIsNoStart DEF TypeOK, Superseded, Unasked
  <2>. QED
    BY <1>1, <2>1, <2>2 DEF TypeOK, KillSidecar
<1>2. CASE ~(sidecar # None /\ child[sidecar] = "alive")
  BY <1>2, NoneIsNoStart DEF TypeOK, Superseded, Unasked, KillSidecar
<1>. QED
  BY <1>1, <1>2

\* The user's commands: a new start, or the panel closed.
LEMMA UserStep ==
  ASSUME SessionInv, User
  PROVE  SessionInv'
<1>. USE DEF SessionInv
<1>1. CASE Begins
  <2>1. starts + 1 \in Starts /\ starts' = starts + 1 /\ pc[starts + 1] = "unused"
    BY <1>1, StartsAssumption DEF Begins, TypeOK, Numbered, Starts
  <2>2. TypeOK'
    BY <1>1, <2>1, Killed DEF Begins, TypeOK, Starts, Awaiting, Goto, SetStatus, NextStatus, None
  <2>3. Numbered'
    BY <1>1, <2>1, Killed DEF Begins, TypeOK, Numbered, Goto, Starts, PreSpawn
  <2>4. Superseded' /\ Unasked' /\ StoppedNeverShown'
    BY <1>1, Killed DEF Begins, SetStatus, NextStatus, StoppedNeverShown
  <2>5. Solo'
    BY <1>1, <2>1, Killed DEF Begins, TypeOK, Solo, Pending, Awaiting, PreSpawn, Goto,
                               SetStatus, NextStatus, Starts
  <2>. QED
    BY <2>2, <2>3, <2>4, <2>5
<1>2. CASE DisposePanel
  <2>1. TypeOK' /\ Numbered' /\ Superseded' /\ Unasked' /\ StoppedNeverShown'
    BY <1>2, Killed DEF DisposePanel, TypeOK, Numbered, StoppedNeverShown, PreSpawn, None,
                         Starts, Awaiting
  <2>2. Solo'
    BY <1>2, Killed DEF DisposePanel, TypeOK, Solo, Pending
  <2>. QED
    BY <2>1, <2>2
<1>. QED
  BY <1>1, <1>2 DEF User, OpenPanel, Restart

\* A step of a call that gives up.
LEMMA GivingUp ==
  ASSUME SessionInv, NEW i \in Starts, i \in Pending,
         NEW event \in {"spawnError", "connectFail"}, GivesUp(i, event)
  PROVE  SessionInv'
<1>. USE DEF SessionInv
<1>1. TypeOK' /\ Numbered' /\ Superseded' /\ Unasked' /\ StoppedNeverShown'
  BY Killed DEF GivesUp, TypeOK, Numbered, StoppedNeverShown, PreSpawn, Goto, SetStatus,
                NextStatus, Pending, Awaiting, None, Starts
<1>2. status' = "failed" /\ UNCHANGED overlapped
  BY DEF GivesUp, SetStatus, NextStatus
<1>3. ~overlapped => \A j \in Starts : child'[j] # "alive"
  BY Killed DEF GivesUp, Solo
<1>4. ~overlapped => Pending' = {}
  BY DEF GivesUp, TypeOK, Solo, Pending, Awaiting, Goto
<1>5. Solo'
  BY <1>2, <1>3, <1>4 DEF Solo
<1>. QED
  BY <1>1, <1>5

\* A step of a call.
LEMMA CallStep ==
  ASSUME SessionInv, NEW i \in Starts, Call(i)
  PROVE  SessionInv'
<1>. USE DEF SessionInv
<1>1. CASE InterpreterFound(i) \/ VenvReady(i)
  BY <1>1 DEF InterpreterFound, VenvReady, Advances, Goto, TypeOK, Numbered, Superseded, Unasked, Solo,
              StoppedNeverShown, Pending, Awaiting, PreSpawn
<1>2. CASE InterpreterMissing(i) \/ VenvFails(i) \/ PortFails(i) \/ ConnectFails(i)
  BY <1>2, GivingUp DEF InterpreterMissing, VenvFails, PortFails, ConnectFails, Pending, Awaiting
<1>3. CASE Spawns(i) \/ SpawnFails(i)
  <2>1. pc[i] = "port" /\ child[i] = "none" /\ i \notin expected
    BY <1>3 DEF Spawns, SpawnFails, Numbered, Superseded, PreSpawn
  <2>2. TypeOK' /\ Numbered' /\ StoppedNeverShown'
    BY <1>3, <2>1 DEF Spawns, SpawnFails, Goto, TypeOK, Numbered, StoppedNeverShown, Awaiting,
                      PreSpawn, SetStatus, NextStatus
  <2>3. Superseded' /\ Unasked'
    BY <1>3, <2>1 DEF Spawns, SpawnFails, TypeOK, Superseded, Unasked
  <2>4. ASSUME ~overlapped
        PROVE  /\ Pending' = {i} /\ i = starts /\ pc'[i] = "connect" /\ sidecar' = i
               /\ panel' /\ starts' = starts /\ status' # "running"
               /\ \A j \in Starts : child'[j] = "alive" => j = i /\ status' # "failed"
    <3>1. i = starts /\ panel /\ status = "starting" /\ sidecar = None /\ Pending = {i}
      BY <2>1, <2>4 DEF Solo, Pending, Awaiting, PreSpawn
    <3>2. \A j \in Starts : child[j] # "alive"
      BY <2>4, <3>1, NoneIsNoStart DEF Solo
    <3>3. Pending' = {i} /\ pc'[i] = "connect" /\ sidecar' = i /\ UNCHANGED <<panel, starts>>
      BY <1>3, <2>1, <3>1 DEF Spawns, SpawnFails, Goto, TypeOK, Pending, Awaiting
    <3>4. status' # "running"
          /\ \A j \in Starts : child'[j] = "alive" => j = i /\ status' # "failed"
      <4>1. CASE Spawns(i)
        BY <3>1, <3>2, <4>1 DEF Spawns, TypeOK
      <4>2. CASE SpawnFails(i)
        BY <3>2, <4>2 DEF SpawnFails, TypeOK, SetStatus, NextStatus
      <4>. QED
        BY <1>3, <4>1, <4>2
    <3>. QED
      BY <3>1, <3>3, <3>4
  <2>6. Solo'
    BY <1>3, <2>4 DEF Spawns, SpawnFails, Solo, PreSpawn
  <2>. QED
    BY <2>2, <2>3, <2>6
<1>4. CASE Connects(i)
  <2>1. TypeOK' /\ Numbered' /\ Superseded' /\ Unasked' /\ StoppedNeverShown'
    BY <1>4 DEF Connects, Goto, TypeOK, Numbered, Superseded, Unasked, StoppedNeverShown, Awaiting,
                PreSpawn, SetStatus, NextStatus
  <2>2. ASSUME ~overlapped
        PROVE  /\ Pending' = {}
               /\ sidecar = i /\ i # None /\ child[i] = "alive"
    <3>1. i \in Pending /\ sidecar = i /\ i \notin expected
      BY <1>4, <2>2 DEF Connects, Solo, Pending, Awaiting, Superseded
    <3>2. child[i] = "alive"
      BY <1>4, <3>1 DEF Connects, Unasked
    <3>3. Pending' = {}
      BY <1>4, <2>2 DEF Connects, Goto, TypeOK, Solo, Pending, Awaiting
    <3>. QED
      BY <3>1, <3>2, <3>3, NoneIsNoStart
  <2>3. Solo'
    BY <1>4, <2>2 DEF Connects, Solo, SetStatus, NextStatus
  <2>. QED
    BY <2>1, <2>3
<1>. QED
  BY <1>1, <1>2, <1>3, <1>4 DEF Call

\* The exit of a process.
LEMMA ExitStep ==
  ASSUME SessionInv, NEW i \in Starts, ChildExits(i)
  PROVE  SessionInv'
<1>. USE DEF SessionInv
<1>1. status' \in {status, "failed"} /\ (i # sidecar => status' = status)
      /\ (i = sidecar => status' = "failed")
  BY DEF ChildExits, AfterExit, NextStatus, Superseded
<1>2. TypeOK' /\ Numbered' /\ Superseded' /\ Unasked' /\ StoppedNeverShown'
  BY <1>1 DEF ChildExits, TypeOK, Numbered, Superseded, Unasked, StoppedNeverShown, PreSpawn
<1>3. Solo'
  <2>1. CASE i = sidecar
    BY <1>1, <2>1, NoneIsNoStart DEF ChildExits, TypeOK, Solo, Pending
  <2>2. CASE i # sidecar
    BY <1>1, <2>2 DEF ChildExits, TypeOK, Solo, Pending
  <2>. QED
    BY <2>1, <2>2
<1>. QED
  BY <1>2, <1>3

\* Every step of the session keeps it.
LEMMA SessionStep == SessionInv /\ [Next]_vars => SessionInv'
<1>1. SessionInv /\ UNCHANGED vars => SessionInv'
  BY DEF vars, SessionInv, TypeOK, Numbered, Superseded, Unasked, Solo, StoppedNeverShown, Pending
<1>. QED
  BY <1>1, UserStep, CallStep, ExitStep DEF Next

LEMMA SessionStarts == Init => SessionInv
<1>1. 0 \in 0 .. MaxStarts
  BY StartsAssumption
<1>2. Init => TypeOK
  BY <1>1 DEF Init, TypeOK
<1>3. Init => Numbered /\ Superseded /\ Unasked /\ StoppedNeverShown
  BY DEF Init, Numbered, Superseded, Unasked, StoppedNeverShown
<1>4. Init => Solo
  BY NoneIsNoStart DEF Init, Solo, Pending, Awaiting
<1>. QED
  BY <1>2, <1>3, <1>4 DEF SessionInv

LEMMA SessionInvariant == Spec => []SessionInv
BY SessionStarts, SessionStep, PTL DEF Spec

-----------------------------------------------------------------------------
\* Type correctness of the session's globals.
THEOREM SessionTyped == Spec => []TypeOK
BY SessionInvariant, PTL DEF SessionInv

\* One start at a time leaks no sidecar process.
THEOREM NoOrphanWithoutOverlap == Spec => []SoloOwned
<1>1. SessionInv => SoloOwned
  BY DEF SessionInv, Solo, SoloOwned, LiveOwned
<1>. QED
  BY <1>1, SessionInvariant, PTL

\* One start at a time, "running" means a live process that the panel talks to.
THEOREM RunningMeansConnected == Spec => []SoloRunning
<1>1. SessionInv => SoloRunning
  BY DEF SessionInv, Solo, SoloRunning
<1>. QED
  BY <1>1, SessionInvariant, PTL

\* One start at a time, "failed" means nothing is left running.
THEOREM FailedMeansStopped == Spec => []SoloFailed
<1>1. SessionInv => SoloFailed
  BY DEF SessionInv, Solo, SoloFailed
<1>. QED
  BY <1>1, SessionInvariant, PTL

\* The status bar never says "stopped".
THEOREM StoppedUnreachable == Spec => []StoppedNeverShown
BY SessionInvariant, PTL DEF SessionInv

\* The exit of a child that was asked to stop is never reported as a failure.
THEOREM KillIsNotACrash == Spec => KilledNotBlamed
<1>1. ASSUME SessionInv, Next, NEW i \in expected, child[i] = "dying", child'[i] = "dead"
      PROVE  status' = "failed" => status = "failed"
  <2>. i \in Starts /\ i # sidecar
    BY <1>1 DEF SessionInv, TypeOK, Superseded
  <2>1. CASE User
    BY <1>1, <2>1 DEF SessionInv, TypeOK, User, OpenPanel, Restart, Begins, DisposePanel, KillSidecar, None
  <2>2. ASSUME NEW j \in Starts, Call(j)
        PROVE  FALSE
    <3>1. CASE \E e \in {"spawnError", "connectFail"} : GivesUp(j, e)
      BY <1>1, <3>1 DEF GivesUp, KillSidecar, SessionInv, TypeOK, None
    <3>2. CASE Spawns(j) \/ SpawnFails(j)
      BY <1>1, <3>2 DEF Spawns, SpawnFails, SessionInv, TypeOK, Numbered, PreSpawn
    <3>3. CASE InterpreterFound(j) \/ VenvReady(j) \/ Connects(j)
      BY <1>1, <3>3 DEF InterpreterFound, VenvReady, Advances, Connects
    <3>. QED
      BY <2>2, <3>1, <3>2, <3>3 DEF Call, InterpreterMissing, VenvFails, PortFails, ConnectFails
  <2>3. ASSUME NEW j \in Starts, ChildExits(j)
        PROVE  status' = status
    <3>1. j = i
      BY <1>1, <2>3 DEF ChildExits, SessionInv, TypeOK
    <3>. QED
      BY <2>3, <3>1 DEF ChildExits, AfterExit
  <2>. QED
    BY <1>1, <2>1, <2>2, <2>3 DEF Next
<1>2. SessionInv /\ [Next]_vars =>
        [\A i \in expected : child[i] = "dying" /\ child'[i] = "dead" =>
           (status' = "failed" => status = "failed")]_vars
  BY <1>1
<1>. QED
  BY <1>2, SessionInvariant, PTL DEF Spec, KilledNotBlamed

-----------------------------------------------------------------------------
(* The composition with relays, sockets and the panel.                     *)

Events == {"graph", "error", "run_started", "run_finished"}
Commands == {"run", "set_breakpoint", "clear_breakpoint"}

PanelTyped ==
  /\ view \in [graph : Starts \cup {None}, running : BOOLEAN, error : Starts \cup {None}]
  /\ up \in [Starts -> Seq(Events)] /\ down \in [Starts -> Seq(Commands)]

\* The layout that is waited for is the shown graph's.
Waited == wanted # None => wanted = view.graph

LayoutInv ==
  PanelTyped /\ Waited /\ (wanted = None => layout = view.graph \/ view.graph \in rejected)

-----------------------------------------------------------------------------
\* The composition adds nothing to the session's own steps.
LEMMA StepOfSession == [LinkNext]_<<vars, linkVars>> => [Next]_vars
<1>1. ASSUME NEW i \in Starts, OtherCall(i) PROVE Next
  BY <1>1 DEF OtherCall, Next, Call
<1> QED BY <1>1 DEF LinkNext, UserMoves, PanelMoves, StartMoves, Next, User, Call

\* Every behaviour of the composition is one of SidecarSession.
THEOREM SessionImplemented == LinkSpec => Spec
<1>1. LinkInit => Init
  BY DEF LinkInit
<1> QED BY <1>1, StepOfSession, PTL DEF LinkSpec, Spec

\* SoloOwned: without overlap no sidecar is leaked, whatever its relay and the panel do.
THEOREM NoOrphanInComposition == LinkSpec => []SoloOwned
BY SessionImplemented, NoOrphanWithoutOverlap, PTL

\* KilledNotBlamed likewise.
THEOREM KillIsNotACrashInComposition == LinkSpec => KilledNotBlamed
BY SessionImplemented, KillIsNotACrash, PTL

-----------------------------------------------------------------------------
\* An event appended to a socket is one of the four.
LEMMA SendsTyped ==
  ASSUME PanelTyped, NEW i \in Starts, NEW e \in Events, Sends(i, e)
  PROVE  up' \in [Starts -> Seq(Events)]
<1>1. Append(up[i], e) \in Seq(Events) /\ up[i] \in Seq(Events)
  BY DEF PanelTyped
<1> QED BY <1>1 DEF Sends, Set, PanelTyped

\* A connection that begins or ends has no commands on their way.
LEMMA EmptiedTyped ==
  ASSUME PanelTyped, NEW i \in Starts, Set(down, i, <<>>)
  PROVE  down' \in [Starts -> Seq(Commands)]
  BY DEF PanelTyped, Set

\* The relay and its worker put only events on the socket and take only commands.
LEMMA RelayTyped ==
  ASSUME PanelTyped, NEW i \in Starts, Relay(i)
  PROVE  up' \in [Starts -> Seq(Events)] /\ down' \in [Starts -> Seq(Commands)]
<1>1. CASE WorkerAnswers(i)
  BY <1>1 DEF PanelTyped, WorkerAnswers
<1>2. CASE RelayServes(i)
  BY <1>2, SendsTyped DEF RelayServes, Events, PanelTyped
<1>3. CASE RelayRefuses(i) \/ RelayTimesOut(i)
  BY <1>3, SendsTyped, EmptiedTyped DEF RelayRefuses, RelayTimesOut, Ends, Events
<1>4. CASE RelayStumbles(i) \/ RelayDrops(i)
  BY <1>4, EmptiedTyped DEF RelayStumbles, RelayDrops, Ends, PanelTyped
<1>5. CASE WorkerTakes(i)
  <2>1. /\ down[i] \in Seq(Commands) /\ down[i] # <<>> /\ Set(down, i, Tail(down[i]))
    BY <1>5 DEF WorkerTakes, PanelTyped
  <2>2. Head(down[i]) \in Commands /\ Tail(down[i]) \in Seq(Commands)
    BY <2>1
  <2>3. up' = up \/ Sends(i, "run_started")
    BY <1>5, <2>2 DEF WorkerTakes, Commands
  <2>4. up' \in [Starts -> Seq(Events)]
    BY <2>3, SendsTyped DEF Events, PanelTyped
  <2> QED BY <2>1, <2>2, <2>4 DEF Set, PanelTyped
<1>6. CASE WorkerFinishes(i)
  BY <1>6, SendsTyped DEF WorkerFinishes, Events, PanelTyped
<1> QED BY <1>1, <1>2, <1>3, <1>4, <1>5, <1>6 DEF Relay

\* An event changes the shown graph only if it brings one, whose layout is then wanted.
LEMMA DeliveryKeeps ==
  ASSUME LayoutInv, NEW i \in Starts, Delivers(i)
  PROVE  LayoutInv'
<1>1. up[i] \in Seq(Events) /\ up[i] # <<>>
  BY DEF Delivers, LayoutInv, PanelTyped
<1>2. Head(up[i]) \in Events /\ Tail(up[i]) \in Seq(Events)
  BY <1>1
<1>3. up' \in [Starts -> Seq(Events)] /\ down' \in [Starts -> Seq(Commands)]
  BY <1>2 DEF Delivers, Set, LayoutInv, PanelTyped
<1>4. CASE panel
  <2>1. view' = Reduce(i, Head(up[i])) /\ Lays(view'.graph) /\ layout' = layout /\ rejected' = rejected
    BY <1>4 DEF Delivers
  <2>2. /\ view' \in [graph : Starts \cup {None}, running : BOOLEAN, error : Starts \cup {None}]
        /\ view'.graph = view.graph \/ view'.graph = i
    BY <1>2, <2>1 DEF Reduce, Events, LayoutInv, PanelTyped
  <2>3. CASE view'.graph = view.graph
    BY <1>3, <2>1, <2>2, <2>3 DEF Lays, LayoutInv, PanelTyped, Waited
  <2>4. CASE view'.graph # view.graph
    <3>1. wanted' = view'.graph /\ wanted' # None
      BY <2>1, <2>2, <2>4, NoneIsNoStart DEF Lays
    <3> QED BY <1>3, <2>2, <3>1 DEF LayoutInv, PanelTyped, Waited
  <2> QED BY <2>3, <2>4
<1>5. CASE ~panel
  BY <1>3, <1>5 DEF Delivers, LayoutInv, PanelTyped, Waited
<1> QED BY <1>4, <1>5

\* The steps of a session: the panel is loaded or gone, or keeps what it has.
LEMMA SessionKeeps ==
  ASSUME LayoutInv,
         Mounts \/ Remains \/ Unmounts \/ UNCHANGED linkVars
         \/ \E i \in Starts : Opens(i) \/ Dissolves(i) \/ SocketBreaks(i)
  PROVE  LayoutInv'
<1>1. CASE Mounts \/ Unmounts
  <2>1. view' = Clean /\ wanted' = None /\ layout' = None /\ up' = up /\ down' = down
    BY <1>1 DEF Mounts, Unmounts, Blank, chain
  <2>2. Clean \in [graph : Starts \cup {None}, running : BOOLEAN, error : Starts \cup {None}] /\ Clean.graph = None
    BY DEF Clean
  <2> QED BY <2>1, <2>2 DEF LayoutInv, PanelTyped, Waited
<1>2. CASE Remains \/ UNCHANGED linkVars
  BY <1>2 DEF Remains, linkVars, chain, shown, drawn, LayoutInv, PanelTyped, Waited
<1>3. ASSUME NEW i \in Starts, Opens(i) \/ Dissolves(i) \/ SocketBreaks(i) PROVE LayoutInv'
  <2>1. /\ UNCHANGED <<view, drawn>> /\ (up' = up \/ Set(up, i, <<>>))
        /\ down' = down \/ Set(down, i, <<>>)
    BY <1>3 DEF Opens, Dissolves, SocketBreaks, Accepts, Ends, shown
  <2>2. up' \in [Starts -> Seq(Events)]
    <3>1. <<>> \in Seq(Events) /\ up \in [Starts -> Seq(Events)]
      BY DEF LayoutInv, PanelTyped
    <3> QED BY <2>1, <3>1 DEF Set
  <2> QED BY <2>1, <2>2, EmptiedTyped DEF drawn, LayoutInv, PanelTyped, Waited
<1> QED BY <1>1, <1>2, <1>3

\* A command that is posted leaves view and layout alone.
LEMMA PostKeeps ==
  ASSUME LayoutInv, ClickRun \/ ToggleBreakpoint
  PROVE  LayoutInv'
<1>1. PICK command \in Commands : Posts(command)
  <2>1. CASE ClickRun
    BY <2>1 DEF ClickRun, Commands
  <2>2. CASE ToggleBreakpoint
    <3>1. PICK command \in Commands : command = IF ring THEN "clear_breakpoint" ELSE "set_breakpoint"
      BY DEF Commands
    <3>2. Posts(command)
      BY <2>2, <3>1 DEF ToggleBreakpoint, Posts, Set
    <3> QED BY <3>2
  <2> QED BY <2>1, <2>2
<1>2. down' \in [Starts -> Seq(Commands)]
  <2>1. CASE ~Connected
    BY <1>1, <2>1 DEF Posts, LayoutInv, PanelTyped
  <2>2. CASE Connected /\ socket \in Starts
    <3>1. Append(down[socket], command) \in Seq(Commands)
      BY <2>2 DEF LayoutInv, PanelTyped
    <3> QED BY <1>1, <2>2, <3>1 DEF Posts, Set, LayoutInv, PanelTyped
  <2>3. CASE Connected /\ socket \notin Starts
    BY <1>1, <2>3 DEF Posts, Set, LayoutInv, PanelTyped
  <2> QED BY <2>1, <2>2, <2>3
<1> QED BY <1>1, <1>2 DEF Posts, drawn, LayoutInv, PanelTyped, Waited

\* Every step keeps the invariant; only a result that is still wanted changes the layout.
LEMMA LayoutKept == LayoutInv /\ [LinkNext]_<<vars, linkVars>> => LayoutInv'
<1> SUFFICES ASSUME LayoutInv, [LinkNext]_<<vars, linkVars>> PROVE LayoutInv'
  OBVIOUS
<1>1. ASSUME NEW i \in Starts, Relay(i) /\ UNCHANGED <<vars, shown, deaf>> PROVE LayoutInv'
  BY <1>1, RelayTyped DEF shown, drawn, LayoutInv, PanelTyped, Waited
<1>2. ASSUME NEW i \in Starts, LayoutSolved(i) PROVE LayoutInv'
  BY <1>2, NoneIsNoStart DEF LayoutSolved, chain, LayoutInv, PanelTyped, Waited
<1>3. ASSUME NEW i \in Starts, LayoutFails(i) PROVE LayoutInv'
  BY <1>3 DEF LayoutFails, chain, LayoutInv, PanelTyped, Waited
<1>4. CASE UNCHANGED <<vars, linkVars>>
  BY <1>4, SessionKeeps
<1> QED BY <1>1, <1>2, <1>3, <1>4, DeliveryKeeps, SessionKeeps, PostKeeps
  DEF LinkNext, UserMoves, PanelMoves, StartMoves

\* What is drawn changes only to the shown graph's layout, or to a new panel's none.
LEMMA DrawsShown ==
  ASSUME LayoutInv, [LinkNext]_<<vars, linkVars>>
  PROVE  [layout' \in {layout, None, view.graph}]_layout
<1>1. ASSUME NEW i \in Starts, LayoutSolved(i) PROVE layout' \in {layout, view.graph}
  BY <1>1, NoneIsNoStart DEF LayoutSolved, LayoutInv, Waited
<1>2. ASSUME UserMoves PROVE layout' \in {layout, None}
  BY <1>2 DEF UserMoves, Mounts, Unmounts, Blank, Remains, drawn
<1>3. ASSUME NEW i \in Starts, StartMoves(i), ~LayoutSolved(i) PROVE layout' = layout
  BY <1>3 DEF StartMoves, linkVars, shown, drawn, Opens, Dissolves, Delivers, SocketBreaks, LayoutFails
<1>4. ASSUME PanelMoves \/ UNCHANGED <<vars, linkVars>> PROVE layout' = layout
  BY <1>4 DEF PanelMoves, ClickRun, ToggleBreakpoint, Posts, linkVars, shown, drawn
<1> QED BY <1>1, <1>2, <1>3, <1>4 DEF LinkNext

\* LayoutCurrent: a panel that awaits no layout draws the one of the graph it shows, unless
\* it was rejected, and never turns to a layout of a graph it does not show (App.tsx's
\* layout effect).
THEOREM LayoutNeverStale == LinkSpec => LayoutCurrent
<1>1. LinkInit => LayoutInv
  BY DEF LinkInit, Clean, LayoutInv, PanelTyped, Waited
<1>2. LayoutInv => (panel /\ wanted = None => layout = view.graph \/ view.graph \in rejected)
  BY DEF LayoutInv
<1>3. LayoutInv /\ [LinkNext]_<<vars, linkVars>> => [layout' \in {layout, None, view.graph}]_layout
  BY DrawsShown
<1> QED BY <1>1, <1>2, <1>3, LayoutKept, PTL DEF LinkSpec, LayoutCurrent

-----------------------------------------------------------------------------
(* The sessions' relays and workers.                                       *)

Relays == {"none", "loading", "serving", "closed"}
Workers == {"none", "loading", "idle", "running", "gone"}
Lines == {"none", "graph", "error", "nothing", "print"}

ChainTyped ==
  /\ relay \in [Starts -> Relays] /\ worker \in [Starts -> Workers]
  /\ line \in [Starts -> Lines] /\ stops \in [Starts -> BOOLEAN]
  /\ ring \in BOOLEAN /\ unheard \in BOOLEAN /\ deaf \in BOOLEAN

\* Nothing was sent by a sidecar no call has connected to, and it has no relay.
Unborn ==
  \A i \in Starts : pc[i] \in PreSpawn \cup {"unused", "connect"} =>
    up[i] = <<>> /\ relay[i] = "none"

\* Without overlap the current sidecar is the latest call's, and the socket is its own.
Newest == ~overlapped => sidecar \in {None, starts} /\ socket \in {None, sidecar}

\* A worker serves once its first line was a graph.
Imported ==
  \A i \in Starts :
    /\ relay[i] = "loading" /\ line[i] = "graph" => worker[i] = "idle"
    /\ relay[i] = "serving" => worker[i] \in {"idle", "running"}
    /\ worker[i] = "loading" => relay[i] = "loading"
    /\ worker[i] = "running" => relay[i] = "serving"


BirthInv == SessionInv /\ PanelTyped /\ ChainTyped /\ Unborn /\ Newest /\ Imported

\* What a step of the session does to the parts of it that follow the calls.
LEMMA UserBirth ==
  ASSUME BirthInv, User, UNCHANGED chain
  PROVE  Unborn' /\ Newest' /\ Imported'
<1>1. KillSidecar /\ (UNCHANGED <<starts, pc>> \/ (starts' = starts + 1 /\ Goto(starts + 1, "interpreter")))
  BY DEF User, OpenPanel, Restart, DisposePanel, Begins
<1>2. sidecar' = None /\ socket' = None
  BY <1>1 DEF KillSidecar
<1>3. \A i \in Starts : child'[i] = "dead" <=> child[i] = "dead"
  BY <1>1 DEF KillSidecar, BirthInv, SessionInv, TypeOK
<1>4. Unborn'
  <2>1. \A i \in Starts : pc'[i] = pc[i] \/ pc[i] = "unused"
    BY <1>1 DEF Goto, BirthInv, SessionInv, TypeOK, Numbered
  <2> QED BY <1>3, <2>1 DEF chain, BirthInv, Unborn
<1> QED BY <1>2, <1>4 DEF chain, Newest, BirthInv, Imported

LEMMA CallBirth ==
  ASSUME BirthInv, NEW i \in Starts, OtherCall(i), UNCHANGED chain
  PROVE  Unborn' /\ Newest' /\ Imported'
<1>1. Imported'
  BY DEF chain, BirthInv, Imported
<1>2. CASE InterpreterFound(i) \/ VenvReady(i)
  BY <1>2, <1>1 DEF InterpreterFound, VenvReady, Advances, Goto, PreSpawn, chain,
                    BirthInv, SessionInv, TypeOK, Unborn, Newest
<1>3. CASE Spawns(i) \/ SpawnFails(i)
  <2>1. /\ pc[i] = "port" /\ Goto(i, "connect") /\ sidecar' = i /\ UNCHANGED <<starts, socket, overlapped>>
        /\ child' = [child EXCEPT ![i] = child'[i]] /\ child'[i] \in {"alive", "dead"}
    BY <1>3 DEF Spawns, SpawnFails, BirthInv, SessionInv, TypeOK
  <2>2. child[i] = "none"
    BY <2>1 DEF BirthInv, SessionInv, Numbered, PreSpawn
  <2>3. Unborn'
    BY <2>1, <2>2 DEF Goto, PreSpawn, chain, BirthInv, SessionInv, TypeOK, Unborn
  <2>4. ~overlapped => i = starts /\ sidecar = None
    BY <2>1 DEF BirthInv, SessionInv, Solo, Pending, Awaiting, PreSpawn
  <2>5. Newest'
    BY <2>1, <2>4 DEF BirthInv, Newest
  <2> QED BY <1>1, <2>3, <2>5
<1>4. CASE InterpreterMissing(i) \/ VenvFails(i) \/ PortFails(i) \/ ConnectFails(i)
  <2>1. KillSidecar /\ Goto(i, "done") /\ starts' = starts
    BY <1>4 DEF InterpreterMissing, VenvFails, PortFails, ConnectFails, GivesUp
  <2>2. sidecar' = None /\ socket' = None
    BY <2>1 DEF KillSidecar
  <2>3. \A j \in Starts : child'[j] = "dead" <=> child[j] = "dead"
    BY <2>1 DEF KillSidecar, BirthInv, SessionInv, TypeOK
  <2>4. Unborn'
    BY <2>1, <2>3 DEF Goto, PreSpawn, chain, BirthInv, SessionInv, TypeOK, Unborn
  <2> QED BY <1>1, <2>2, <2>4 DEF Newest
<1> QED BY <1>2, <1>3, <1>4 DEF OtherCall

\* A call that has connected is done, and its relay loads.
LEMMA OpensBirth ==
  ASSUME BirthInv, NEW i \in Starts, Connects(i), Opens(i)
  PROVE  ChainTyped' /\ Unborn' /\ Newest' /\ Imported'
<1>1. /\ pc[i] = "connect" /\ Goto(i, "done") /\ socket' = i
      /\ UNCHANGED <<starts, child, sidecar, overlapped>>
      /\ relay' = [relay EXCEPT ![i] = "loading"] /\ worker' = [worker EXCEPT ![i] = "loading"]
      /\ line' = [line EXCEPT ![i] = "none"] /\ stops' = [stops EXCEPT ![i] = FALSE]
      /\ up' = up /\ UNCHANGED <<ring, unheard, deaf>>
  BY DEF Connects, Opens, Accepts, Set, shown
<1>2. ChainTyped'
  BY <1>1 DEF BirthInv, ChainTyped, Relays, Workers, Lines
<1>3. Unborn'
  BY <1>1 DEF BirthInv, SessionInv, TypeOK, ChainTyped, Unborn, PreSpawn, Goto
<1>4. ~overlapped => i = sidecar
  BY <1>1 DEF BirthInv, SessionInv, Solo, Pending, Awaiting
<1>5. Newest'
  BY <1>1, <1>4 DEF BirthInv, Newest
<1>6. Imported'
  BY <1>1 DEF BirthInv, ChainTyped, Imported
<1> QED BY <1>2, <1>3, <1>5, <1>6

\* A relay that ends takes its worker with it.
LEMMA EndsImported ==
  ASSUME ChainTyped, Imported, NEW i \in Starts, Ends(i), UNCHANGED <<ring, unheard, deaf>>
  PROVE  ChainTyped' /\ Imported'
<1>1. /\ relay' = [relay EXCEPT ![i] = "closed"] /\ worker' = [worker EXCEPT ![i] = "gone"]
      /\ UNCHANGED <<line, stops>>
  BY DEF Ends, Set
<1> QED BY <1>1 DEF ChainTyped, Relays, Workers, Imported

LEMMA ExitBirth ==
  ASSUME BirthInv, NEW i \in Starts, ChildExits(i), Dissolves(i)
  PROVE  ChainTyped' /\ Unborn' /\ Newest' /\ Imported'
<1>1. /\ child' = [child EXCEPT ![i] = "dead"] /\ up' = up
      /\ UNCHANGED <<starts, pc, sidecar, socket, overlapped, ring, unheard, deaf>>
  BY DEF ChildExits, Dissolves, shown
<1>2. ChainTyped' /\ Imported'
  <2>1. CASE relay[i] = "none"
    BY <1>1, <2>1 DEF Dissolves, BirthInv, ChainTyped, Imported
  <2>2. CASE relay[i] # "none"
    BY <1>1, <2>2, EndsImported DEF Dissolves, BirthInv
  <2> QED BY <2>1, <2>2
<1>3. Unborn'
  <2>1. \A j \in Starts : relay[j] = "none" => relay'[j] = "none"
    BY DEF Dissolves, Ends, Set, BirthInv, ChainTyped
  <2> QED BY <1>1, <2>1 DEF BirthInv, Unborn
<1>4. Newest'
  BY <1>1 DEF BirthInv, Newest
<1> QED BY <1>2, <1>3, <1>4

\* The socket that breaks was an established one, and its relay begins anew.
LEMMA BreaksBirth ==
  ASSUME BirthInv, NEW i \in Starts, SocketBreaks(i), UNCHANGED vars
  PROVE  ChainTyped' /\ Unborn' /\ Newest' /\ Imported'
<1>1. /\ relay[i] = "serving" /\ child[i] = "alive" /\ socket = i /\ deaf' = TRUE
      /\ relay' = [relay EXCEPT ![i] = "loading"] /\ worker' = [worker EXCEPT ![i] = "loading"]
      /\ line' = [line EXCEPT ![i] = "none"] /\ stops' = [stops EXCEPT ![i] = FALSE]
      /\ up' = [up EXCEPT ![i] = <<>>] /\ unheard' = ring /\ ring' = ring
  BY DEF SocketBreaks, Accepts, Set
<1>2. ChainTyped'
  BY <1>1 DEF BirthInv, ChainTyped, Relays, Workers, Lines
<1>3. Unborn'
  BY <1>1 DEF BirthInv, PanelTyped, ChainTyped, Unborn, vars
<1>4. Newest'
  BY DEF BirthInv, Newest, vars
<1>5. Imported'
  BY <1>1 DEF BirthInv, ChainTyped, Imported
<1> QED BY <1>2, <1>3, <1>4, <1>5

\* A relay or worker that acts belongs to a call that is done.
LEMMA ActsBorn ==
  ASSUME BirthInv, NEW i \in Starts, Relay(i)
  PROVE  relay[i] \in {"loading", "serving"} /\ pc[i] = "done" /\ i <= starts
<1>1. relay[i] \in {"loading", "serving"}
  BY DEF BirthInv, Imported, Relay, WorkerAnswers, RelayServes, RelayRefuses, RelayTimesOut,
         RelayStumbles, RelayDrops, WorkerTakes, WorkerFinishes
<1>2. pc[i] = "done"
  BY <1>1 DEF BirthInv, SessionInv, TypeOK, Unborn, PreSpawn, Awaiting
<1>3. i \in Nat /\ starts \in Nat
  BY StartsAssumption DEF Starts, BirthInv, SessionInv, TypeOK
<1> QED BY <1>1, <1>2, <1>3 DEF BirthInv, SessionInv, Numbered

LEMMA RelayBirth ==
  ASSUME BirthInv, NEW i \in Starts, Relay(i), UNCHANGED <<vars, shown, deaf>>
  PROVE  ChainTyped' /\ Unborn' /\ Newest' /\ Imported'
<1>1. pc[i] = "done"
  BY ActsBorn
<1>2. \A j \in Starts \ {i} : up'[j] = up[j] /\ relay'[j] = relay[j]
  <2>1. relay' = relay \/ relay' = [relay EXCEPT ![i] = relay'[i]]
    BY DEF Relay, WorkerAnswers, RelayServes, RelayRefuses, RelayTimesOut, RelayStumbles, RelayDrops,
           WorkerTakes, WorkerFinishes, Ends, Set, BirthInv, ChainTyped
  <2>2. up' = up \/ up' = [up EXCEPT ![i] = up'[i]]
    <3>1. CASE RelayServes(i) \/ RelayRefuses(i) \/ RelayTimesOut(i) \/ WorkerFinishes(i)
      BY <3>1 DEF RelayServes, RelayRefuses, RelayTimesOut, WorkerFinishes, Sends, Set, BirthInv, PanelTyped
    <3>2. CASE WorkerAnswers(i) \/ RelayStumbles(i) \/ RelayDrops(i)
      BY <3>2 DEF WorkerAnswers, RelayStumbles, RelayDrops
    <3>3. CASE WorkerTakes(i)
      <4>1. Head(down[i]) \in Commands
        BY <3>3 DEF WorkerTakes, BirthInv, PanelTyped
      <4> QED BY <3>3, <4>1 DEF WorkerTakes, Commands, Sends, Set, BirthInv, PanelTyped
    <3> QED BY <3>1, <3>2, <3>3 DEF Relay
  <2> QED BY <2>1, <2>2 DEF BirthInv, PanelTyped, ChainTyped
<1>3. Unborn'
  BY <1>1, <1>2 DEF BirthInv, Unborn, PreSpawn, vars
<1>4. Newest'
  BY DEF BirthInv, Newest, vars
<1>5. ChainTyped' /\ Imported'
  <2>1. CASE RelayRefuses(i) \/ RelayTimesOut(i) \/ RelayStumbles(i) \/ RelayDrops(i)
    BY <2>1, EndsImported DEF BirthInv, RelayRefuses, RelayTimesOut, RelayStumbles, RelayDrops, shown
  <2>2. CASE WorkerAnswers(i)
    BY <2>2 DEF BirthInv, ChainTyped, Workers, Lines, Imported, WorkerAnswers, Set, shown
  <2>3. CASE RelayServes(i)
    BY <2>3 DEF BirthInv, ChainTyped, Relays, Imported, RelayServes, Set, shown
  <2>4. CASE WorkerTakes(i)
    <3>1. Head(down[i]) \in Commands
      BY <2>4 DEF WorkerTakes, BirthInv, PanelTyped
    <3>2. /\ relay[i] = "serving" /\ UNCHANGED <<relay, line>>
          /\ worker' = worker \/ worker' = [worker EXCEPT ![i] = "running"]
          /\ stops' = stops \/ \E b \in BOOLEAN : stops' = [stops EXCEPT ![i] = b]
      BY <2>4, <3>1 DEF WorkerTakes, Commands, Set
    <3> QED BY <3>2 DEF BirthInv, ChainTyped, Workers, Imported, shown
  <2>5. CASE WorkerFinishes(i)
    BY <2>5 DEF BirthInv, ChainTyped, Workers, Imported, WorkerFinishes, Set, shown
  <2> QED BY <2>1, <2>2, <2>3, <2>4, <2>5 DEF Relay
<1> QED BY <1>3, <1>4, <1>5

\* The panel's own steps change none of it.
LEMMA PanelBirth ==
  ASSUME BirthInv, UNCHANGED vars,
         ClickRun \/ ToggleBreakpoint \/ UNCHANGED linkVars
         \/ \E i \in Starts : Delivers(i) \/ LayoutSolved(i) \/ LayoutFails(i)
  PROVE  ChainTyped' /\ Unborn' /\ Newest' /\ Imported'
<1>1. UNCHANGED <<relay, worker, line, stops>>
  BY DEF ClickRun, ToggleBreakpoint, Posts, linkVars, chain, Delivers, LayoutSolved, LayoutFails
<1>2. ring' \in BOOLEAN /\ unheard' \in BOOLEAN /\ deaf' \in BOOLEAN
  BY DEF ClickRun, ToggleBreakpoint, Posts, linkVars, chain, shown, Delivers, LayoutSolved, LayoutFails,
         BirthInv, ChainTyped
<1>3. \A i \in Starts : up[i] = <<>> => up'[i] = <<>>
  BY DEF ClickRun, ToggleBreakpoint, Posts, linkVars, chain, Delivers, Set, LayoutSolved, LayoutFails,
         BirthInv, PanelTyped
<1>4. ChainTyped' /\ Imported'
  BY <1>1, <1>2 DEF BirthInv, ChainTyped, Imported
<1>5. Unborn' /\ Newest'
  BY <1>1, <1>3 DEF BirthInv, Unborn, Newest, vars
<1> QED BY <1>4, <1>5

\* Every step keeps what is known of the sessions' relays and workers.
LEMMA BirthKept == BirthInv /\ LayoutInv /\ [LinkNext]_<<vars, linkVars>> => BirthInv'
<1> SUFFICES ASSUME BirthInv, LayoutInv, [LinkNext]_<<vars, linkVars>> PROVE BirthInv'
  OBVIOUS
<1>1. SessionInv'
  BY StepOfSession, SessionStep DEF BirthInv
<1>2. PanelTyped'
  BY LayoutKept DEF LayoutInv
<1>3. CASE UserMoves
  <2>1. User /\ UNCHANGED chain
    BY <1>3 DEF UserMoves, User, Mounts, Remains, Unmounts
  <2>2. ChainTyped'
    BY <1>3 DEF UserMoves, Mounts, Remains, Unmounts, Blank, chain, BirthInv, ChainTyped
  <2> QED BY <1>1, <1>2, <2>1, <2>2, UserBirth DEF BirthInv
<1>4. ASSUME NEW i \in Starts, StartMoves(i) PROVE BirthInv'
  <2>1. CASE OtherCall(i) /\ UNCHANGED linkVars
    <3>1. UNCHANGED chain /\ ChainTyped'
      BY <2>1 DEF linkVars, chain, shown, BirthInv, ChainTyped
    <3> QED BY <1>1, <1>2, <2>1, <3>1, CallBirth DEF BirthInv
  <2>2. CASE Connects(i) /\ Opens(i)
    BY <1>1, <1>2, <2>2, OpensBirth DEF BirthInv
  <2>3. CASE ChildExits(i) /\ Dissolves(i)
    BY <1>1, <1>2, <2>3, ExitBirth DEF BirthInv
  <2>4. CASE Relay(i) /\ UNCHANGED <<vars, shown, deaf>>
    BY <1>1, <1>2, <2>4, RelayBirth DEF BirthInv
  <2>5. CASE (Delivers(i) \/ SocketBreaks(i) \/ LayoutSolved(i) \/ LayoutFails(i)) /\ UNCHANGED vars
    BY <1>1, <1>2, <2>5, BreaksBirth, PanelBirth DEF BirthInv
  <2> QED BY <1>4, <2>1, <2>2, <2>3, <2>4, <2>5 DEF StartMoves
<1>5. CASE PanelMoves
  BY <1>1, <1>2, <1>5, PanelBirth DEF PanelMoves, BirthInv
<1>6. CASE UNCHANGED <<vars, linkVars>>
  BY <1>1, <1>2, <1>6, PanelBirth DEF BirthInv
<1> QED BY <1>3, <1>4, <1>5, <1>6 DEF LinkNext

-----------------------------------------------------------------------------
(* What the panel will show and the worker will stop at, once everything on *)
(* its way has arrived.                                                     *)

\* The session in place was begun without overlap and its sidecar lives.
Live == panel /\ ~overlapped /\ sidecar # None /\ child[sidecar] = "alive"

\* Once its relay has been connected to, no other session has events on their way.
Alone == Live /\ relay[sidecar] # "none" => \A j \in Starts : j # sidecar => up[j] = <<>>

\* The graph and whether it runs: as shown, or as the last event on its way will have it.
Serves(i) ==
  /\ view.graph = i \/ \E k \in DOMAIN up[i] : up[i][k] = "graph"
  /\ worker[i] = "running" <=>
       IF up[i] = <<>> THEN view.running ELSE up[i][Len(up[i])] = "run_started"

Refuses(i) == IF up[i] = <<>> THEN Told ELSE up[i][Len(up[i])] = "error"

Agreement ==
  Live => /\ relay[sidecar] = "serving" => Serves(sidecar)
          /\ relay[sidecar] = "closed" /\ line[sidecar] # "print" => Refuses(sidecar)

\* A ring set, or left over, while a start is under way reaches no worker.
RingsLost == ~overlapped /\ ~unheard /\ Pending # {} => ~ring

Word(stop) == IF stop THEN "set_breakpoint" ELSE "clear_breakpoint"

\* The last breakpoint command of the queue, or without one the present state, is stop.
Settles(queue, now, stop) ==
  \/ (\A k \in DOMAIN queue : queue[k] = "run") /\ stop = now
  \/ \E k \in DOMAIN queue :
       queue[k] = Word(stop) /\ \A m \in DOMAIN queue : m > k => queue[m] = "run"

RingsKept ==
  Live /\ ~unheard /\ relay[sidecar] \in {"loading", "serving"} =>
    Settles(down[sidecar], stops[sidecar], ring)

Promised == Alone /\ Agreement /\ RingsLost /\ RingsKept

LinkInv == BirthInv /\ Promised

\* A live session is the latest, the only one with a live process, and owns the socket.
LEMMA LiveIsNewest ==
  ASSUME BirthInv, Live
  PROVE  /\ sidecar \in Starts /\ sidecar = starts /\ socket \in {None, sidecar}
         /\ \A j \in Starts : child[j] = "alive" => j = sidecar
BY DEF Live, BirthInv, SessionInv, TypeOK, Newest, Solo

\* A step that leaves the current session and the panel alone keeps what is promised.
LEMMA Aside ==
  ASSUME LinkInv, UNCHANGED <<ring, unheard, deaf>>,
         ~overlapped' /\ Pending' # {} => ~overlapped /\ Pending # {},
         Live' => \/ relay'[sidecar'] = "none"
                  \/ /\ Live /\ sidecar' = sidecar
                     /\ relay'[sidecar] = relay[sidecar] /\ worker'[sidecar] = worker[sidecar]
                     /\ line'[sidecar] = line[sidecar] /\ stops'[sidecar] = stops[sidecar]
                     /\ down'[sidecar] = down[sidecar] /\ up' = up /\ view' = view
  PROVE  Promised'
<1>1. Alone'
  BY DEF LinkInv, Promised, Alone
<1>2. Agreement'
  BY DEF LinkInv, Promised, Agreement, Serves, Refuses, Told
<1>3. RingsLost'
  BY DEF LinkInv, Promised, RingsLost
<1>4. RingsKept'
  BY DEF LinkInv, Promised, RingsKept, Settles, Word
<1> QED BY <1>1, <1>2, <1>3, <1>4 DEF Promised

\* A session that begins or ends leaves nothing promised but what its ring means.
LEMMA UserPromise == ASSUME LinkInv, UserMoves PROVE Promised'
<1>1. sidecar' = None
  BY DEF UserMoves, OpenPanel, Restart, Begins, DisposePanel, KillSidecar
<1>2. ring' = FALSE \/ (ring' = ring /\ unheard' = ring)
  BY DEF UserMoves, Mounts, Remains, Unmounts, Blank
<1>3. ring \in BOOLEAN
  BY DEF LinkInv, BirthInv, ChainTyped
<1>4. ~unheard' => ~ring'
  BY <1>2, <1>3
<1> QED BY <1>1, <1>4 DEF Promised, Live, Alone, Agreement, RingsLost, RingsKept

\* The steps of a call before it is connected.
LEMMA CallPromise ==
  ASSUME LinkInv, NEW i \in Starts, OtherCall(i), UNCHANGED linkVars
  PROVE  Promised'
<1> USE DEF LinkInv, BirthInv, SessionInv
<1>1. UNCHANGED <<relay, worker, line, stops, down, up, view, ring, unheard, deaf>>
  BY DEF linkVars, chain, shown
<1>2. i \in Pending /\ overlapped' = overlapped
  BY DEF OtherCall, InterpreterFound, VenvReady, Advances, InterpreterMissing, VenvFails, PortFails,
         ConnectFails, GivesUp, Spawns, SpawnFails, Pending, Awaiting
<1>3. CASE InterpreterFound(i) \/ VenvReady(i)
  <2>1. UNCHANGED <<panel, overlapped, sidecar, child>>
    BY <1>3 DEF InterpreterFound, VenvReady, Advances
  <2> QED BY <1>1, <1>2, <2>1, Aside DEF Live
<1>4. CASE Spawns(i) \/ SpawnFails(i)
  <2>1. relay[i] = "none" \/ child'[i] = "dead"
    BY <1>4 DEF Spawns, SpawnFails, TypeOK, Unborn, PreSpawn, Numbered
  <2>2. sidecar' = i
    BY <1>4 DEF Spawns, SpawnFails
  <2> QED BY <1>1, <1>2, <2>1, <2>2, Aside DEF Live
<1>5. CASE InterpreterMissing(i) \/ VenvFails(i) \/ PortFails(i) \/ ConnectFails(i)
  <2>1. sidecar' = None
    BY <1>5 DEF InterpreterMissing, VenvFails, PortFails, ConnectFails, GivesUp, KillSidecar
  <2> QED BY <1>1, <1>2, <2>1, Aside DEF Live
<1> QED BY <1>3, <1>4, <1>5 DEF OtherCall

\* The session that opens finds the older sockets drained.
LEMMA OpensPromise ==
  ASSUME LinkInv, NEW i \in Starts, Connects(i), Opens(i)
  PROVE  Promised'
<1> USE DEF LinkInv, BirthInv, SessionInv
<1>1. /\ pc[i] = "connect" /\ pc' = [pc EXCEPT ![i] = "done"]
      /\ UNCHANGED <<panel, starts, child, sidecar, overlapped>>
      /\ relay' = [relay EXCEPT ![i] = "loading"] /\ line' = [line EXCEPT ![i] = "none"]
      /\ stops' = [stops EXCEPT ![i] = FALSE] /\ down' = [down EXCEPT ![i] = <<>>]
      /\ UNCHANGED <<up, view, ring, unheard, deaf>> /\ Drained(i)
  BY DEF Connects, Goto, Opens, Accepts, Set, shown
<1>2. i \in Pending
  BY <1>1 DEF Pending, Awaiting
<1>3. RingsLost'
  BY <1>1, <1>2 DEF Promised, RingsLost
<1>4. CASE Live'
  <2>1. Live /\ sidecar = i /\ i = starts
    BY <1>1, <1>2, <1>4, LiveIsNewest DEF Live, Solo
  <2>2. \A j \in Starts : j # i => up[j] = <<>>
    BY <1>1, <2>1, StartsAssumption DEF Drained, Numbered, Unborn, Starts, TypeOK
  <2>3. relay'[i] = "loading" /\ down'[i] = <<>> /\ stops'[i] = FALSE
    BY <1>1 DEF ChainTyped, PanelTyped
  <2>4. Alone' /\ Agreement'
    BY <1>1, <2>1, <2>2, <2>3 DEF Alone, Agreement
  <2>5. unheard' \/ ring' = FALSE
    BY <1>1, <1>2, <2>1 DEF Promised, RingsLost, Live, ChainTyped
  <2>6. Settles(<<>>, FALSE, FALSE)
    BY DEF Settles
  <2>7. RingsKept'
    <3> HIDE DEF LinkInv, BirthInv, SessionInv
    <3>1. sidecar' = i /\ down'[sidecar'] = <<>> /\ stops'[sidecar'] = FALSE
      BY <1>1, <2>1, <2>3
    <3>2. ~unheard' => ring' = FALSE
      BY <2>5
    <3> QED BY <2>6, <3>1, <3>2 DEF RingsKept
  <2> QED BY <1>3, <2>4, <2>7 DEF Promised
<1> QED BY <1>3, <1>4 DEF Promised, Alone, Agreement, RingsKept

\* The current session's sidecar exits and is live no more, or another one's does.
LEMMA ExitPromise ==
  ASSUME LinkInv, NEW i \in Starts, ChildExits(i), Dissolves(i)
  PROVE  Promised'
<1>1. /\ child' = [child EXCEPT ![i] = "dead"] /\ UNCHANGED <<panel, pc, sidecar, overlapped>>
      /\ UNCHANGED <<up, view, ring, unheard, deaf, line, stops>>
      /\ \A j \in Starts : j # i => relay'[j] = relay[j] /\ worker'[j] = worker[j] /\ down'[j] = down[j]
  BY DEF ChildExits, Dissolves, Ends, Set, shown, LinkInv, BirthInv, ChainTyped, PanelTyped
<1>2. child \in [Starts -> {"none", "alive", "dying", "dead"}]
  BY DEF LinkInv, BirthInv, SessionInv, TypeOK
<1>3. Live' => Live /\ sidecar # i
  BY <1>1, <1>2 DEF Live
<1>4. UNCHANGED Pending
  BY <1>1 DEF Pending
<1>5. Live => sidecar \in Starts
  BY LiveIsNewest DEF LinkInv
<1> QED BY <1>1, <1>3, <1>4, <1>5, Aside

-----------------------------------------------------------------------------
\* Facts about the queues.
LEMMA Appended ==
  ASSUME NEW S, NEW q \in Seq(S), NEW e \in S
  PROVE  /\ Append(q, e) # <<>> /\ Append(q, e)[Len(Append(q, e))] = e
         /\ \A k \in DOMAIN q : k \in DOMAIN Append(q, e) /\ Append(q, e)[k] = q[k]
OBVIOUS

LEMMA Shortened ==
  ASSUME NEW S, NEW q \in Seq(S), q # <<>>
  PROVE  /\ Tail(q) \in Seq(S) /\ Head(q) \in S
         /\ Tail(q) = <<>> => q[Len(q)] = Head(q)
         /\ Tail(q) # <<>> => Tail(q)[Len(Tail(q))] = q[Len(q)]
         /\ \A k \in DOMAIN q : q[k] = Head(q) \/ \E m \in DOMAIN Tail(q) : Tail(q)[m] = q[k]
<1>1. /\ Len(q) \in Nat \ {0} /\ DOMAIN q = 1 .. Len(q) /\ Head(q) = q[1]
      /\ Tail(q) \in Seq(S) /\ Len(Tail(q)) = Len(q) - 1 /\ DOMAIN Tail(q) = 1 .. Len(q) - 1
  BY EmptySeq, HeadTailProperties
<1>2. \A m \in DOMAIN Tail(q) : Tail(q)[m] = q[m + 1]
  BY <1>1, HeadTailProperties
<1>3. Tail(q) = <<>> => Len(q) = 1
  <2>1. Tail(q) = <<>> => Len(Tail(q)) = 0
    BY EmptySeq, Zenon
  <2> QED BY <1>1, <2>1
<1>4. Tail(q) # <<>> => Tail(q)[Len(Tail(q))] = q[Len(q)]
  BY <1>1, <1>2, EmptySeq
<1>5. ASSUME NEW k \in DOMAIN q, k # 1 PROVE \E m \in DOMAIN Tail(q) : Tail(q)[m] = q[k]
  <2>1. k - 1 \in DOMAIN Tail(q) /\ Tail(q)[k - 1] = q[k]
    BY <1>1, <1>2, <1>5
  <2> QED BY <2>1
<1>6. Head(q) \in S
  OBVIOUS
<1> QED BY <1>1, <1>3, <1>4, <1>5, <1>6

\* A command that is posted: a run changes nothing, a breakpoint command decides.
LEMMA RunSettles ==
  ASSUME NEW q \in Seq(Commands), NEW now, NEW stop, Settles(q, now, stop)
  PROVE  Settles(Append(q, "run"), now, stop)
BY DEF Settles, Word, Commands

LEMMA WordSettles ==
  ASSUME NEW q \in Seq(Commands), NEW now, NEW stop \in BOOLEAN
  PROVE  Settles(Append(q, Word(stop)), now, stop)
<1> DEFINE r == Append(q, Word(stop))
           k == Len(q) + 1
<1>1. Word(stop) \in Commands
  BY DEF Word, Commands
<1>2. k \in DOMAIN r /\ r[k] = Word(stop) /\ \A m \in DOMAIN r : ~(m > k)
  BY <1>1
<1> HIDE DEF r, k
<1>3. Settles(r, now, stop)
  BY <1>2 DEF Settles
<1> QED BY <1>3 DEF r

\* A command that is taken: the queue decides what it did, or the command did.
LEMMA TakenSettles ==
  ASSUME NEW q \in Seq(Commands), q # <<>>, NEW now \in BOOLEAN, NEW stop \in BOOLEAN,
         Settles(q, now, stop), NEW next \in BOOLEAN,
         Head(q) = "run" => next = now,
         Head(q) = "set_breakpoint" => next = TRUE,
         Head(q) = "clear_breakpoint" => next = FALSE
  PROVE  Settles(Tail(q), next, stop)
<1> DEFINE r == Tail(q)
<1>1. /\ Head(q) = q[1] /\ 1 \in DOMAIN q
      /\ \A k \in DOMAIN q : k \in Nat /\ (k = 1 \/ (k - 1 \in DOMAIN r /\ r[k - 1] = q[k]))
      /\ \A k \in DOMAIN r : k \in Nat /\ k + 1 > 1 /\ k + 1 \in DOMAIN q /\ r[k] = q[k + 1]
  OBVIOUS
<1> HIDE DEF r
<1>2. CASE (\A k \in DOMAIN q : q[k] = "run") /\ stop = now
  BY <1>1, <1>2 DEF Settles
<1>3. ASSUME NEW k \in DOMAIN q, q[k] = Word(stop), \A m \in DOMAIN q : m > k => q[m] = "run"
      PROVE  Settles(r, next, stop)
  <2>1. CASE k = 1
    <3>1. \A m \in DOMAIN r : r[m] = "run"
      BY <1>1, <1>3, <2>1
    <3>2. stop = next
      BY <1>1, <1>3, <2>1 DEF Word
    <3> QED BY <3>1, <3>2 DEF Settles
  <2>2. CASE k # 1
    <3>1. k - 1 \in DOMAIN r /\ r[k - 1] = Word(stop)
      BY <1>1, <1>3, <2>2
    <3>2. \A m \in DOMAIN r : m > k - 1 => r[m] = "run"
      BY <1>1, <1>3
    <3> QED BY <3>1, <3>2 DEF Settles
  <2> QED BY <2>1, <2>2
<1> QED BY <1>2, <1>3 DEF Settles, r

-----------------------------------------------------------------------------
\* An event a living sidecar sends is the last on its way; those before it stay.
LEMMA Sent ==
  ASSUME PanelTyped, NEW i \in Starts, child[i] = "alive", NEW e \in Events, Sends(i, e)
  PROVE  /\ up'[i] # <<>> /\ up'[i][Len(up'[i])] = e
         /\ (\E k \in DOMAIN up[i] : up[i][k] = "graph") => \E k \in DOMAIN up'[i] : up'[i][k] = "graph"
         /\ \A j \in Starts : j # i => up'[j] = up[j]
<1>1. up'[i] = Append(up[i], e) /\ \A j \in Starts : j # i => up'[j] = up[j]
  BY DEF Sends, Silent, Set, PanelTyped
<1>2. up[i] \in Seq(Events)
  BY DEF PanelTyped
<1> QED BY <1>1, <1>2, Appended

\* A relay and its worker change what is theirs, and send at most one event.
LEMMA RelayLocal ==
  ASSUME BirthInv, NEW i \in Starts, Relay(i)
  PROVE  /\ \A j \in Starts : j # i =>
              /\ relay'[j] = relay[j] /\ worker'[j] = worker[j] /\ line'[j] = line[j]
              /\ stops'[j] = stops[j] /\ down'[j] = down[j]
         /\ up' = up \/ \E e \in Events : Sends(i, e)
<1> USE DEF BirthInv, ChainTyped, PanelTyped
<1>1. ASSUME Ends(i), NEW j \in Starts, j # i
      PROVE  /\ relay'[j] = relay[j] /\ worker'[j] = worker[j] /\ line'[j] = line[j]
             /\ stops'[j] = stops[j] /\ down'[j] = down[j]
  BY <1>1 DEF Ends, Set
<1>2. CASE WorkerAnswers(i)
  BY <1>2 DEF WorkerAnswers, Set
<1>3. CASE RelayServes(i)
  BY <1>3 DEF RelayServes, Set, Events
<1>4. CASE RelayRefuses(i) \/ RelayTimesOut(i)
  BY <1>1, <1>4 DEF RelayRefuses, RelayTimesOut, Events
<1>5. CASE RelayStumbles(i) \/ RelayDrops(i)
  BY <1>1, <1>5 DEF RelayStumbles, RelayDrops
<1>6. CASE WorkerTakes(i)
  <2>1. Head(down[i]) \in Commands
    BY <1>6 DEF WorkerTakes
  <2>2. CASE Head(down[i]) = "run"
    BY <1>6, <2>2 DEF WorkerTakes, Set, Events
  <2>3. CASE Head(down[i]) # "run"
    BY <1>6, <2>1, <2>3 DEF WorkerTakes, Set, Commands
  <2> QED BY <2>2, <2>3
<1>7. CASE WorkerFinishes(i)
  BY <1>7 DEF WorkerFinishes, Set, Events
<1> QED BY <1>2, <1>3, <1>4, <1>5, <1>6, <1>7 DEF Relay

\* A relay that is not the current session's: nothing of it reaches a session in place.
LEMMA OtherRelay ==
  ASSUME LinkInv, NEW i \in Starts, Relay(i), UNCHANGED <<vars, shown, deaf>>, ~(Live /\ sidecar = i)
  PROVE  Promised'
<1> USE DEF LinkInv
<1>1. UNCHANGED <<panel, overlapped, sidecar, child, pc, view, ring, unheard, deaf>>
  BY DEF vars, shown
<1>2. UNCHANGED Pending
  BY <1>1 DEF Pending
<1>3. CASE ~Live
  BY <1>1, <1>2, <1>3, Aside DEF Live
<1>4. CASE Live
  <2>1. sidecar # i /\ sidecar \in Starts /\ i < sidecar /\ child[i] # "alive"
    BY <1>4, LiveIsNewest, ActsBorn, StartsAssumption DEF Live, Starts, BirthInv, SessionInv, TypeOK
  <2>2. /\ relay'[sidecar] = relay[sidecar] /\ worker'[sidecar] = worker[sidecar]
        /\ line'[sidecar] = line[sidecar] /\ stops'[sidecar] = stops[sidecar]
        /\ down'[sidecar] = down[sidecar]
    BY <2>1, RelayLocal
  <2>3. CASE relay[sidecar] = "none"
    BY <1>1, <1>2, <2>2, <2>3, Aside DEF Live
  <2>4. CASE relay[sidecar] # "none"
    <3>1. Silent(i)
      BY <2>1, <2>4 DEF Silent
    <3>2. ASSUME NEW e \in Events, Sends(i, e) PROVE up' = up
      BY <3>1, <3>2 DEF Sends, Set, BirthInv, PanelTyped
    <3>3. up' = up
      BY <2>1, <3>2, RelayLocal
    <3> QED BY <1>1, <1>2, <2>2, <3>3, Aside DEF Live
  <2> QED BY <2>3, <2>4
<1> QED BY <1>3, <1>4

\* What the promises come to after a step of the current session's own relay.
LEMMA OwnPromise ==
  ASSUME LinkInv, UNCHANGED <<vars, shown, deaf>>, NEW i \in Starts, Live, sidecar = i,
         \A j \in Starts : j # i => up'[j] = up[j], relay[i] # "none",
         relay'[i] = "serving" => Serves(i)',
         relay'[i] = "closed" /\ line'[i] # "print" => Refuses(i)',
         relay'[i] \in {"loading", "serving"} =>
           /\ relay[i] \in {"loading", "serving"}
           /\ Settles(down[i], stops[i], ring) => Settles(down'[i], stops'[i], ring)
  PROVE  Promised'
<1>1. UNCHANGED <<panel, overlapped, sidecar, child, pc, view, ring, unheard, deaf>>
  BY DEF vars, shown
<1>2. Alone' /\ RingsLost'
  BY <1>1 DEF LinkInv, Promised, Alone, RingsLost, Pending
<1>3. Agreement'
  BY <1>1 DEF Agreement
<1>4. RingsKept'
  BY <1>1 DEF LinkInv, Promised, RingsKept, Settles, Word, Live
<1> QED BY <1>2, <1>3, <1>4 DEF Promised

\* The current session's own relay and worker.
LEMMA OwnRelay ==
  ASSUME LinkInv, NEW i \in Starts, Relay(i), UNCHANGED <<vars, shown, deaf>>, Live, sidecar = i
  PROVE  Promised'
<1> USE DEF LinkInv, BirthInv
<1>1. child[i] = "alive" /\ relay[i] \in {"loading", "serving"} /\ view' = view
  BY ActsBorn DEF Live, shown
<1>2. up' = up \/ \E e \in Events : Sends(i, e)
  BY RelayLocal
<1>3. \A j \in Starts : j # i => up'[j] = up[j]
  BY <1>1, <1>2, Sent
<1>4. CASE WorkerAnswers(i)
  <2>1. relay[i] = "loading" /\ UNCHANGED <<relay, stops, down>>
    BY <1>4 DEF WorkerAnswers, Imported
  <2> QED BY <1>1, <1>3, <2>1, OwnPromise
<1>5. CASE RelayServes(i)
  <2>1. relay[i] = "loading" /\ worker[i] = "idle" /\ relay'[i] = "serving" /\ Sends(i, "graph")
        /\ UNCHANGED <<worker, line, stops, down>>
    BY <1>5 DEF RelayServes, Set, Imported, ChainTyped
  <2>2. Serves(i)'
    <3>1. up'[i] # <<>> /\ up'[i][Len(up'[i])] = "graph"
      BY <1>1, <2>1, Sent DEF Events
    <3>2. up' \in [Starts -> Seq(Events)]
      BY <2>1, SendsTyped DEF Events
    <3>3. Len(up'[i]) \in DOMAIN up'[i]
      BY <3>1, <3>2
    <3>4. worker'[i] = "idle"
      BY <2>1
    <3> QED BY <3>1, <3>3, <3>4 DEF Serves
  <2> QED BY <1>1, <1>3, <2>1, <2>2, OwnPromise
<1>6. CASE RelayRefuses(i) \/ RelayTimesOut(i)
  <2>1. relay'[i] = "closed" /\ Sends(i, "error")
    BY <1>6 DEF RelayRefuses, RelayTimesOut, Ends, Set, ChainTyped
  <2>2. Refuses(i)'
    BY <1>1, <2>1, Sent DEF Events, Refuses
  <2> QED BY <1>1, <1>3, <2>1, <2>2, OwnPromise
<1>7. CASE RelayStumbles(i)
  <2>1. relay'[i] = "closed" /\ line'[i] = "print"
    BY <1>7 DEF RelayStumbles, Ends, Set, ChainTyped
  <2> QED BY <1>1, <1>3, <2>1, OwnPromise
<1>8. CASE RelayDrops(i)
  BY <1>1, <1>8 DEF RelayDrops
<1>9. CASE WorkerTakes(i)
  <2>1. /\ relay[i] = "serving" /\ worker[i] = "idle" /\ down[i] \in Seq(Commands) /\ down[i] # <<>>
        /\ down'[i] = Tail(down[i]) /\ UNCHANGED <<relay, line>>
    BY <1>9 DEF WorkerTakes, Set, PanelTyped
  <2>2. Head(down[i]) \in Commands
    BY <2>1
  <2>3. Serves(i)
    BY <2>1 DEF Promised, Agreement
  <2>4. Serves(i)' /\ stops'[i] \in BOOLEAN
        /\ (Head(down[i]) = "run" => stops'[i] = stops[i])
        /\ (Head(down[i]) = "set_breakpoint" => stops'[i] = TRUE)
        /\ (Head(down[i]) = "clear_breakpoint" => stops'[i] = FALSE)
    <3>1. CASE Head(down[i]) = "run"
      <4>1. worker'[i] = "running" /\ Sends(i, "run_started") /\ stops' = stops
        BY <1>9, <3>1 DEF WorkerTakes, Set, ChainTyped
      <4>2. Serves(i)'
        BY <1>1, <2>3, <4>1, Sent DEF Serves, Events
      <4> QED BY <3>1, <4>1, <4>2 DEF ChainTyped
    <3>2. CASE Head(down[i]) # "run"
      <4>1. /\ UNCHANGED <<worker, up>>
            /\ stops' = [stops EXCEPT ![i] = (Head(down[i]) = "set_breakpoint")]
        BY <1>9, <2>2, <3>2 DEF WorkerTakes, Set, Commands
      <4>2. Serves(i)'
        BY <1>1, <2>3, <4>1 DEF Serves
      <4> QED BY <2>2, <3>2, <4>1, <4>2 DEF ChainTyped, Commands
    <3> QED BY <3>1, <3>2
  <2>5. Settles(down[i], stops[i], ring) => Settles(down'[i], stops'[i], ring)
    BY <2>1, <2>4, TakenSettles DEF ChainTyped
  <2> QED BY <1>1, <1>3, <2>1, <2>4, <2>5, OwnPromise
<1>10. CASE WorkerFinishes(i)
  <2>1. relay[i] = "serving" /\ worker'[i] = "idle" /\ Sends(i, "run_finished")
        /\ UNCHANGED <<relay, line, stops, down>>
    BY <1>10 DEF WorkerFinishes, Set, Imported, ChainTyped
  <2>2. Serves(i)
    BY <2>1 DEF Promised, Agreement
  <2>3. Serves(i)'
    BY <1>1, <2>1, <2>2, Sent DEF Serves, Events
  <2> QED BY <1>1, <1>3, <2>1, <2>3, OwnPromise
<1> QED BY <1>4, <1>5, <1>6, <1>7, <1>8, <1>9, <1>10 DEF Relay

-----------------------------------------------------------------------------
\* An event that is delivered shows what it had promised.
LEMMA DeliveryPromise ==
  ASSUME LinkInv, NEW i \in Starts, Delivers(i), UNCHANGED vars
  PROVE  Promised'
<1> USE DEF LinkInv, BirthInv
<1>1. UNCHANGED <<panel, overlapped, sidecar, child, pc>>
      /\ UNCHANGED <<relay, worker, line, stops, down, ring, unheard, deaf>>
  BY DEF vars, Delivers
<1>2. UNCHANGED Pending
  BY <1>1 DEF Pending
<1>3. CASE ~Live \/ relay[sidecar] = "none"
  BY <1>1, <1>2, <1>3, Aside DEF Live
<1>4. CASE Live /\ relay[sidecar] # "none"
  <2>1. sidecar = i /\ up[i] \in Seq(Events) /\ up[i] # <<>> /\ up' = [up EXCEPT ![i] = Tail(up[i])]
    BY <1>4 DEF Delivers, Set, Promised, Alone, PanelTyped
  <2> DEFINE q == up[i]
             e == Head(q)
             r == Tail(q)
  <2>2. /\ e \in Events /\ up'[i] = r
        /\ r = <<>> => q[Len(q)] = e
        /\ r # <<>> => r[Len(r)] = q[Len(q)]
        /\ \A k \in DOMAIN q : q[k] = e \/ \E m \in DOMAIN r : r[m] = q[k]
    BY <2>1, Shortened DEF PanelTyped
  <2>3. view' = Reduce(i, e)
    BY <1>4 DEF Delivers, Live
  <2>4. /\ view'.running = (e = "run_started")
        /\ view'.graph = i \/ (e # "graph" /\ view'.graph = view.graph)
        /\ e = "error" => view'.error = i
    BY <2>2, <2>3 DEF Reduce, Events, PanelTyped
  <2>5. q # <<>>
    BY <2>1
  <2> HIDE DEF q, e, r
  <2>6. Serves(i) => Serves(i)'
    BY <1>1, <2>2, <2>4, <2>5 DEF Serves, q
  <2>7. Refuses(i) => Refuses(i)'
    BY <1>1, <2>1, <2>2, <2>4, <2>5 DEF Refuses, Told, q
  <2>8. Agreement'
    BY <1>1, <1>4, <2>1, <2>6, <2>7 DEF Promised, Agreement, Live
  <2>9. Alone'
    BY <1>1, <1>4, <2>1 DEF Promised, Alone, Live
  <2>10. RingsLost' /\ RingsKept'
    BY <1>1, <1>2 DEF Promised, RingsLost, RingsKept, Settles, Word, Live
  <2> QED BY <2>8, <2>9, <2>10 DEF Promised
<1> QED BY <1>3, <1>4

\* A socket that breaks was the current session's, whose relay starts anew.
LEMMA BreakPromise ==
  ASSUME LinkInv, NEW i \in Starts, SocketBreaks(i), UNCHANGED vars
  PROVE  Promised'
<1> USE DEF LinkInv, BirthInv
<1>1. /\ socket = i /\ deaf' = TRUE /\ relay' = [relay EXCEPT ![i] = "loading"]
      /\ up' = [up EXCEPT ![i] = <<>>] /\ stops' = [stops EXCEPT ![i] = FALSE]
      /\ down' = [down EXCEPT ![i] = <<>>] /\ UNCHANGED <<view, ring>> /\ unheard' = ring
      /\ UNCHANGED <<panel, overlapped, sidecar, child, pc, socket>>
  BY DEF SocketBreaks, Accepts, Set, vars
<1>2. Live => sidecar = i /\ relay[i] = "serving"
  BY <1>1, LiveIsNewest, NoneIsNoStart DEF SocketBreaks
<1>3. Alone'
  BY <1>1, <1>2 DEF Promised, Alone, Live, PanelTyped
<1>4. Agreement'
  BY <1>1, <1>2 DEF Agreement, Live, ChainTyped
<1>5. RingsLost'
  BY <1>1 DEF RingsLost
<1>6. RingsKept'
  <2> SUFFICES ASSUME Live', ~unheard' PROVE Settles(down'[sidecar'], stops'[sidecar'], ring')
    BY DEF RingsKept
  <2>1. sidecar' = i
    BY <1>1, <1>2 DEF Live
  <2>2. down'[i] = <<>> /\ stops'[i] = FALSE /\ ring' = FALSE
    BY <1>1 DEF ChainTyped, PanelTyped
  <2>3. Settles(<<>>, FALSE, FALSE)
    BY DEF Settles
  <2> HIDE DEF LinkInv, BirthInv
  <2> QED BY <2>1, <2>2, <2>3
<1> QED BY <1>3, <1>4, <1>5, <1>6 DEF Promised

\* A command posted while a start is under way finds no connection.
LEMMA PostedEarly ==
  ASSUME BirthInv, ~overlapped, Pending # {}
  PROVE  ~Connected
<1>1. PICK p \in Pending : p \in Starts /\ p = starts
  BY DEF BirthInv, SessionInv, Solo, Pending
<1>2. SUFFICES ASSUME Connected PROVE FALSE
  OBVIOUS
<1>3. socket = p
  BY <1>1, <1>2 DEF Connected, BirthInv, Newest
<1>4. relay[p] = "none" \/ relay[p] = "closed"
  BY <1>1, <1>2, <1>3 DEF BirthInv, SessionInv, Unborn, Pending, Awaiting, PreSpawn
<1> QED BY <1>2, <1>3, <1>4 DEF Connected

\* A command that is posted is taken by the current worker in its turn, or is not heard.
LEMMA PostPromise ==
  ASSUME LinkInv, PanelMoves
  PROVE  Promised'
<1> USE DEF LinkInv, BirthInv
<1>1. PICK command \in Commands :
        /\ Posts(command)
        /\ \/ command = "run" /\ UNCHANGED <<ring, unheard>>
           \/ command = Word(~ring) /\ ring' = ~ring /\ unheard' = ~Connected
  <2>1. CASE ClickRun
    BY <2>1 DEF ClickRun, Commands
  <2>2. CASE ToggleBreakpoint
    <3>1. PICK command \in Commands : command = IF ring THEN "clear_breakpoint" ELSE "set_breakpoint"
      BY DEF Commands
    <3>2. Posts(command)
      BY <2>2, <3>1 DEF ToggleBreakpoint, Posts, Set
    <3>3. command = Word(~ring)
      BY <3>1 DEF Word
    <3>4. ring' = ~ring /\ unheard' = ~Connected
      BY <2>2 DEF ToggleBreakpoint
    <3> QED BY <3>2, <3>3, <3>4
  <2> QED BY <2>1, <2>2 DEF PanelMoves
<1>2. UNCHANGED <<panel, overlapped, sidecar, child, pc, socket>>
      /\ UNCHANGED <<relay, worker, line, stops, up, view, deaf>>
  BY <1>1 DEF PanelMoves, Posts, vars
<1>3. Alone' /\ Agreement'
  BY <1>2 DEF Promised, Alone, Agreement, Serves, Refuses, Told, Live
<1>4. RingsLost'
  <2> SUFFICES ASSUME ~overlapped, ~unheard', Pending # {} PROVE ~ring'
    BY <1>2 DEF RingsLost, Pending
  <2>1. ~Connected
    BY PostedEarly
  <2>2. CASE UNCHANGED <<ring, unheard>>
    <3>1. ring' = ring /\ unheard' = unheard
      BY <2>2
    <3>2. ring \in BOOLEAN /\ unheard \in BOOLEAN
      BY DEF ChainTyped
    <3>3. ~unheard
      BY <3>1, <3>2
    <3> QED BY <3>1, <3>3 DEF Promised, RingsLost
  <2>3. CASE unheard' = ~Connected
    BY <2>1, <2>3
  <2> QED BY <1>1, <2>2, <2>3
<1>5. RingsKept'
  <2> SUFFICES ASSUME Live, ~unheard', relay[sidecar] \in {"loading", "serving"}
               PROVE  Settles(down'[sidecar], stops[sidecar], ring')
    BY <1>2 DEF RingsKept, Live
  <2>1. sidecar \in Starts /\ down[sidecar] \in Seq(Commands)
    BY LiveIsNewest DEF PanelTyped
  <2>2. Connected => down'[sidecar] = Append(down[sidecar], command)
    BY <1>1, <2>1, LiveIsNewest DEF Connected, Posts, Set, PanelTyped
  <2>3. CASE command = "run" /\ UNCHANGED <<ring, unheard>>
    <3>1. Settles(down[sidecar], stops[sidecar], ring)
      BY <2>3 DEF Promised, RingsKept
    <3>2. ~Connected => down' = down
      BY <1>1 DEF Posts
    <3> QED BY <2>1, <2>2, <2>3, <3>1, <3>2, RunSettles
  <2>4. CASE command = Word(~ring) /\ ring' = ~ring /\ unheard' = ~Connected
    BY <2>1, <2>2, <2>4, WordSettles DEF ChainTyped
  <2> QED BY <1>1, <2>3, <2>4
<1> QED BY <1>3, <1>4, <1>5 DEF Promised

\* Every step keeps the invariant.
LEMMA LinkKept == LinkInv /\ LayoutInv /\ [LinkNext]_<<vars, linkVars>> => LinkInv'
<1> SUFFICES ASSUME LinkInv, LayoutInv, [LinkNext]_<<vars, linkVars>> PROVE LinkInv'
  OBVIOUS
<1>1. ASSUME UNCHANGED vars,
             UNCHANGED linkVars \/ \E i \in Starts : LayoutSolved(i) \/ LayoutFails(i)
      PROVE  Promised'
  <2>1. UNCHANGED <<chain, view, ring, unheard, deaf>>
    BY <1>1 DEF linkVars, shown, drawn, LayoutSolved, LayoutFails
  <2> QED BY <1>1, <2>1, Aside DEF vars, chain, Live, Pending
<1>2. ASSUME NEW i \in Starts, StartMoves(i) PROVE Promised'
  <2>1. CASE Relay(i) /\ UNCHANGED <<vars, shown, deaf>>
    BY <2>1, OwnRelay, OtherRelay
  <2>2. CASE (Delivers(i) \/ SocketBreaks(i) \/ LayoutSolved(i) \/ LayoutFails(i)) /\ UNCHANGED vars
    BY <1>1, <2>2, DeliveryPromise, BreakPromise
  <2> QED BY <1>2, <2>1, <2>2, CallPromise, OpensPromise, ExitPromise DEF StartMoves
<1>3. Promised'
  BY <1>1, <1>2, UserPromise, PostPromise DEF LinkNext
<1> QED BY <1>3, BirthKept DEF LinkInv

LEMMA LinkInvariance == LinkSpec => [](LinkInv /\ LayoutInv)
<1>1. LinkInit => LinkInv /\ LayoutInv
  <2> SUFFICES ASSUME LinkInit PROVE LinkInv /\ LayoutInv
    OBVIOUS
  <2>1. SessionInv
    BY SessionStarts DEF LinkInit
  <2>2. PanelTyped /\ LayoutInv
    BY DEF LinkInit, Clean, LayoutInv, PanelTyped, Waited
  <2>3. ChainTyped /\ Unborn /\ Newest /\ Imported
    BY DEF LinkInit, Init, ChainTyped, Relays, Workers, Lines, Unborn, Newest, Imported
  <2>4. Promised
    BY DEF LinkInit, Init, Promised, Live, Alone, Agreement, RingsLost, RingsKept
  <2> QED BY <2>1, <2>2, <2>3, <2>4 DEF LinkInv, BirthInv
<1> QED BY <1>1, LinkKept, LayoutKept, PTL DEF LinkSpec

\* PanelAgrees: a session that has settled is the one the panel shows, running or not.
THEOREM PanelShowsSession == LinkSpec => []PanelAgrees
<1>1. LinkInv => PanelAgrees
  BY DEF LinkInv, BirthInv, SessionInv, TypeOK, Promised, Agreement, Serves, Live, PanelAgrees, Settled
<1> QED BY <1>1, LinkInvariance, PTL

\* RefusalTold: a load that came to nothing is told, unless the graph's code printed.
THEOREM RefusalReachesPanel == LinkSpec => []RefusalTold
<1>1. LinkInv => RefusalTold
  BY DEF LinkInv, BirthInv, SessionInv, TypeOK, Promised, Agreement, Refuses, Live, RefusalTold, Settled
<1> QED BY <1>1, LinkInvariance, PTL

\* RingsHonoured: once the posted commands have been taken, ring and breakpoint agree through
\* restarts and broken sockets, unless the worker was not sent what the ring shows.
THEOREM RingsReachWorker == LinkSpec => []RingsHonoured
<1>1. LinkInv => RingsHonoured
  BY DEF LinkInv, BirthInv, ChainTyped, Promised, RingsKept, Settles, Live, RingsHonoured, Settled
<1> QED BY <1>1, LinkInvariance, PTL
=============================================================================
