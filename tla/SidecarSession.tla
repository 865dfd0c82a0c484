--------------------------- MODULE SidecarSession ---------------------------
(***************************************************************************)
(* Session lifecycle of the VS Code extension, extension/src/extension.ts   *)
(* with the status reducer of sidecarStatus.ts.  Every command that opens,  *)
(* reloads or restarts calls startSession, an async function: between its   *)
(* awaits other calls, child-process events and the panel's disposal run,   *)
(* and they all share the globals panel, sidecar, socket and status.        *)
(*                                                                         *)
(* Start number i is the i-th call of startSession; child i is the sidecar  *)
(* process it spawns, if it gets that far.                                  *)
(***************************************************************************)
EXTENDS Naturals

CONSTANT MaxStarts  \* bound: calls of startSession

ASSUME StartsAssumption == MaxStarts \in Nat \ {0}

Starts == 1 .. MaxStarts
None == 0

VARIABLES
  panel,     \* a webview panel is open
  starts,    \* calls of startSession so far
  pc,        \* what each call awaits
  child,     \* the process of each call
  sidecar,   \* the global `sidecar`: the call whose child it is, or None
  socket,    \* the global `socket`, likewise
  expected,  \* expectedKills: children the extension asked to stop
  status,    \* the status bar's state
  overlapped \* history: a start or a disposal happened while a start was under way

vars == <<panel, starts, pc, child, sidecar, socket, expected, status, overlapped>>

Awaiting == {"interpreter", "venv", "port", "connect"}
Pending == {i \in Starts : pc[i] \in Awaiting}

Init ==
  /\ panel = FALSE /\ starts = 0
  /\ pc = [i \in Starts |-> "unused"]
  /\ child = [i \in Starts |-> "none"]
  /\ sidecar = None /\ socket = None /\ expected = {}
  /\ status = "idle"
  /\ overlapped = FALSE

-----------------------------------------------------------------------------
\* nextStatus: the event alone decides the next state; an exit is split by who asked.
NextStatus(event) ==
  CASE event = "spawn" -> "starting"
    [] event = "open"  -> "running"
    [] event \in {"kill", "exit expected"} -> "stopped"
    [] event \in {"spawnError", "connectFail", "exit unexpected"} -> "failed"

SetStatus(event) == status' = NextStatus(event)

\* Mutation of KillSidecar: the child is forgotten without being stopped.
KillSidecar_Forgets ==
  /\ UNCHANGED <<expected, child>>
  /\ sidecar' = None /\ socket' = None

\* Mutation of KillSidecar: the kill is recorded but the process is not signalled.
KillSidecar_NoSignal ==
  /\ IF sidecar # None /\ child[sidecar] = "alive"
     THEN expected' = expected \cup {sidecar} /\ UNCHANGED child
     ELSE UNCHANGED <<expected, child>>
  /\ sidecar' = None /\ socket' = None

\* killSidecar: stop the current child, if it still runs, and forget it.
KillSidecar ==
  /\ IF sidecar # None /\ child[sidecar] = "alive"
     THEN /\ expected' = expected \cup {sidecar}
          /\ child' = [child EXCEPT ![sidecar] = "dying"]
     ELSE UNCHANGED <<expected, child>>
  /\ sidecar' = None /\ socket' = None

Goto(i, to) == pc' = [pc EXCEPT ![i] = to]

\* startSession up to its first await.
Begins ==
  /\ panel' = TRUE
  /\ starts < MaxStarts
  /\ starts' = starts + 1
  /\ KillSidecar
  /\ SetStatus("spawn")
  /\ Goto(starts + 1, "interpreter")
  /\ overlapped' = (overlapped \/ Pending # {})

\* graphloupe.open: create the panel if there is none, then start.
OpenPanel == ~panel /\ Begins

\* open again, reload, restartSidecar, selectGraph, the "Restart Sidecar" button.
Restart == panel /\ Begins

\* onDidDispose.
DisposePanel ==
  /\ panel /\ panel' = FALSE
  /\ KillSidecar
  /\ overlapped' = (overlapped \/ Pending # {})
  /\ UNCHANGED <<starts, pc, status>>

-----------------------------------------------------------------------------
(* The awaits of one call.                                                 *)

\* Mutation of GivesUp: the setup fails without a word in the status bar.
GivesUp_Silently(i, event) ==
  /\ KillSidecar
  /\ Goto(i, "done")
  /\ UNCHANGED <<panel, starts, status, overlapped>>

\* A failed step of the call reports itself and kills the current sidecar.
GivesUp(i, event) ==
  /\ SetStatus(event)
  /\ KillSidecar
  /\ Goto(i, "done")
  /\ UNCHANGED <<panel, starts, overlapped>>

Advances(i, from, to) ==
  /\ pc[i] = from /\ Goto(i, to)
  /\ UNCHANGED <<panel, starts, child, sidecar, socket, expected, status, overlapped>>

\* resolveInterpreter and runDoctor: an interpreter with the dependencies, or not.
InterpreterFound(i)   == Advances(i, "interpreter", "venv")
InterpreterMissing(i) == pc[i] = "interpreter" /\ GivesUp(i, "spawnError")

\* ensureSidecarVenv reports its own failure with the same event.
VenvReady(i)  == Advances(i, "venv", "port")
VenvFails(i)  == pc[i] = "venv" /\ GivesUp(i, "spawnError")

\* freePort resolves and the child is spawned in the same turn.
Spawns(i) ==
  /\ pc[i] = "port" /\ Goto(i, "connect")
  /\ child' = [child EXCEPT ![i] = "alive"]
  /\ sidecar' = i
  /\ UNCHANGED <<panel, starts, socket, expected, status, overlapped>>

\* The process could not be created: its 'error' event follows on the next tick, and the
\* call goes on to its connect attempts all the same.
SpawnFails(i) ==
  /\ pc[i] = "port" /\ Goto(i, "connect")
  /\ child' = [child EXCEPT ![i] = "dead"]
  /\ sidecar' = i
  /\ SetStatus("spawnError")
  /\ UNCHANGED <<panel, starts, socket, expected, overlapped>>

PortFails(i) == pc[i] = "port" /\ GivesUp(i, "connectFail")

\* connect: an attempt succeeds while the child still listens.
Connects(i) ==
  /\ pc[i] = "connect" /\ child[i] \in {"alive", "dying"}
  /\ Goto(i, "done")
  /\ socket' = i
  /\ SetStatus("open")
  /\ UNCHANGED <<panel, starts, child, sidecar, expected, overlapped>>

\* Mutation of ConnectFails: the failure is reported, the child left running.
ConnectFails_NoKill(i) ==
  /\ pc[i] = "connect" /\ Goto(i, "done")
  /\ SetStatus("connectFail")
  /\ UNCHANGED <<panel, starts, child, sidecar, socket, expected, overlapped>>

\* connect: 21 attempts failed, because the child is gone or too slow to listen.
ConnectFails(i) == pc[i] = "connect" /\ GivesUp(i, "connectFail")

-----------------------------------------------------------------------------
(* Events of the child processes.                                          *)

\* Mutation of AfterExit: every exit is a crash.
AfterExit_Crash(i) == NextStatus("exit unexpected")

\* Mutation of AfterExit: the exit of the current child goes unreported.
AfterExit_Quiet(i) == status

\* The exit handler: superseded children are ignored, the rest is split by who asked.
AfterExit(i) ==
  IF i # sidecar THEN status
  ELSE NextStatus(IF i \in expected THEN "exit expected" ELSE "exit unexpected")

\* A child exits, because it was killed or on its own.
ChildExits(i) ==
  /\ child[i] \in {"alive", "dying"}
  /\ child' = [child EXCEPT ![i] = "dead"]
  /\ status' = AfterExit(i)
  /\ UNCHANGED <<panel, starts, pc, sidecar, socket, expected, overlapped>>

-----------------------------------------------------------------------------
User == OpenPanel \/ Restart \/ DisposePanel

Call(i) == \/ InterpreterFound(i) \/ InterpreterMissing(i) \/ VenvReady(i) \/ VenvFails(i)
           \/ Spawns(i) \/ SpawnFails(i) \/ PortFails(i) \/ Connects(i) \/ ConnectFails(i)

Dies(i) == child[i] = "dying" /\ ChildExits(i)

Next == User \/ \E i \in Starts : Call(i) \/ ChildExits(i)

Spec == Init /\ [][Next]_vars

\* The awaits settle (connect gives up after 21 attempts), a child that was asked to
\* stop does.  The user need not act and no child need crash.
FairSpec ==
  Spec /\ \A i \in Starts : WF_vars(Call(i)) /\ WF_vars(Dies(i))

-----------------------------------------------------------------------------
(* Correctness.                                                            *)

\* The types, and that a child that was asked to stop is stopping or gone.
TypeOK ==
  /\ panel \in BOOLEAN /\ starts \in 0 .. MaxStarts
  /\ pc \in [Starts -> Awaiting \cup {"unused", "done"}]
  /\ child \in [Starts -> {"none", "alive", "dying", "dead"}]
  /\ sidecar \in Starts \cup {None} /\ socket \in Starts \cup {None}
  /\ expected \subseteq {i \in Starts : child[i] \in {"dying", "dead"}}
  /\ status \in {"idle", "starting", "running", "stopped", "failed"}
  /\ overlapped \in BOOLEAN

\* Every live sidecar process is the current one.
LiveOwned == \A i \in Starts : child[i] = "alive" => i = sidecar

\* One start at a time leaks no process: a sidecar that was not asked to stop is the
\* one killSidecar would stop next.
SoloOwned == ~overlapped => LiveOwned

\* One start at a time, a status bar that says running has a live process behind it,
\* and the commands of the panel go to that process.
SoloRunning ==
  ~overlapped /\ panel /\ status = "running" =>
    sidecar # None /\ socket = sidecar /\ child[sidecar] = "alive"

\* One start at a time, a status bar that says failed leaves nothing running.
SoloFailed == ~overlapped /\ status = "failed" => \A i \in Starts : child[i] # "alive"

\* A sidecar the extension asked to stop is never reported as a failure, whatever
\* starts overlap: its exit leaves the status as it was.
KilledNotBlamed ==
  [][\A i \in expected : child[i] = "dying" /\ child'[i] = "dead" =>
       (status' = "failed" => status = "failed")]_vars

\* The exit handler splits exits by who asked (nextStatus: a kill we asked for is
\* "stopped"), but killSidecar forgets the child first, so the handler takes it for a
\* superseded one: the status bar never says "stopped", whatever overlaps.
StoppedNeverShown == status # "stopped"

\* Every start is settled in the status bar.
StartSettles == status = "starting" ~> status # "starting"

\* An older start that fails does not stop the sidecar of a newer one.
OldStartHarmless ==
  [][\A i, j \in Starts :
       j < i /\ child[i] = "alive" /\ child'[i] = "dying" =>
         ~(pc[j] \in Awaiting /\ pc'[j] = "done")]_vars
=============================================================================
