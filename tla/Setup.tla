------------------------------- MODULE Setup -------------------------------
(***************************************************************************)
(* What startSession prepares before it spawns a sidecar: the interpreter   *)
(* of the user's project (python.ts) and the managed virtual environment of *)
(* the sidecar (venv.ts, ensureSidecarVenv in extension.ts).  The           *)
(* environment is one directory in the extension's global storage, shared   *)
(* by every VS Code window of the machine and kept across crashes.          *)
(*                                                                         *)
(* Calls are calls of startSession, in any windows.  A call examines the    *)
(* directory without an await; what it then runs are processes of their     *)
(* own, which outlive the window that started them.                         *)
(***************************************************************************)
EXTENDS Naturals, Sequences

CONSTANTS
  MaxCalls,   \* bound: calls of startSession
  Deps,       \* SIDECAR_VENV_DEPS
  Probed      \* those of them that probeVenv imports

ASSUME SetupAssumption ==
  /\ MaxCalls \in Nat /\ Probed \subseteq Deps
  /\ {"python", "pip"} \cap Deps = {}

Calls == 1 .. MaxCalls

\* An interpreter: the command does not run; it runs and has no langgraph; its import of
\* langgraph takes more than runDoctor's 8 seconds or raises another error; it serves.
Kinds == {"absent", "bare", "slow", "good"}
None == "none"

VARIABLES
  disk,    \* what the environment's directory holds
  pc,      \* where each call is
  py,      \* the interpreter the call resolved
  job,     \* the process the call started, running or not
  todo,    \* what the call's pip still has to unpack
  blame,   \* what the user was told of a call that failed
  spoilt,  \* history: a process of the call failed, or was too slow, for a reason outside the directory
  clash    \* history: a process of another call ran while the call was under way

vars == <<disk, pc, py, job, todo, blame, spoilt, clash>>

Init ==
  /\ disk = {}
  /\ pc = [i \in Calls |-> "unused"] /\ py = [i \in Calls |-> None]
  /\ job = [i \in Calls |-> None] /\ todo = [i \in Calls |-> {}]
  /\ blame = [i \in Calls |-> None]
  /\ spoilt = {} /\ clash = {}

UnderWay == {i \in Calls : pc[i] \in {"interpreter", "venv", "port"}}
Busy == {i \in Calls : job[i] # None}
Relying(i) == {j \in Calls \ {i} : pc[j] \in {"venv", "port"}}

-----------------------------------------------------------------------------
(* The interpreter.                                                        *)

\* resolvePython: the setting, else ms-python's, both unprobed, else the first command
\* of the fallback that runs.
ResolvePython(config, msPython, fallback) ==
  LET exist == SelectSeq(fallback, LAMBDA cmd : cmd # "absent") IN
  IF config # None THEN config
  ELSE IF msPython # None THEN msPython
  ELSE IF exist # <<>> THEN Head(exist) ELSE None

\* parseImportProbe: the modules that the probe's traceback names as missing.
ParseImportProbe(p) == IF p = "bare" THEN {"langgraph"} ELSE {}

\* runDoctor: `import langgraph`, which a slow import does not survive.
Doctor(p) == [ok |-> p = "good", missing |-> ParseImportProbe(p)]

\* doctorMessage, which names the interpreter, or interpreterNotFoundMessage.
Message(p) == IF p # None /\ Doctor(p).missing # {} THEN "missing" ELSE "not found"

Goto(i, to) == pc' = [pc EXCEPT ![i] = to]

\* A failure of the setup: the user is told and the call is over.
GivesUp(i, message) ==
  /\ Goto(i, "failed")
  /\ blame' = [blame EXCEPT ![i] = message]

\* startSession up to its first await.
Begins(i) ==
  /\ pc[i] = "unused" /\ Goto(i, "interpreter")
  /\ UNCHANGED <<disk, py, job, todo, blame, spoilt, clash>>

\* The answer of ms-python arrives, and no interpreter passes the doctor.
InterpreterRefused(i, p) ==
  /\ pc[i] = "interpreter" /\ ~Doctor(p).ok
  /\ GivesUp(i, Message(p))
  /\ py' = [py EXCEPT ![i] = p]
  /\ UNCHANGED <<disk, job, todo, spoilt, clash>>

-----------------------------------------------------------------------------
(* The managed environment.                                                *)

\* Mutation of NeedsBootstrap: an environment with an interpreter is taken for complete.
NeedsBootstrap_PythonOnly == "python" \notin disk

\* needsBootstrap of probeVenv.
NeedsBootstrap == ~({"python"} \cup Probed \subseteq disk)

\* The imports of the probe take more than its 8 seconds, which fails it.
Slow == BOOLEAN

Disturbed(i) == IF Busy \subseteq {i} THEN {} ELSE {i}

\* A process of call i starts: every other call that relies on the directory may be
\* disturbed by it, and i by those that run already.
Starts(i, what) ==
  /\ job' = [job EXCEPT ![i] = what]
  /\ clash' = clash \cup Relying(i) \cup Disturbed(i)

\* Mutation of Bootstrap: an interpreter that is there is not created again.
Bootstrap_Resumes(i) ==
  IF "python" \in disk THEN Starts(i, "pip") /\ todo' = [todo EXCEPT ![i] = Deps \ disk]
  ELSE Starts(i, "venv") /\ UNCHANGED todo

\* The first process of a bootstrap is `python -m venv`, whatever is there already.
Bootstrap(i) == Starts(i, "venv") /\ UNCHANGED todo

\* A good interpreter: the environment is reused, or its bootstrap begins.
InterpreterAccepted(i, p, slow) ==
  /\ pc[i] = "interpreter" /\ Doctor(p).ok
  /\ py' = [py EXCEPT ![i] = p]
  /\ IF NeedsBootstrap \/ slow
     THEN Goto(i, "venv") /\ Bootstrap(i)
     ELSE /\ Goto(i, "port")
          /\ clash' = clash \cup Disturbed(i)
          /\ UNCHANGED <<job, todo>>
  /\ UNCHANGED <<disk, blame, spoilt>>

\* resolveInterpreter, runDoctor and the first probeVenv run without an await in between.
Examines(i) ==
  \E config, msPython \in Kinds \cup {None}, fallback \in Kinds \X Kinds :
    LET p == ResolvePython(config, msPython, fallback) IN
    InterpreterRefused(i, p) \/ \E slow \in Slow : InterpreterAccepted(i, p, slow)

\* `python -m venv` puts the interpreter in place, in a directory that may hold more.
VenvCreates(i) ==
  /\ job[i] = "venv"
  /\ disk' = disk \cup {"python"}
  /\ job' = [job EXCEPT ![i] = "ensurepip"]
  /\ UNCHANGED <<pc, py, todo, blame, spoilt, clash>>

\* Its last step installs pip; the process ends, and the call, if its window is still
\* there, starts pip, which plans what is not installed.
VenvDone(i) ==
  /\ job[i] = "ensurepip"
  /\ disk' = disk \cup {"pip"}
  /\ IF pc[i] = "venv"
     THEN Starts(i, "pip") /\ todo' = [todo EXCEPT ![i] = Deps \ disk']
     ELSE job' = [job EXCEPT ![i] = None] /\ UNCHANGED <<clash, todo>>
  /\ UNCHANGED <<pc, py, blame, spoilt>>

\* pip unpacks one distribution.  Assumed of pip: the files of a distribution are there
\* before the metadata by which it counts as installed, so that one cut off half-way is
\* unpacked again by the next pip, as if nothing of it were there.
PipUnpacks(i, d) ==
  /\ job[i] = "pip" /\ "pip" \in disk /\ d \in todo[i]
  /\ disk' = disk \cup {d}
  /\ todo' = [todo EXCEPT ![i] = @ \ {d}]
  /\ UNCHANGED <<pc, py, job, blame, spoilt, clash>>

\* pip found the place of a distribution taken meanwhile and removes what it overwrites.
PipUnlinks(i, d) ==
  /\ job[i] = "pip" /\ d \in todo[i] \cap disk
  /\ disk' = disk \ {d}
  /\ UNCHANGED <<pc, py, job, todo, blame, spoilt, clash>>

\* The last process of the call ended well and the environment is probed again.
PipDone(i, slow) ==
  /\ job[i] = "pip" /\ "pip" \in disk /\ todo[i] = {}
  /\ job' = [job EXCEPT ![i] = None]
  /\ IF pc[i] # "venv" THEN UNCHANGED <<pc, blame>>
     ELSE IF NeedsBootstrap \/ slow THEN GivesUp(i, "deps still missing")
     ELSE Goto(i, "port") /\ UNCHANGED blame
  /\ spoilt' = IF slow THEN spoilt \cup {i} ELSE spoilt
  /\ UNCHANGED <<disk, py, todo, clash>>

\* A process fails: the disk is full, PyPI is out of reach, the interpreter cannot create
\* environments; or there is no pip to run.  What it left on disk stays.
JobFails(i) ==
  /\ job[i] # None
  /\ job' = [job EXCEPT ![i] = None]
  /\ todo' = [todo EXCEPT ![i] = {}]
  /\ spoilt' = IF job[i] = "pip" /\ "pip" \notin disk THEN spoilt ELSE spoilt \cup {i}
  /\ IF pc[i] = "venv" THEN GivesUp(i, "setup failed") ELSE UNCHANGED <<pc, blame>>
  /\ UNCHANGED <<disk, py, clash>>

\* The port is there and the sidecar is spawned from the environment.
Spawns(i) ==
  /\ pc[i] = "port" /\ Goto(i, "spawned")
  /\ UNCHANGED <<disk, py, job, todo, blame, spoilt, clash>>

\* The window of a call is closed or reloaded; its process goes on without it.
WindowGone(i) ==
  /\ i \in UnderWay /\ Goto(i, "gone")
  /\ UNCHANGED <<disk, py, job, todo, blame, spoilt, clash>>

\* The machine goes down: windows and processes stop where they are, the disk stays.
MachineDown ==
  /\ UnderWay \cup Busy # {}
  /\ pc' = [i \in Calls |-> IF i \in UnderWay THEN "gone" ELSE pc[i]]
  /\ job' = [i \in Calls |-> None] /\ todo' = [i \in Calls |-> {}]
  /\ UNCHANGED <<disk, py, blame, spoilt, clash>>

-----------------------------------------------------------------------------
Process(i) ==
  \/ VenvCreates(i) \/ VenvDone(i) \/ JobFails(i)
  \/ \E slow \in Slow : PipDone(i, slow)
  \/ \E d \in Deps : PipUnpacks(i, d) \/ PipUnlinks(i, d)

Next ==
  \/ \E i \in Calls : Begins(i) \/ Examines(i) \/ Spawns(i) \/ WindowGone(i) \/ Process(i)
  \/ MachineDown

Spec == Init /\ [][Next]_vars

-----------------------------------------------------------------------------
(* Correctness.                                                            *)

\* A call with no other bootstrap beside it spawns its sidecar from an environment that
\* has what the probe looks for, whatever earlier bootstraps left behind when they failed,
\* lost their window or went down with the machine.
SoloSpawnFindsDeps ==
  [][\A i \in Calls \ clash :
       pc[i] # "spawned" /\ pc'[i] = "spawned" => {"python"} \cup Probed \subseteq disk]_vars

\* A call with no other bootstrap beside it fails for a cause of its own, the interpreter
\* it resolved or a process it ran: what an interrupted bootstrap left is repaired by the
\* next one ("half-built / interrupted install", venv.ts).
FailsForCause ==
  \A i \in Calls : pc[i] = "failed" => ~Doctor(py[i]).ok \/ i \in spoilt \cup clash

\* The user is told that no Python was found only if none was found or the one chosen
\* does not run (runDoctor: "interpreter not runnable").
NotFoundMeansNotRunnable ==
  \A i \in Calls : blame[i] = "not found" => py[i] \in {None, "absent"}
=============================================================================
