---------------------------- MODULE SetupProofs ----------------------------
(***************************************************************************)
(* Proofs about Setup, for any number of calls, dependencies and windows:   *)
(* a call with no other bootstrap beside it spawns from a complete          *)
(* environment, and fails only for a cause of its own.                      *)
(*                                                                         *)
(* The argument: while such a call relies on the directory, the only        *)
(* process that can be running is its own (Undisturbed), so what its        *)
(* processes have put there stays (Progress), and when its pip is done all  *)
(* of Deps is there, whatever the directory held at the beginning.          *)
(*                                                                         *)
(* Then about Selection, for any graphs, dialogs and overlapping starts: a  *)
(* session whose start was begun last runs the choice confirmed last.  The  *)
(* argument: the update asked for last names that choice, directly or       *)
(* through the adapter, and the start begun last has always read the        *)
(* setting as it is.                                                        *)
(***************************************************************************)
EXTENDS Setup, Selection, TLAPS

Phases == {"unused", "interpreter", "venv", "port", "spawned", "failed", "gone"}
Jobs == {None, "venv", "ensurepip", "pip"}

Types ==
  /\ pc \in [Calls -> Phases] /\ job \in [Calls -> Jobs]
  /\ todo \in [Calls -> SUBSET Deps] /\ DOMAIN py = Calls

\* A call that waits for its environment has a process; before and after it has none.
JobsFit ==
  \A i \in Calls :
    /\ pc[i] \in {"unused", "interpreter", "port"} => job[i] = None
    /\ pc[i] = "venv" => job[i] # None

\* No other process runs beside an undisturbed call that relies on the directory.
Undisturbed ==
  \A i \in Calls \ clash : pc[i] \in {"venv", "port"} =>
    \A j \in Calls : job[j] # None => j = i

\* What the processes of an undisturbed call have done so far.
Progress ==
  \A i \in Calls \ clash : pc[i] = "venv" =>
    /\ job[i] \in {"ensurepip", "pip"} => "python" \in disk
    /\ job[i] = "pip" => "pip" \in disk /\ Deps \ todo[i] \subseteq disk

\* An undisturbed call that has its environment has what the probe looks for.
Complete == \A i \in Calls \ clash : pc[i] = "port" => {"python"} \cup Probed \subseteq disk

IInv == Types /\ JobsFit /\ Undisturbed /\ Progress /\ Complete /\ FailsForCause

-----------------------------------------------------------------------------
\* The invariant holds at the start: nothing runs and nobody waits.
LEMMA InitKeeps == Init => IInv
  BY DEF Init, IInv, Types, JobsFit, Undisturbed, Progress, Complete, FailsForCause, Phases, Jobs, None

\* Steps of a call that neither start nor end a process.
LEMMA CallKeeps ==
  ASSUME IInv, NEW i \in Calls, Begins(i) \/ Spawns(i) \/ WindowGone(i)
  PROVE  IInv'
<1>1. Types'
  BY DEF IInv, Types, Phases, Begins, Spawns, WindowGone, Goto
<1>2. JobsFit'
  BY DEF IInv, Types, JobsFit, Begins, Spawns, WindowGone, Goto
<1>3. Undisturbed' /\ Progress' /\ Complete'
  BY DEF IInv, Types, Undisturbed, Progress, Complete, Begins, Spawns, WindowGone, Goto
<1>4. FailsForCause'
  BY DEF IInv, Types, FailsForCause, Begins, Spawns, WindowGone, Goto
<1> QED BY <1>1, <1>2, <1>3, <1>4 DEF IInv

\* A refused interpreter is a cause of the call's own.
LEMMA RefusedKeeps ==
  ASSUME IInv, NEW i \in Calls, NEW p, InterpreterRefused(i, p)
  PROVE  IInv'
<1>1. Types' /\ JobsFit'
  BY DEF IInv, Types, JobsFit, Phases, InterpreterRefused, GivesUp, Goto
<1>2. Undisturbed' /\ Progress' /\ Complete'
  BY DEF IInv, Types, Undisturbed, Progress, Complete, InterpreterRefused, GivesUp, Goto
<1>3. FailsForCause'
  <2> HIDE DEF Doctor
  <2> QED BY DEF IInv, Types, FailsForCause, InterpreterRefused, GivesUp, Goto
<1> QED BY <1>1, <1>2, <1>3 DEF IInv

\* The first process of a bootstrap disturbs all who rely on the directory.
LEMMA AcceptedKeeps ==
  ASSUME IInv, NEW i \in Calls, NEW p, NEW slow \in Slow, InterpreterAccepted(i, p, slow)
  PROVE  IInv'
<1>1. CASE NeedsBootstrap \/ slow
  <2>1. /\ pc[i] = "interpreter" /\ job[i] = None
        /\ pc' = [pc EXCEPT ![i] = "venv"] /\ job' = [job EXCEPT ![i] = "venv"]
        /\ clash' = clash \cup Relying(i) \cup Disturbed(i)
        /\ UNCHANGED <<disk, todo, blame, spoilt>> /\ py' = [py EXCEPT ![i] = p]
    BY <1>1 DEF InterpreterAccepted, Bootstrap, Starts, Goto, IInv, JobsFit
  <2>2. Types' /\ JobsFit'
    BY <2>1 DEF IInv, Types, JobsFit, Phases, Jobs, None
  <2>3. Undisturbed'
    BY <2>1 DEF IInv, Types, Undisturbed, Relying, Disturbed, Busy, None
  <2>4. Progress' /\ Complete'
    BY <2>1 DEF IInv, Types, Progress, Complete, Relying
  <2>5. FailsForCause'
    BY <2>1 DEF IInv, Types, FailsForCause
  <2> QED BY <2>2, <2>3, <2>4, <2>5 DEF IInv
<1>2. CASE ~(NeedsBootstrap \/ slow)
  <2>1. /\ pc[i] = "interpreter" /\ job[i] = None
        /\ pc' = [pc EXCEPT ![i] = "port"]
        /\ clash' = clash \cup Disturbed(i)
        /\ UNCHANGED <<disk, job, todo, blame, spoilt>> /\ py' = [py EXCEPT ![i] = p]
    BY <1>2 DEF InterpreterAccepted, Goto, IInv, JobsFit
  <2>2. Types' /\ JobsFit'
    BY <2>1 DEF IInv, Types, JobsFit, Phases
  <2>3. Undisturbed'
    BY <2>1 DEF IInv, Types, Undisturbed, Disturbed, Busy, None
  <2>4. Progress' /\ Complete'
    BY <2>1, <1>2 DEF IInv, Types, Progress, Complete, NeedsBootstrap
  <2>5. FailsForCause'
    BY <2>1 DEF IInv, Types, FailsForCause
  <2> QED BY <2>2, <2>3, <2>4, <2>5 DEF IInv
<1> QED BY <1>1, <1>2

\* `python -m venv` puts the interpreter in place.
LEMMA VenvCreatesKeeps ==
  ASSUME IInv, NEW i \in Calls, VenvCreates(i)
  PROVE  IInv'
<1>1. Types' /\ JobsFit'
  BY DEF IInv, Types, JobsFit, Jobs, None, VenvCreates
<1>2. Undisturbed' /\ Complete'
  BY DEF IInv, Types, Undisturbed, Complete, None, VenvCreates
<1>3. Progress'
  BY DEF IInv, Types, Progress, Undisturbed, None, VenvCreates
<1>4. FailsForCause'
  BY DEF IInv, FailsForCause, VenvCreates
<1> QED BY <1>1, <1>2, <1>3, <1>4 DEF IInv

\* The environment has its pip, and pip starts with all that is missing.
LEMMA VenvDoneKeeps ==
  ASSUME IInv, NEW i \in Calls, VenvDone(i)
  PROVE  IInv'
<1>1. CASE pc[i] = "venv"
  <2>1. /\ job[i] = "ensurepip" /\ disk' = disk \cup {"pip"}
        /\ job' = [job EXCEPT ![i] = "pip"] /\ todo' = [todo EXCEPT ![i] = Deps \ disk']
        /\ clash' = clash \cup Relying(i) \cup Disturbed(i)
        /\ UNCHANGED <<pc, py, blame, spoilt>>
    BY <1>1 DEF VenvDone, Starts
  <2>2. Types' /\ JobsFit'
    BY <2>1, <1>1 DEF IInv, Types, JobsFit, Jobs, None
  <2>3. Undisturbed' /\ Complete'
    BY <2>1 DEF IInv, Types, Undisturbed, Complete, None
  <2>4. Progress'
    BY <2>1 DEF IInv, Types, Progress, Undisturbed, Relying, None
  <2>5. FailsForCause'
    BY <2>1 DEF IInv, FailsForCause
  <2> QED BY <2>2, <2>3, <2>4, <2>5 DEF IInv
<1>2. CASE pc[i] # "venv"
  <2>1. /\ job[i] = "ensurepip" /\ disk' = disk \cup {"pip"}
        /\ job' = [job EXCEPT ![i] = None]
        /\ UNCHANGED <<pc, py, todo, blame, spoilt, clash>>
    BY <1>2 DEF VenvDone
  <2>2. Types' /\ JobsFit'
    BY <2>1, <1>2 DEF IInv, Types, JobsFit, Jobs, None
  <2>3. Undisturbed' /\ Complete' /\ Progress'
    BY <2>1, <1>2 DEF IInv, Types, Undisturbed, Complete, Progress, None
  <2>4. FailsForCause'
    BY <2>1 DEF IInv, FailsForCause
  <2> QED BY <2>2, <2>3, <2>4 DEF IInv
<1> QED BY <1>1, <1>2

\* pip writes and removes distributions only, and finds those it has unpacked in place.
LEMMA PipWorksKeeps ==
  ASSUME IInv, NEW i \in Calls, NEW d \in Deps, PipUnpacks(i, d) \/ PipUnlinks(i, d)
  PROVE  IInv'
<1>1. job[i] = "pip" /\ d \in todo[i] /\ d # "python" /\ d # "pip"
  BY SetupAssumption DEF PipUnpacks, PipUnlinks
<1>2. Types' /\ JobsFit'
  BY DEF IInv, Types, JobsFit, PipUnpacks, PipUnlinks
<1>3. Undisturbed' /\ Complete'
  BY <1>1 DEF IInv, Types, Undisturbed, Complete, JobsFit, None, PipUnpacks, PipUnlinks
<1>4. Progress'
  BY <1>1 DEF IInv, Types, Progress, Undisturbed, None, PipUnpacks, PipUnlinks
<1>5. FailsForCause'
  BY DEF IInv, FailsForCause, PipUnpacks, PipUnlinks
<1> QED BY <1>2, <1>3, <1>4, <1>5 DEF IInv

\* An undisturbed pip that is done has left a complete environment.
LEMMA PipDoneKeeps ==
  ASSUME IInv, NEW i \in Calls, NEW slow \in Slow, PipDone(i, slow)
  PROVE  IInv'
<1>1. /\ job[i] = "pip" /\ todo[i] = {} /\ job' = [job EXCEPT ![i] = None]
      /\ UNCHANGED <<disk, py, todo, clash>>
      /\ spoilt' = IF slow THEN spoilt \cup {i} ELSE spoilt
  BY DEF PipDone
<1>2. i \notin clash /\ pc[i] = "venv" => ~NeedsBootstrap
  BY <1>1, SetupAssumption DEF IInv, Progress, NeedsBootstrap
<1>3. \/ pc' = pc
      \/ pc[i] = "venv" /\ pc' = [pc EXCEPT ![i] = "port"]
      \/ pc[i] = "venv" /\ pc' = [pc EXCEPT ![i] = "failed"] /\ (NeedsBootstrap \/ slow)
  BY DEF PipDone, GivesUp, Goto
<1>4. Types' /\ JobsFit'
  BY <1>1 DEF IInv, Types, JobsFit, Phases, Jobs, None, PipDone, GivesUp, Goto
<1>5. Undisturbed' /\ Progress'
  <2>1. Undisturbed'
    BY <1>1, <1>3 DEF IInv, Types, Undisturbed, None
  <2>2. Progress'
    BY <1>1, <1>3 DEF IInv, Types, Progress, None
  <2> QED BY <2>1, <2>2
<1>6. Complete'
  BY <1>1 DEF IInv, Types, Complete, NeedsBootstrap, PipDone, GivesUp, Goto
<1>7. FailsForCause'
  <2>2. pc'[i] = "failed" /\ pc[i] # "failed" => i \in spoilt' \cup clash'
    BY <1>1, <1>2, <1>3 DEF IInv, Types, Slow
  <2>3. spoilt \subseteq spoilt'
    BY <1>1
  <2> QED BY <1>1, <1>3, <2>2, <2>3 DEF IInv, Types, FailsForCause
<1> QED BY <1>4, <1>5, <1>6, <1>7 DEF IInv

\* The process of an undisturbed call fails for a reason outside the directory.
LEMMA JobFailsKeeps ==
  ASSUME IInv, NEW i \in Calls, JobFails(i)
  PROVE  IInv'
<1>1. /\ job[i] # None /\ job' = [job EXCEPT ![i] = None]
      /\ todo' = [todo EXCEPT ![i] = {}] /\ UNCHANGED <<disk, py, clash>>
      /\ spoilt \subseteq spoilt'
      /\ ~(job[i] = "pip" /\ "pip" \notin disk) => i \in spoilt'
  BY DEF JobFails
<1>2. Types' /\ JobsFit'
  BY <1>1, ZenonT(60) DEF IInv, Types, JobsFit, Phases, Jobs, None, JobFails, GivesUp, Goto
<1>3. Undisturbed' /\ Progress'
  BY <1>1, ZenonT(60) DEF IInv, Types, Undisturbed, Progress, None, JobFails, GivesUp, Goto
<1>4. Complete'
  BY <1>1 DEF IInv, Types, Complete, JobFails, GivesUp, Goto
<1>5. FailsForCause'
  <2>1. pc' = pc \/ (pc[i] = "venv" /\ pc' = [pc EXCEPT ![i] = "failed"])
    BY DEF JobFails, GivesUp, Goto
  <2>2. pc[i] = "venv" => i \in spoilt' \cup clash'
    BY <1>1 DEF IInv, Progress
  <2> QED BY <1>1, <2>1, <2>2 DEF IInv, Types, FailsForCause
<1> QED BY <1>2, <1>3, <1>4, <1>5 DEF IInv

\* Nothing relies on the directory when the machine is down.
LEMMA MachineDownKeeps ==
  ASSUME IInv, MachineDown
  PROVE  IInv'
<1>1. /\ pc' = [i \in Calls |-> IF i \in UnderWay THEN "gone" ELSE pc[i]]
      /\ job' = [i \in Calls |-> None] /\ todo' = [i \in Calls |-> {}]
      /\ UNCHANGED <<disk, py, blame, spoilt, clash>>
  BY DEF MachineDown
<1>2. Types' /\ JobsFit'
  BY <1>1 DEF IInv, Types, JobsFit, Phases, Jobs, None, UnderWay
<1>3. Undisturbed' /\ Progress' /\ Complete'
  BY <1>1 DEF Undisturbed, Progress, Complete, None, UnderWay
<1>4. FailsForCause'
  BY <1>1 DEF IInv, FailsForCause, UnderWay
<1> QED BY <1>2, <1>3, <1>4 DEF IInv

\* Every step keeps the invariant.
LEMMA StepKeeps ==
  ASSUME IInv, [Next]_vars
  PROVE  IInv'
<1>1. CASE \E i \in Calls : Begins(i) \/ Spawns(i) \/ WindowGone(i)
  BY <1>1, CallKeeps
<1>2. CASE \E i \in Calls : Examines(i)
  <2>1. PICK i \in Calls : Examines(i)
    BY <1>2
  <2>2. PICK p : InterpreterRefused(i, p) \/ \E slow \in Slow : InterpreterAccepted(i, p, slow)
    BY <2>1 DEF Examines
  <2> QED BY <2>2, RefusedKeeps, AcceptedKeeps
<1>3. CASE \E i \in Calls : Process(i)
  <2>1. PICK i \in Calls : Process(i)
    BY <1>3
  <2> QED BY <2>1, VenvCreatesKeeps, VenvDoneKeeps, PipWorksKeeps, PipDoneKeeps, JobFailsKeeps DEF Process
<1>4. CASE MachineDown
  BY <1>4, MachineDownKeeps
<1>5. CASE UNCHANGED vars
  BY <1>5 DEF vars, IInv, Types, JobsFit, Undisturbed, Progress, Complete, FailsForCause
<1> QED BY <1>1, <1>2, <1>3, <1>4, <1>5 DEF Next

-----------------------------------------------------------------------------
\* The invariant holds in every reachable state.
THEOREM Invariance == Spec => []IInv
<1>1. Init => IInv
  BY InitKeeps
<1>2. IInv /\ [Next]_vars => IInv'
  BY StepKeeps
<1> QED BY <1>1, <1>2, PTL DEF Spec

\* FailsForCause: a call with no other bootstrap beside it fails only for its interpreter
\* or a process of its own, whatever earlier bootstraps left in the directory.
THEOREM FailureHasCause == Spec => []FailsForCause
<1>1. IInv => FailsForCause
  BY DEF IInv
<1> QED BY <1>1, Invariance, PTL

\* SoloSpawnFindsDeps: such a call spawns its sidecar from an environment that has what
\* the probe looks for.
THEOREM SpawnFindsDeps == Spec => SoloSpawnFindsDeps
<1>1. IInv /\ [Next]_vars =>
        [\A i \in Calls \ clash :
           pc[i] # "spawned" /\ pc'[i] = "spawned" => {"python"} \cup Probed \subseteq disk]_vars
  <2> SUFFICES ASSUME IInv, [Next]_vars, NEW i \in Calls \ clash,
                      pc[i] # "spawned", pc'[i] = "spawned"
               PROVE  {"python"} \cup Probed \subseteq disk
    OBVIOUS
  <2>1. Spawns(i)
    <3>1. ASSUME NEW j \in Calls, Begins(j) \/ WindowGone(j) \/ Examines(j) PROVE FALSE
      BY <3>1 DEF IInv, Types, Begins, WindowGone, Examines, InterpreterRefused, InterpreterAccepted,
                  GivesUp, Goto
    <3>4. ASSUME NEW j \in Calls, Process(j) PROVE FALSE
      <4>1. CASE VenvCreates(j) \/ VenvDone(j) \/ \E d \in Deps : PipUnpacks(j, d) \/ PipUnlinks(j, d)
        BY <4>1 DEF VenvCreates, VenvDone, PipUnpacks, PipUnlinks
      <4>2. CASE JobFails(j)
        BY <4>2 DEF IInv, Types, JobFails, GivesUp, Goto
      <4>3. CASE \E slow \in Slow : PipDone(j, slow)
        BY <4>3 DEF IInv, Types, PipDone, GivesUp, Goto
      <4> QED BY <3>4, <4>1, <4>2, <4>3 DEF Process
    <3>2. ~MachineDown /\ ~UNCHANGED vars
      BY DEF MachineDown, vars
    <3>3. ASSUME NEW j \in Calls, Spawns(j) PROVE j = i
      BY <3>3 DEF IInv, Types, Spawns, Goto
    <3> QED BY <3>1, <3>2, <3>3, <3>4 DEF Next
  <2> QED BY <2>1 DEF Spawns, IInv, Complete
<1> QED BY <1>1, Invariance, PTL DEF Spec, SoloSpawnFindsDeps

-----------------------------------------------------------------------------
(* Selection.                                                              *)

Entries == Graphs \cup {Adapter}

SelectionTypes ==
  /\ setting \in Entries \cup {Unset} /\ adapter \in Graphs \cup {Unset}
  /\ saving \in Seq(Dialogs \X Entries)
  /\ starting \in SUBSET Slots /\ newest \in Slots
  /\ read \in [Slots -> Entries \cup {Unset}]
  /\ session \in [entry : Entries \cup {Unset}, graph : Graphs \cup {Unset}, newest : BOOLEAN]

\* What is at the entry is the graph confirmed last.
Names(entry) == chosen = IF entry = Adapter THEN adapter ELSE entry

\* The update asked for last names the choice; when all are written, the setting does.
LastUpdateNames ==
  ~failed => IF saving = <<>> THEN Names(setting) ELSE Names(saving[Len(saving)][2])

\* The start begun last read the setting as it is: whoever writes it starts a session.
SessionReadSetting ==
  /\ newest \in starting => read[newest] = setting
  /\ session.newest => session.entry = setting

SelectionInv == SelectionTypes /\ LastUpdateNames /\ SessionReadSetting /\ LastChoiceRuns

\* What Append and Tail do to the last element of a sequence.
LEMMA LastOfAppend ==
  ASSUME NEW S, NEW s \in Seq(S), NEW e \in S
  PROVE  /\ Append(s, e) \in Seq(S) /\ Append(s, e) # <<>>
         /\ Append(s, e)[Len(Append(s, e))] = e
  OBVIOUS

LEMMA LastOfTail ==
  ASSUME NEW S, NEW s \in Seq(S), s # <<>>
  PROVE  /\ Head(s) \in S /\ Tail(s) \in Seq(S)
         /\ Tail(s) = <<>> => s[Len(s)] = Head(s)
         /\ Tail(s) # <<>> => Tail(s)[Len(Tail(s))] = s[Len(s)]
<1>1. Len(s) \in Nat /\ Len(s) # 0
  OBVIOUS
<1>2. Head(s) \in S /\ Head(s) = s[1]
  BY <1>1
<1>3. /\ Tail(s) \in Seq(S) /\ Len(Tail(s)) = Len(s) - 1
      /\ \A k \in 1 .. Len(s) - 1 : Tail(s)[k] = s[k + 1]
  BY <1>1
<1>4. Tail(s) = <<>> => s[Len(s)] = Head(s)
  <2> HAVE Tail(s) = <<>>
  <2>1. Len(<<>>) = 0
    OBVIOUS
  <2>2. Len(Tail(s)) = 0
    BY <2>1, Zenon
  <2>3. Len(s) = 1
    BY <2>2, <1>1, <1>3
  <2> QED BY <2>3, <1>2
<1>5. Tail(s) # <<>> => Tail(s)[Len(Tail(s))] = s[Len(s)]
  <2> HAVE Tail(s) # <<>>
  <2>1. Len(Tail(s)) # 0
    BY <1>3
  <2>2. Len(s) - 1 \in 1 .. Len(s) - 1 /\ (Len(s) - 1) + 1 = Len(s)
    BY <2>1, <1>1, <1>3
  <2> QED BY <2>2, <1>3
<1> QED BY <1>2, <1>3, <1>4, <1>5

LEMMA SelectionInitKeeps == SelectionInit => SelectionInv
  BY DEF SelectionInit, NoSession, SelectionInv, SelectionTypes, LastUpdateNames,
    SessionReadSetting, LastChoiceRuns, Names

\* Steps of a dialog that confirm nothing.
LEMMA DialogKeeps ==
  ASSUME SelectionInv, UNCHANGED <<setting, adapter, saving, started, chosen, failed>>
  PROVE  SelectionInv'
  BY DEF started, SelectionInv, SelectionTypes, LastUpdateNames, SessionReadSetting, LastChoiceRuns, Names

\* A confirmed choice is the one that the update asked for last names.
LEMMA ConfirmsKeeps ==
  ASSUME SelectionInv, NEW d \in Dialogs, NEW g \in Graphs, NEW entry \in Entries,
         Confirms(d, g, entry), adapter' \in Graphs \cup {Unset},
         g = IF entry = Adapter THEN adapter' ELSE entry
  PROVE  SelectionInv'
<1>1. saving \in Seq(Dialogs \X Entries) /\ <<d, entry>> \in Dialogs \X Entries
  BY DEF SelectionInv, SelectionTypes
<1>2. /\ saving' \in Seq(Dialogs \X Entries) /\ saving' # <<>>
      /\ saving'[Len(saving')] = <<d, entry>>
  BY <1>1, LastOfAppend DEF Confirms
<1>3. SelectionTypes' /\ SessionReadSetting'
  BY <1>2 DEF SelectionInv, SelectionTypes, SessionReadSetting, Confirms, started
<1>4. LastUpdateNames'
  BY <1>2 DEF LastUpdateNames, Names, Confirms
<1>5. LastChoiceRuns'
  BY <1>2 DEF LastChoiceRuns
<1> QED BY <1>3, <1>4, <1>5 DEF SelectionInv

\* What a start that begins leaves: it is the one begun last, on the setting as it is.
LEMMA ReadsKeeps ==
  ASSUME SelectionTypes, setting' \in Entries \cup {Unset}, ReadsEntry(setting'),
         adapter' \in Graphs \cup {Unset}, saving' \in Seq(Dialogs \X Entries)
  PROVE  SelectionTypes' /\ SessionReadSetting' /\ LastChoiceRuns'
<1>1. PICK c \in Slots : /\ starting' = starting \cup {c} /\ newest' = c
                         /\ read' = [read EXCEPT ![c] = setting']
  BY DEF ReadsEntry
<1>2. session' = NoSession
  BY DEF ReadsEntry
<1>3. read' \in [Slots -> Entries \cup {Unset}] /\ read'[c] = setting'
  BY <1>1 DEF SelectionTypes
<1>4. SelectionTypes'
  BY <1>1, <1>2, <1>3 DEF SelectionTypes, NoSession
<1> QED BY <1>1, <1>2, <1>3, <1>4 DEF SessionReadSetting, LastChoiceRuns, NoSession

\* The update written was the last one, or the last one is still to come.
LEMMA SavedKeeps ==
  ASSUME SelectionInv, Saved
  PROVE  SelectionInv'
<1>1. saving \in Seq(Dialogs \X Entries) /\ saving # <<>>
  BY DEF SelectionInv, SelectionTypes, Saved
<1>2. /\ Head(saving) \in Dialogs \X Entries /\ saving' \in Seq(Dialogs \X Entries)
      /\ saving' = <<>> => saving[Len(saving)] = Head(saving)
      /\ saving' # <<>> => saving'[Len(saving')] = saving[Len(saving)]
  BY <1>1, LastOfTail DEF Saved
<1>3. /\ setting' = Head(saving)[2] /\ setting' \in Entries
      /\ ReadsEntry(setting') /\ UNCHANGED <<adapter, chosen, failed>>
  BY <1>2 DEF Saved
<1>4. SelectionTypes' /\ SessionReadSetting' /\ LastChoiceRuns'
  BY <1>2, <1>3, ReadsKeeps DEF SelectionInv, SelectionTypes
<1>5. LastUpdateNames'
  BY <1>1, <1>2, <1>3 DEF SelectionInv, LastUpdateNames, Names
<1> QED BY <1>4, <1>5 DEF SelectionInv

\* A write that fails, of the adapter or of the setting, suspends the promise.
LEMMA WriteFailsKeeps ==
  ASSUME SelectionInv, NEW d \in Dialogs, AdapterFails(d) \/ SaveFails
  PROVE  SelectionInv'
<1>1. failed' /\ UNCHANGED <<setting, started, chosen>> /\ adapter' \in {adapter, Unset}
  BY DEF AdapterFails, SaveFails
<1>2. saving \in Seq(Dialogs \X Entries)
  BY DEF SelectionInv, SelectionTypes
<1>3. saving' \in Seq(Dialogs \X Entries)
  <2>1. CASE AdapterFails(d)
    BY <2>1, <1>2 DEF AdapterFails
  <2>2. CASE SaveFails
    <3> HIDE DEF Entries
    <3> QED BY <2>2, <1>2, LastOfTail DEF SaveFails
  <2> QED BY <2>1, <2>2
<1> QED
  BY <1>1, <1>3 DEF SelectionInv, SelectionTypes, LastUpdateNames, SessionReadSetting,
    LastChoiceRuns, started

\* A start begins on the setting as it is, connects with what it has read or fails, and
\* the worker loads what that names.
LEMMA SessionKeeps ==
  ASSUME SelectionInv, NEW c \in Slots, Reloads \/ Connects(c) \/ StartFails(c) \/ Loads
  PROVE  SelectionInv'
<1>1. UNCHANGED <<setting, adapter, saving, chosen, failed>>
  BY DEF Reloads, Connects, StartFails, Loads
<1>2. LastUpdateNames'
  BY <1>1 DEF SelectionInv, LastUpdateNames, Names
<1>3. CASE Reloads
  <2>1. ReadsEntry(setting')
    BY <1>1, <1>3 DEF Reloads
  <2> QED BY <1>1, <1>2, <2>1, ReadsKeeps DEF SelectionInv, SelectionTypes
<1>4. CASE Connects(c)
  <2> DEFINE last == (c = newest)
  <2>1. last \in BOOLEAN /\ (last => c = newest)
    OBVIOUS
  <2>2. session' = [entry |-> read[c], graph |-> Unset, newest |-> last]
    BY <1>4 DEF Connects
  <2> HIDE DEF last
  <2>3. /\ session'.entry = read[c] /\ session'.graph = Unset /\ session'.newest = last
        /\ starting' = starting \ {c} /\ UNCHANGED <<read, newest>> /\ c \in starting
    BY <1>4, <2>2 DEF Connects
  <2>4. SelectionTypes'
    BY <1>1, <2>1, <2>2, <2>3 DEF SelectionInv, SelectionTypes
  <2>5. SessionReadSetting'
    BY <1>1, <2>1, <2>3, Zenon DEF SelectionInv, SessionReadSetting
  <2> QED BY <1>2, <2>3, <2>4, <2>5 DEF SelectionInv, LastChoiceRuns
<1>6. CASE StartFails(c)
  <2>1. starting' = starting \ {c} /\ session' = NoSession /\ UNCHANGED <<read, newest>>
    BY <1>6 DEF StartFails
  <2> QED BY <1>1, <1>2, <2>1 DEF SelectionInv, SelectionTypes, SessionReadSetting,
                                  LastChoiceRuns, NoSession
<1>5. CASE Loads
  <2>1. /\ UNCHANGED <<starting, read, newest>>
        /\ session'.entry = session.entry /\ session'.newest = session.newest
        /\ session'.graph = IF session.entry = Adapter THEN adapter ELSE session.entry
        /\ session' \in [entry : Entries \cup {Unset}, graph : Graphs \cup {Unset},
                       newest : BOOLEAN]
    BY <1>5 DEF SelectionInv, SelectionTypes, Entries, Loads
  <2>2. SelectionTypes' /\ SessionReadSetting'
    BY <1>1, <2>1 DEF SelectionInv, SelectionTypes, SessionReadSetting
  <2>3. LastChoiceRuns'
    BY <1>1, <1>2, <2>1, <2>2 DEF LastUpdateNames, SessionReadSetting, LastChoiceRuns, Names
  <2> QED BY <1>2, <2>2, <2>3 DEF SelectionInv
<1> QED BY <1>3, <1>4, <1>5, <1>6

LEMMA SelectionStepKeeps == SelectionInv /\ [SelectionNext]_selectionVars => SelectionInv'
<1> SUFFICES ASSUME SelectionInv, [SelectionNext]_selectionVars
             PROVE  SelectionInv'
  OBVIOUS
<1>1. ASSUME NEW d \in Dialogs, Opens(d) \/ Lists(d) \/ Cancels(d) \/ PicksManual(d) \/ PicksFile(d)
      PROVE  SelectionInv'
  BY <1>1, DialogKeeps DEF Opens, Lists, Cancels, PicksManual, PicksFile
<1>2. ASSUME NEW d \in Dialogs, AdapterFails(d) PROVE SelectionInv'
  BY <1>2, WriteFailsKeeps
<1>3. ASSUME NEW d \in Dialogs, NEW g \in Graphs, PicksEntry(d, g) PROVE SelectionInv'
  <2>1. g # Adapter /\ adapter' = adapter /\ Confirms(d, g, g) /\ g \in Entries
    BY <1>3, SelectionAssumption DEF PicksEntry, Entries
  <2>2. adapter' \in Graphs \cup {Unset}
    BY <2>1 DEF SelectionInv, SelectionTypes
  <2> QED BY <2>1, <2>2, ConfirmsKeeps
<1>4. ASSUME NEW d \in Dialogs, NEW g \in Graphs, PicksSymbol(d, g) PROVE SelectionInv'
  <2>1. adapter' = g /\ Confirms(d, g, Adapter) /\ Adapter \in Entries
    BY <1>4 DEF PicksSymbol, Entries
  <2> QED BY <2>1, ConfirmsKeeps
<1>5. CASE Saved
  BY <1>5, SavedKeeps
<1>6. ASSUME SaveFails PROVE SelectionInv'
  <2>1. Head(saving)[1] \in Dialogs
    BY <1>6, LastOfTail DEF SelectionInv, SelectionTypes, SaveFails
  <2> QED BY <1>6, <2>1, WriteFailsKeeps
<1>7. ASSUME NEW c \in Slots, Reloads \/ Connects(c) \/ StartFails(c) \/ Loads
      PROVE  SelectionInv'
  BY <1>7, SessionKeeps
<1>9. newest \in Slots
  BY DEF SelectionInv, SelectionTypes
<1>8. CASE UNCHANGED selectionVars
  BY <1>8, DialogKeeps DEF selectionVars
<1> QED BY <1>1, <1>2, <1>3, <1>4, <1>5, <1>6, <1>7, <1>8, <1>9 DEF SelectionNext

\* Once no choice is being saved, a session whose start was begun last runs the graph
\* confirmed last, unless a write failed since: for any graphs and any number of dialogs and
\* of starts at a time.
THEOREM LastChoiceInForce == SelectionSpec => []LastChoiceRuns
<1>1. SelectionInv => LastChoiceRuns
  BY DEF SelectionInv
<1> QED BY <1>1, SelectionInitKeeps, SelectionStepKeeps, PTL DEF SelectionSpec
=============================================================================
