---------------------------- MODULE WorkerProofs ----------------------------
(***************************************************************************)
(* Theorems about the worker, for every graph, every mix of commands and    *)
(* every length of standard input: types, aborts, the refinement of         *)
(* RunProtocol, breakpoints, and behind them step mode and pauses.          *)
(***************************************************************************)
EXTENDS Worker, TLAPS, SequenceTheorems

USE GraphAssumption, ClientAssumption

\* What BeginStream leaves behind is well typed.
LEMMA StreamTyped ==
  ASSUME TypeOK, NEW step \in BOOLEAN, NEW fromInput \in BOOLEAN, BeginStream(step, fromInput)
  PROVE  /\ pc' \in PCs /\ stepMode' \in BOOLEAN
         /\ stops' \in [before : SUBSET Nodes, after : SUBSET Nodes]
         /\ armed' \in BOOLEAN /\ inside' \in BOOLEAN /\ steps' \in Nat
  BY DEF BeginStream, StopLists, BpNodes, PCs, TypeOK

\* A taken line is one the reader has read, and it is a command.
LEMMA TakenTyped ==
  ASSUME TypeOK, NEW kinds, Takes(kinds)
  PROVE  /\ log' \in Seq(Commands) /\ saw' \in Seq(Nat)
         /\ rd' \in Nat /\ got' \in Nat /\ got' <= rd' /\ rd' <= Len(log')
         /\ resetAt <= rd'
         /\ Cmd \in Commands /\ Cmd.cmd \in kinds
  BY DEF Takes, Cmd, pipeVars, TypeOK

\* A breakpoint command names a node and a side of it.
LEMMA BreakpointTyped ==
  ASSUME NEW c \in Commands, c.cmd \in {"set_breakpoint", "clear_breakpoint"}
  PROVE  c.node \in Nodes /\ c.when \in Boundaries
  BY DEF Commands

\* A fork goes on in front of a node or at the end, from the input or from a checkpoint.
LEMMA ForkTyped ==
  ASSUME NEW c \in Commands, c.cmd = "fork"
  PROVE  ForkLeads(c) \subseteq Nodes \cup {End}
<1>1. c.to \in Positions /\ c.edit \in BOOLEAN
  BY DEF Commands
<1>2. Rerouted(c.to) \subseteq Nodes \cup {End}
  BY DEF Rerouted
<1>. QED
  BY <1>1, <1>2 DEF ForkLeads, Positions

LEMMA EmitsTyped == late \in Nat /\ Emits => passed' \in BOOLEAN /\ late' \in Nat
<1> SUFFICES ASSUME late \in Nat, Emits PROVE passed' \in BOOLEAN /\ late' \in Nat
  OBVIOUS
<1> DEFINE more == IF abort THEN 1 ELSE 0
<1>1. passed' = FALSE /\ late' = late + more
  BY Zenon DEF Emits
<1>2. more \in Nat
  OBVIOUS
<1>. HIDE DEF more
<1>3. late' \in Nat
  BY <1>1, <1>2, SMT
<1>. QED
  BY <1>1, <1>3, Zenon

LEMMA TypeStep == TypeOK /\ [Next]_vars => TypeOK'
<1> SUFFICES ASSUME TypeOK, [Next]_vars PROVE TypeOK'
  OBVIOUS
<1>. USE DEF TypeOK, Bursts, eventVars
<1>1. ASSUME NEW c \in Offered, ClientWrites(c) PROVE TypeOK'
  <2>1. c \in Commands
    OBVIOUS
  <2>2. log' \in Seq(Commands) /\ Len(log') = Len(log) + 1 /\ saw' \in Seq(Nat)
    BY <1>1, <2>1 DEF ClientWrites
  <2>. QED
    BY <1>1, <2>2 DEF ClientWrites, graphVars, flowVars
<1>2. CASE ReaderReads
  <2>1. abort' \in BOOLEAN
    BY <1>2 DEF ReaderReads, ReaderFlag
  <2>. QED
    BY <1>2, <2>1 DEF ReaderReads, graphVars, flowVars
<1>3. CASE Stream
  <2>1. CASE StreamEnds
    BY <2>1 DEF StreamEnds, pipeVars, graphVars, flowVars, PCs
  <2>2. CASE StreamAborts
    BY <2>2 DEF StreamAborts, pipeVars, graphVars, PCs
  <2>7. CASE EventPasses
    BY <2>7 DEF EventPasses, pipeVars, graphVars, flowVars
  <2>8. Emits => passed' \in BOOLEAN /\ late' \in Nat
    BY EmitsTyped
  <2>3. CASE NodeStarts
    <3>1. inside' => next' \in Nodes
      BY <2>3 DEF NodeStarts, graphVars
    <3>. QED
      BY <2>3, <2>8, <3>1 DEF NodeStarts, pipeVars, graphVars
  <2>4. CASE NodeEnds
    <3>1. Succ[next] \subseteq Nodes \cup {End}
      BY <2>4 DEF NodeEnds
    <3>2. next' \in Nodes \cup {End}
      BY <2>4, <3>1 DEF NodeEnds
    <3>3. hist' \in SUBSET Positions
      BY <2>4, <3>2 DEF NodeEnds, Positions
    <3>4. pc' \in PCs
      BY <2>4 DEF NodeEnds, PCs
    <3>5. steps' \in Nat
      BY <2>4 DEF NodeEnds
    <3>. QED
      BY <2>4, <2>8, <3>2, <3>3, <3>4, <3>5 DEF NodeEnds, pipeVars
  <2>5. CASE NodeInterrupts
    <3>1. intr' \in Nat /\ pc' \in PCs /\ pending' \in BOOLEAN
      BY <2>5 DEF NodeInterrupts, PCs
    <3>. QED
      BY <2>5, <3>1 DEF NodeInterrupts, pipeVars
  <2>6. CASE RunFails
    BY <2>6 DEF RunFails, pipeVars, graphVars, PCs
  <2>. QED
    BY <1>3, <2>1, <2>2, <2>3, <2>4, <2>5, <2>6, <2>7 DEF Stream
<1>4. CASE RunLoop
  <2>1. CASE RunStarts
    <3>1. /\ pc' \in PCs /\ stepMode' \in BOOLEAN
          /\ stops' \in [before : SUBSET Nodes, after : SUBSET Nodes]
          /\ armed' \in BOOLEAN /\ inside' \in BOOLEAN /\ steps' \in Nat
      BY <2>1, StreamTyped DEF RunStarts
    <3>2. /\ next' \in Nodes /\ hist' \in SUBSET Positions /\ pending' \in BOOLEAN
          /\ abort' \in BOOLEAN /\ passed' \in BOOLEAN /\ late' \in Nat
      BY <2>1 DEF RunStarts, FlagAtRunStart, Positions
    <3>. QED
      BY <2>1, <3>1, <3>2 DEF RunStarts, pipeVars
  <2>2. CASE RunAborted
    BY <2>2 DEF RunAborted, pipeVars, graphVars, flowVars, PCs
  <2>3. CASE StreamExamined
    BY <2>3 DEF StreamExamined, StepModeAfterStream, pipeVars, graphVars, flowVars, PCs
  <2>4. CASE RunCompletes
    BY <2>4 DEF RunCompletes, pipeVars, graphVars, flowVars, PCs
  <2>5. CASE PausesManually
    BY <2>5 DEF PausesManually, pipeVars, graphVars, flowVars, PCs
  <2>6. CASE PauseFails
    BY <2>6 DEF PauseFails, pipeVars, graphVars, flowVars, PCs
  <2>7. CASE PausesAtBreakpoint
    BY <2>7 DEF PausesAtBreakpoint, pipeVars, graphVars, flowVars, PCs
  <2>. QED
    BY <1>4, <2>1, <2>2, <2>3, <2>4, <2>5, <2>6, <2>7 DEF RunLoop
<1>5. CASE Serve
  <2>1. CASE ApplyBreakpoint
    <3>1. Cmd \in Commands /\ Cmd.cmd \in {"set_breakpoint", "clear_breakpoint"}
      BY <2>1, TakenTyped DEF ApplyBreakpoint
    <3>2. <<Cmd.node, Cmd.when>> \in Nodes \X Boundaries
      BY <3>1, BreakpointTyped
    <3>3. bps' \in SUBSET (Nodes \X Boundaries)
      BY <2>1, <3>2 DEF ApplyBreakpoint
    <3>. QED
      BY <2>1, <3>3, TakenTyped DEF ApplyBreakpoint, graphVars, flowVars
  <2>2. CASE IdleTakesRun
    BY <2>2, TakenTyped DEF IdleTakesRun, graphVars, flowVars, PCs
  <2>9. CASE IdleShutsDown
    BY <2>9, TakenTyped DEF IdleShutsDown, graphVars, flowVars, PCs
  <2>10. CASE IdleIgnores
    BY <2>10, TakenTyped DEF IdleIgnores, graphVars, flowVars
  <2>3. CASE PauseSeesEof
    BY <2>3, TakenTyped DEF PauseSeesEof, graphVars, flowVars, PCs
  <2>11. CASE PauseAborts
    BY <2>11, TakenTyped DEF PauseAborts, graphVars, flowVars, PCs
  <2>12. CASE PauseRefusesFork
    BY <2>12, TakenTyped DEF PauseRefusesFork, graphVars, flowVars
  <2>13. CASE PauseForkRaises
    BY <2>13, TakenTyped DEF PauseForkRaises, graphVars, flowVars, PCs
  <2>4. CASE PauseForks
    <3>1. /\ pc' \in PCs /\ stepMode' \in BOOLEAN
          /\ stops' \in [before : SUBSET Nodes, after : SUBSET Nodes]
          /\ armed' \in BOOLEAN /\ inside' \in BOOLEAN /\ steps' \in Nat
      BY <2>4, ForkTyped, StreamTyped DEF PauseForks
    <3>2. inside' = FALSE
      BY <2>4 DEF PauseForks, BeginStream
    <3>3. next' \in Nodes \cup {End} /\ pending' \in BOOLEAN
      <4>1. Cmd \in Commands /\ Cmd.cmd = "fork"
        <5>1. Takes({"fork"})
          BY <2>4 DEF PauseForks
        <5>2. Cmd \in Commands /\ Cmd.cmd \in {"fork"}
          BY <5>1, TakenTyped
        <5>. QED
          BY <5>2
      <4>2. next' \in ForkLeads(Cmd) /\ pending' = FALSE
        BY <2>4 DEF PauseForks
      <4>3. ForkLeads(Cmd) \subseteq Nodes \cup {End}
        BY <4>1, ForkTyped
      <4>. QED
        BY <4>2, <4>3
    <3>4. hist' \in SUBSET Positions
      BY <2>4, <3>3 DEF PauseForks, Positions
    <3>. QED
      BY <2>4, <3>1, <3>2, <3>3, <3>4, TakenTyped DEF PauseForks
  <2>5. CASE ManualResumes
    <3>1. /\ pc' \in PCs /\ stepMode' \in BOOLEAN
          /\ stops' \in [before : SUBSET Nodes, after : SUBSET Nodes]
          /\ armed' \in BOOLEAN /\ inside' \in BOOLEAN /\ steps' \in Nat
      BY <2>5, StreamTyped DEF ManualResumes
    <3>2. inside' = FALSE
      BY <2>5 DEF ManualResumes, BeginStream
    <3>3. pending' \in BOOLEAN
      BY <2>5 DEF ManualResumes
    <3>. QED
      BY <2>5, <3>1, <3>2, <3>3, TakenTyped DEF ManualResumes
  <2>6. CASE ManualRejects
    BY <2>6, TakenTyped DEF ManualRejects, graphVars, flowVars
  <2>14. CASE ManualIgnores
    BY <2>14, TakenTyped DEF ManualIgnores, graphVars, flowVars
  <2>7. CASE BreakpointAdvances
    <3>1. /\ pc' \in PCs /\ stepMode' \in BOOLEAN
          /\ stops' \in [before : SUBSET Nodes, after : SUBSET Nodes]
          /\ armed' \in BOOLEAN /\ inside' \in BOOLEAN /\ steps' \in Nat
      BY <2>7, StreamTyped DEF BreakpointAdvances
    <3>2. inside' = FALSE
      BY <2>7 DEF BreakpointAdvances, BeginStream
    <3>. QED
      BY <2>7, <3>1, <3>2, TakenTyped DEF BreakpointAdvances, graphVars
  <2>8. CASE BreakpointShowsState
    BY <2>8, TakenTyped DEF BreakpointShowsState, graphVars, flowVars
  <2>15. CASE BreakpointIgnores
    BY <2>15, TakenTyped DEF BreakpointIgnores, graphVars, flowVars
  <2>. QED
    BY <1>5, <2>1, <2>2, <2>3, <2>4, <2>5, <2>6, <2>7, <2>8, <2>9, <2>10, <2>11, <2>12, <2>13,
       <2>14, <2>15 DEF Serve
<1>6. CASE UNCHANGED vars
  BY <1>6 DEF vars, pipeVars, graphVars, flowVars
<1>. QED
  BY <1>1, <1>2, <1>3, <1>4, <1>5, <1>6 DEF Next, Client, Coroutine

\* The variables keep their types, whatever the graph and whatever the client writes.
THEOREM TypeCorrect == Spec => []TypeOK
<1>1. Init => TypeOK
  <2> SUFFICES ASSUME Init PROVE TypeOK
    OBVIOUS
  <2>1. log \in Seq(Commands) /\ saw \in Seq(Nat) /\ rd <= Len(log) /\ got <= rd
    BY DEF Init
  <2>2. rd \in Nat /\ got \in Nat /\ resetAt \in Nat /\ resetAt <= rd /\ intr \in Nat /\ steps \in Nat
    BY DEF Init
  <2>3. pc \in PCs /\ out \in Bursts
    BY DEF Init, PCs, Bursts
  <2>4. bps \in SUBSET (Nodes \X Boundaries) /\ hist \in SUBSET Positions /\ next \in Nodes \cup {End}
    BY DEF Init
  <2>5. stops \in [before : SUBSET Nodes, after : SUBSET Nodes]
    BY DEF Init
  <2>6. /\ abort \in BOOLEAN /\ pending \in BOOLEAN /\ stepMode \in BOOLEAN
        /\ armed \in BOOLEAN /\ inside \in BOOLEAN /\ (inside => next \in Nodes)
    BY DEF Init
  <2>7. passed \in BOOLEAN /\ late \in Nat
    BY DEF Init
  <2>. QED
    BY <2>1, <2>2, <2>3, <2>4, <2>5, <2>6, <2>7 DEF TypeOK
<1>. QED
  BY <1>1, TypeStep, PTL DEF Spec

-----------------------------------------------------------------------------
(* The abort flag belongs to the run it was raised in.                     *)

\* An abort was read since the run cleared the flag.
AbortRead == \E k \in resetAt + 1 .. rd : log[k].cmd = "abort"

\* A step that touches neither the flag nor what was read, and starts no run.
LEMMA FlagKept ==
  ASSUME AbortOwned, UNCHANGED <<log, rd, abort, resetAt>>, Live' => Live
  PROVE  AbortOwned'
  BY DEF AbortOwned

\* Apart from starting a run and consuming the flag, the coroutine leaves it alone.
LEMMA CoroutineKeepsFlag ==
  ASSUME Coroutine, ~RunStarts, ~RunAborted
  PROVE  UNCHANGED <<log, rd, abort, resetAt>> /\ (Live' => Live)
<1>. USE DEF Live, InStream, Paused, Waiting, pipeVars, flowVars
<1>1. CASE Stream
  BY <1>1 DEF Stream, EventPasses, StreamEnds, StreamAborts, NodeStarts, NodeEnds,
              NodeInterrupts, RunFails
<1>2. CASE RunLoop
  BY <1>2 DEF RunLoop, StreamExamined, RunCompletes, PausesManually, PauseFails,
              PausesAtBreakpoint
<1>3. CASE ApplyBreakpoint \/ IdleTakesRun \/ IdleShutsDown \/ IdleIgnores
  BY <1>3 DEF ApplyBreakpoint, IdleTakesRun, IdleShutsDown, IdleIgnores, Takes
<1>4. CASE PauseSeesEof \/ PauseAborts \/ PauseForks \/ PauseRefusesFork \/ PauseForkRaises
  BY <1>4 DEF PauseSeesEof, PauseAborts, PauseForks, PauseRefusesFork, PauseForkRaises, Takes,
              BeginStream
<1>5. CASE ManualResumes \/ ManualRejects \/ ManualIgnores
  BY <1>5 DEF ManualResumes, ManualRejects, ManualIgnores, Takes, BeginStream
<1>6. CASE BreakpointAdvances \/ BreakpointShowsState \/ BreakpointIgnores
  BY <1>6 DEF BreakpointAdvances, BreakpointShowsState, BreakpointIgnores, Takes, BeginStream
<1>. QED
  BY <1>1, <1>2, <1>3, <1>4, <1>5, <1>6 DEF Coroutine, Serve

LEMMA AbortStep == TypeOK /\ AbortOwned /\ [Next]_vars => AbortOwned'
<1> SUFFICES ASSUME TypeOK, AbortOwned, [Next]_vars PROVE AbortOwned'
  OBVIOUS
<1>1. ASSUME NEW c \in Offered, ClientWrites(c) PROVE AbortOwned'
  <2>1. \A k \in 1 .. Len(log) : log'[k] = log[k]
    BY <1>1 DEF ClientWrites, TypeOK
  <2>2. AbortRead' <=> AbortRead
    BY <1>1, <2>1 DEF ClientWrites, AbortRead, TypeOK
  <2>3. abort' = abort /\ (Live' <=> Live)
    BY <1>1 DEF ClientWrites, Live, InStream, Paused
  <2>. QED
    BY <2>2, <2>3 DEF AbortOwned, AbortRead
<1>2. CASE ReaderReads
  <2>1. /\ log' = log /\ rd' = rd + 1 /\ resetAt' = resetAt /\ pc' = pc
        /\ abort' <=> (abort \/ log[rd + 1].cmd = "abort")
    BY <1>2 DEF ReaderReads, ReaderFlag, TypeOK
  <2>2. AbortRead' <=> (AbortRead \/ log[rd + 1].cmd = "abort")
    <3>1. resetAt' + 1 .. rd' = (resetAt + 1 .. rd) \cup {rd + 1}
      BY <2>1 DEF TypeOK
    <3>. QED
      BY <2>1, <3>1 DEF AbortRead
  <2>3. Live' <=> Live
    BY <2>1 DEF Live, InStream, Paused
  <2>. QED
    BY <2>1, <2>2, <2>3 DEF AbortOwned, AbortRead
<1>3. CASE RunStarts
  <2>1. abort' = FALSE /\ resetAt' = rd /\ rd' = rd
    BY <1>3 DEF RunStarts, FlagAtRunStart, pipeVars
  <2>2. resetAt' + 1 .. rd' = {}
    BY <2>1 DEF TypeOK
  <2>. QED
    BY <2>1, <2>2 DEF AbortOwned
<1>4. CASE RunAborted
  BY <1>4 DEF RunAborted, AbortOwned, Live, InStream, Paused
<1>5. CASE Coroutine /\ ~RunStarts /\ ~RunAborted
  BY <1>5, CoroutineKeepsFlag, FlagKept
<1>6. CASE UNCHANGED vars
  BY <1>6, FlagKept DEF vars, pipeVars, Live, InStream, Paused
<1>. QED
  BY <1>1, <1>2, <1>3, <1>4, <1>5, <1>6 DEF Next, Client

\* While a run is live, the abort flag is up exactly when an abort was read in it.
THEOREM AbortsOwned == Spec => []AbortOwned
<1>1. Init => AbortOwned
  BY DEF Init, AbortOwned, Live, InStream, Paused
<1>. QED
  BY <1>1, AbortStep, TypeCorrect, PTL DEF Spec

-----------------------------------------------------------------------------
(* The worker implements the event protocol, step by step.                 *)

\* Where each program counter lies in the protocol.
LEMMA PhaseOf ==
  /\ pc \in {"idle", "starting"} => Phase = "idle"
  /\ pc \in {"stream", "stopped", "examine"} => Phase = "running"
  /\ pc = "manual" => Phase = "manual"
  /\ pc = "breakpoint" => Phase = "breakpoint"
  /\ pc = "exited" => Phase = "closed"
  BY DEF Phase, InStream

\* The same, after a step.
LEMMA PhaseOfNext ==
  /\ pc' \in {"idle", "starting"} => Phase' = "idle"
  /\ pc' \in {"stream", "stopped", "examine"} => Phase' = "running"
  /\ pc' = "manual" => Phase' = "manual"
  /\ pc' = "breakpoint" => Phase' = "breakpoint"
  /\ pc' = "exited" => Phase' = "closed"
  BY DEF Phase, InStream

LEMMA PhaseKept == pc' = pc => Phase' = Phase
  BY DEF Phase, InStream

LEMMA ProtocolStep == TypeOK /\ [Next]_vars => [Protocol!Next]_(Protocol!vars)
<1> SUFFICES ASSUME TypeOK, [Next]_vars PROVE [Protocol!Next]_(Protocol!vars)
  OBVIOUS
<1>. USE PhaseOf, PhaseOfNext, PhaseKept DEF Protocol!Moves
<1>1. CASE Client \/ ReaderReads
  <2>1. out' = <<>> /\ pc' = pc
    BY <1>1 DEF Client, ClientWrites, ReaderReads
  <2>. QED
    BY <2>1 DEF Protocol!Next, Protocol!Quiet
<1>2. CASE Stream
  <2>1. CASE EventPasses \/ StreamEnds \/ StreamAborts \/ NodeInterrupts
    <3>1. Protocol!Quiet
      BY <2>1 DEF EventPasses, StreamEnds, StreamAborts, NodeInterrupts, Protocol!Quiet
    <3>. QED
      BY <3>1 DEF Protocol!Next
  <2>2. CASE NodeStarts \/ NodeEnds
    <3>1. Protocol!NodeEvent
      BY <2>2 DEF NodeStarts, NodeEnds, Protocol!NodeEvent
    <3>. QED
      BY <3>1 DEF Protocol!Next
  <2>3. CASE RunFails
    <3>1. Protocol!Fails
      BY <2>3 DEF RunFails, Protocol!Fails
    <3>. QED
      BY <3>1 DEF Protocol!Next
  <2>. QED
    BY <1>2, <2>1, <2>2, <2>3 DEF Stream
<1>3. CASE RunLoop
  <2>1. CASE RunStarts
    <3>1. Protocol!Starts
      BY <2>1 DEF RunStarts, BeginStream, Protocol!Starts
    <3>. QED
      BY <3>1 DEF Protocol!Next
  <2>2. CASE RunAborted
    <3>1. Protocol!Aborts
      BY <2>2 DEF RunAborted, Protocol!Aborts
    <3>. QED
      BY <3>1 DEF Protocol!Next
  <2>3. CASE StreamExamined
    <3>1. Protocol!Quiet
      BY <2>3 DEF StreamExamined, Protocol!Quiet
    <3>. QED
      BY <3>1 DEF Protocol!Next
  <2>4. CASE RunCompletes
    <3>1. Protocol!Completes
      BY <2>4 DEF RunCompletes, Completion, Protocol!Completes
    <3>. QED
      BY <3>1 DEF Protocol!Next
  <2>5. CASE PausesManually
    <3>1. Protocol!PausesForAnswer
      BY <2>5 DEF PausesManually, Reconstructions, Protocol!PausesForAnswer, Protocol!Timeline
    <3>. QED
      BY <3>1 DEF Protocol!Next
  <2>6. CASE PauseFails
    <3>1. Protocol!Fails
      BY <2>6 DEF PauseFails, Protocol!Fails
    <3>. QED
      BY <3>1 DEF Protocol!Next
  <2>7. CASE PausesAtBreakpoint
    <3>1. Protocol!PausesAtNode
      BY <2>7 DEF PausesAtBreakpoint, Reconstructions, Protocol!PausesAtNode, Protocol!Timeline
    <3>. QED
      BY <3>1 DEF Protocol!Next
  <2>. QED
    BY <1>3, <2>1, <2>2, <2>3, <2>4, <2>5, <2>6, <2>7 DEF RunLoop
<1>4. CASE Serve
  <2>1. CASE ApplyBreakpoint \/ IdleTakesRun \/ IdleIgnores \/ ManualIgnores \/ BreakpointIgnores
    <3>1. Protocol!Quiet
      BY <2>1 DEF ApplyBreakpoint, IdleTakesRun, IdleIgnores, ManualIgnores, BreakpointIgnores,
                  Protocol!Quiet
    <3>. QED
      BY <3>1 DEF Protocol!Next
  <2>2. CASE IdleShutsDown
    <3>1. Protocol!Closes
      BY <2>2 DEF IdleShutsDown, Protocol!Closes
    <3>. QED
      BY <3>1 DEF Protocol!Next
  <2>3. CASE PauseSeesEof
    <3>1. Protocol!Drops
      BY <2>3 DEF PauseSeesEof, Paused, Protocol!Drops
    <3>. QED
      BY <3>1 DEF Protocol!Next
  <2>4. CASE PauseAborts
    <3>1. Protocol!Aborts
      BY <2>4 DEF PauseAborts, Paused, Protocol!Aborts
    <3>. QED
      BY <3>1 DEF Protocol!Next
  <2>5. CASE PauseForks \/ ManualResumes \/ BreakpointAdvances
    <3>1. Protocol!Continues
      BY <2>5 DEF PauseForks, ManualResumes, BreakpointAdvances, BeginStream, Paused,
                  Protocol!Continues
    <3>. QED
      BY <3>1 DEF Protocol!Next
  <2>6. CASE PauseRefusesFork \/ ManualRejects
    <3>1. Protocol!Refuses
      BY <2>6 DEF PauseRefusesFork, ManualRejects, Paused, Protocol!Refuses
    <3>. QED
      BY <3>1 DEF Protocol!Next
  <2>7. CASE BreakpointShowsState
    <3>1. Protocol!ShowsState
      BY <2>7 DEF BreakpointShowsState, Protocol!ShowsState
    <3>. QED
      BY <3>1 DEF Protocol!Next
  <2>8. CASE PauseForkRaises
    <3>1. Protocol!Fails
      BY <2>8 DEF PauseForkRaises, Paused, Protocol!Fails
    <3>. QED
      BY <3>1 DEF Protocol!Next
  <2>. QED
    BY <1>4, <2>1, <2>2, <2>3, <2>4, <2>5, <2>6, <2>7, <2>8 DEF Serve
<1>5. CASE UNCHANGED vars
  BY <1>5 DEF vars, Protocol!vars
<1>. QED
  BY <1>1, <1>2, <1>3, <1>4, <1>5 DEF Next, Coroutine

\* The events the worker writes follow RunProtocol, for every graph and every client.
THEOREM ProtocolImplemented == Spec => ImplementsProtocol
<1>1. Init => Protocol!Init
  BY PhaseOf DEF Init, Protocol!Init
<1>. QED
  BY <1>1, ProtocolStep, TypeCorrect, PTL DEF Spec, ImplementsProtocol, Protocol!Spec

-----------------------------------------------------------------------------
(* The event that passed the check may still go out, and no other.          *)

\* An event in flight is the next one of a running stream and the first that may be late,
\* and a run whose flag is down has reported none late.
LateInv ==
  /\ passed => pc = "stream" /\ NodeDue /\ late = 0
  /\ Live /\ ~abort => late = 0
  /\ late <= 1

\* A step that emits nothing, while the flag stays where it is or the run is over.
LEMMA NoneLate ==
  ASSUME LateInv, UNCHANGED <<passed, late>>, passed => UNCHANGED <<pc, next, stops, armed, inside, steps>>,
         Live' /\ ~abort' => Live /\ ~abort
  PROVE  LateInv'
  BY DEF LateInv, NodeDue, Stopping

LEMMA LateStep == TypeOK /\ LateInv /\ [Next]_vars => LateInv'
<1> SUFFICES ASSUME TypeOK, LateInv, [Next]_vars PROVE LateInv'
  OBVIOUS
<1>. USE DEF pipeVars, graphVars, flowVars, eventVars
<1>1. CASE Client \/ ReaderReads \/ UNCHANGED vars
  <2>1. UNCHANGED <<passed, late, pc, next, stops, armed, inside, steps>>
    BY <1>1 DEF Client, ClientWrites, ReaderReads, vars
  <2>2. ~abort' => ~abort
    BY <1>1 DEF Client, ClientWrites, ReaderReads, ReaderFlag, vars
  <2>3. Live' <=> Live
    BY <2>1 DEF Live, InStream, Paused
  <2>. QED
    BY <2>1, <2>2, <2>3, NoneLate
<1>2. CASE EventPasses
  BY <1>2 DEF EventPasses, FlagDown, LateInv, NodeDue, Stopping, Live, InStream
<1>3. CASE NodeStarts \/ NodeEnds
  <2>1. late = 0 /\ ~passed' /\ late' = IF abort THEN 1 ELSE 0
    BY <1>3 DEF NodeStarts, NodeEnds, Emits, LateInv
  <2>2. abort' = abort
    BY <1>3 DEF NodeStarts, NodeEnds
  <2>. QED
    BY <2>1, <2>2 DEF LateInv
<1>4. CASE NodeInterrupts \/ StreamEnds \/ StreamAborts \/ RunFails
  BY <1>4, NoneLate DEF NodeInterrupts, StreamEnds, StreamAborts, RunFails, Live, InStream, Paused
<1>5. CASE RunStarts
  BY <1>5 DEF RunStarts, LateInv
<1>6. CASE RunLoop /\ ~RunStarts
  BY <1>6, NoneLate DEF RunLoop, RunAborted, StreamExamined, RunCompletes, PausesManually,
     PauseFails, PausesAtBreakpoint, LateInv, Live, InStream, Paused
<1>7. CASE Serve
  <2>1. ~passed
    BY <1>7 DEF LateInv, Serve, ApplyBreakpoint, IdleTakesRun, IdleShutsDown, IdleIgnores,
       PauseSeesEof, PauseAborts, PauseForks, PauseRefusesFork, PauseForkRaises, ManualResumes,
       ManualRejects, ManualIgnores, BreakpointAdvances, BreakpointShowsState, BreakpointIgnores,
       Waiting, Paused
  <2>2. UNCHANGED <<passed, late, abort>>
    BY <1>7 DEF Serve, ApplyBreakpoint, IdleTakesRun, IdleShutsDown, IdleIgnores,
       PauseSeesEof, PauseAborts, PauseForks, PauseRefusesFork, PauseForkRaises, ManualResumes,
       ManualRejects, ManualIgnores, BreakpointAdvances, BreakpointShowsState, BreakpointIgnores
  <2>3. Live' => Live
    <3>1. ~RunStarts /\ ~RunAborted
      BY <1>7 DEF RunStarts, RunAborted, Serve, ApplyBreakpoint, IdleTakesRun, IdleShutsDown,
         IdleIgnores, PauseSeesEof, PauseAborts, PauseForks, PauseRefusesFork, PauseForkRaises,
         ManualResumes, ManualRejects, ManualIgnores, BreakpointAdvances, BreakpointShowsState,
         BreakpointIgnores, Waiting, Paused
    <3>. QED
      BY <1>7, <3>1, CoroutineKeepsFlag DEF Coroutine
  <2>. QED
    BY <2>1, <2>2, <2>3, NoneLate
<1>. QED
  BY <1>1, <1>2, <1>3, <1>4, <1>5, <1>6, <1>7 DEF Next, Coroutine, Stream

LEMMA LateAlways == Spec => []LateInv
<1>1. Init => LateInv
  BY DEF Init, LateInv, Live, InStream, Paused
<1>. QED
  BY <1>1, LateStep, TypeCorrect, PTL DEF Spec

\* A run reports at most one node event after an abort was read in it (_stream's check and
\* the emit behind it, against the reader thread).
THEOREM LateEventsBounded == Spec => []OneLateEvent
<1>1. LateInv => OneLateEvent
  BY DEF LateInv, OneLateEvent
<1>. QED
  BY <1>1, LateAlways, PTL

-----------------------------------------------------------------------------
(* Breakpoints.  While a stream runs, its stop lists are those of the        *)
(* breakpoints in force, because a breakpoint only changes where the         *)
(* coroutine waits; and a node that is executing was not due to be stopped.  *)

StopsInForce ==
  /\ inside => pc = "stream"
  /\ pc = "stream" /\ HasCheckpointer => BpNodes("before") \subseteq stops.before
  /\ inside => ~(armed /\ next \in stops.before)

LEMMA StopsStep == TypeOK /\ LateInv /\ StopsInForce /\ [Next]_vars => StopsInForce'
<1> SUFFICES ASSUME TypeOK, LateInv, StopsInForce, [Next]_vars PROVE StopsInForce'
  OBVIOUS
<1>1. ASSUME UNCHANGED <<bps, stops, armed, next>>, inside' => inside /\ pc' = "stream",
             pc' = "stream" => pc = "stream"
      PROVE  StopsInForce'
  BY <1>1 DEF StopsInForce, BpNodes
<1>2. ASSUME NEW step \in BOOLEAN, NEW fromInput \in BOOLEAN,
             BeginStream(step, fromInput), UNCHANGED bps
      PROVE  StopsInForce'
  <2>1. HasCheckpointer => BpNodes("before")' \subseteq stops'.before
    BY <1>2 DEF BeginStream, StopLists, BpNodes
  <2>. QED
    BY <1>2, <2>1 DEF BeginStream, StopsInForce
<1>. USE DEF graphVars, flowVars, pipeVars
<1>3. CASE Client \/ ReaderReads \/ UNCHANGED vars
  BY <1>1, <1>3 DEF Client, ClientWrites, ReaderReads, vars, StopsInForce
<1>4. CASE Stream
  <2>1. CASE EventPasses \/ StreamEnds \/ StreamAborts \/ NodeInterrupts \/ RunFails
    BY <1>1, <2>1 DEF EventPasses, StreamEnds, StreamAborts, NodeInterrupts, RunFails, StopsInForce
  <2>2. CASE NodeStarts
    BY <2>2 DEF NodeStarts, Emits, LateInv, NodeDue, StopsInForce, Stopping, BpNodes
  <2>3. CASE NodeEnds
    BY <2>3 DEF NodeEnds, StopsInForce, BpNodes
  <2>. QED
    BY <1>4, <2>1, <2>2, <2>3 DEF Stream
<1>5. CASE RunLoop
  <2>1. CASE RunStarts
    BY <1>2, <2>1 DEF RunStarts
  <2>2. CASE RunAborted \/ StreamExamined \/ RunCompletes \/ PausesManually \/ PauseFails
               \/ PausesAtBreakpoint
    BY <1>1, <2>2 DEF RunAborted, StreamExamined, RunCompletes, PausesManually, PauseFails,
                      PausesAtBreakpoint, StopsInForce
  <2>. QED
    BY <1>5, <2>1, <2>2 DEF RunLoop
<1>6. CASE Serve
  <2>1. CASE ApplyBreakpoint
    BY <2>1 DEF ApplyBreakpoint, Waiting, Paused, StopsInForce
  <2>2. CASE PauseForks \/ ManualResumes
    BY <1>2, <2>2 DEF PauseForks, ManualResumes, TypeOK
  <2>3. CASE BreakpointAdvances
    BY <1>2, <2>3 DEF BreakpointAdvances
  <2>4. CASE IdleTakesRun \/ IdleShutsDown \/ IdleIgnores \/ PauseSeesEof \/ PauseAborts
               \/ PauseRefusesFork \/ PauseForkRaises
    BY <1>1, <2>4 DEF IdleTakesRun, IdleShutsDown, IdleIgnores, PauseSeesEof, PauseAborts,
                      PauseRefusesFork, PauseForkRaises, Paused, StopsInForce
  <2>5. CASE ManualRejects \/ ManualIgnores \/ BreakpointShowsState \/ BreakpointIgnores
    BY <1>1, <2>5 DEF ManualRejects, ManualIgnores, BreakpointShowsState, BreakpointIgnores,
                      StopsInForce
  <2>. QED
    BY <1>6, <2>1, <2>2, <2>3, <2>4, <2>5 DEF Serve
<1>. QED
  BY <1>3, <1>4, <1>5, <1>6 DEF Next, Coroutine

\* No node with a breakpoint in force runs unless the stream resumed in front of it.
THEOREM BreakpointsCorrect == Spec => []BreakpointsHonoured
<1>1. Init => StopsInForce
  BY DEF Init, StopsInForce
<1>2. TypeOK /\ StopsInForce => BreakpointsHonoured
  BY DEF StopsInForce, BreakpointsHonoured, BpNodes, TypeOK
<1>. QED
  BY <1>1, <1>2, StopsStep, LateAlways, TypeCorrect, PTL DEF Spec

-----------------------------------------------------------------------------
(* Step mode and pauses: a Step runs one node, a run stops in front of a    *)
(* node for a reason only, and a pause for an answer is left on purpose.    *)

\* step_mode belongs to the stream of the last command: it is down when that stream was
\* examined, and a stream of a Step runs with a checkpointer.
ModeOfLast ==
  /\ Paused => HasCheckpointer
  /\ Paused \/ pc = "examine" => ~stepMode
  /\ InStream \/ pc = "starting" => got > 0
  /\ pc = "starting" => log[got].cmd = "run"
  /\ pc \in {"stream", "stopped"} => (stepMode <=> log[got].cmd = "step")
  /\ InStream /\ log[got].cmd = "step" => HasCheckpointer

\* A running stream has the stop lists of its mode and of the breakpoints in force.
ListsOfMode == pc = "stream" => stops = StopLists(stepMode)

\* A stream of a Step is before its one node, in it, or armed behind it.
OneNode ==
  InStream /\ log[got].cmd = "step" => steps = 0 \/ (steps = 1 /\ armed /\ ~inside)

\* Why a stream may be over in front of a node.
Justified ==
  \/ next = End \/ pending
  \/ log[got].cmd = "step"
  \/ <<next, "before">> \in bps
  \/ \E n \in Nodes : <<n, "after">> \in bps /\ next \in Succ[n]

StopReason ==
  /\ pc = "stopped" => abort \/ Justified
  /\ pc = "examine" => Justified

StepInv == ModeOfLast /\ ListsOfMode /\ OneNode /\ StopReason

-----------------------------------------------------------------------------
\* A step that moves neither the stream nor the line it runs for.
LEMMA NothingMoved ==
  ASSUME StepInv, UNCHANGED <<pc, got, bps, next, pending, stepMode, stops, armed, inside, steps>>,
         got > 0 => log'[got] = log[got], abort => abort'
  PROVE  StepInv'
<1>1. ModeOfLast'
  BY DEF StepInv, ModeOfLast, Paused, InStream
<1>2. ListsOfMode'
  BY DEF StepInv, ListsOfMode, StopLists, BpNodes
<1>3. OneNode'
  BY DEF StepInv, ModeOfLast, OneNode, InStream
<1>4. StopReason'
  <2>1. InStream /\ Justified => Justified'
    BY DEF StepInv, ModeOfLast, Justified
  <2>. QED
    BY <2>1 DEF StepInv, StopReason, InStream
<1>. QED
  BY <1>1, <1>2, <1>3, <1>4 DEF StepInv

\* A step that ends with the coroutine outside a run.
LEMMA OutOfRun ==
  ASSUME pc' \in {"idle", "exited"} PROVE StepInv'
  BY DEF StepInv, ModeOfLast, ListsOfMode, OneNode, StopReason, Paused, InStream

\* A line taken at a pause that the run stays in.
LEMMA StaysPaused ==
  ASSUME StepInv, Paused, UNCHANGED <<pc, stepMode>> PROVE StepInv'
  BY DEF StepInv, ModeOfLast, ListsOfMode, OneNode, StopReason, Paused, InStream

\* A stream that begins has the lists of its mode and has run nothing.
LEMMA StreamBegins ==
  ASSUME TypeOK, NEW step \in BOOLEAN, NEW fromInput \in BOOLEAN, BeginStream(step, fromInput),
         UNCHANGED bps, got' > 0, step <=> log'[got'].cmd = "step", step => HasCheckpointer
  PROVE  StepInv'
<1>1. ModeOfLast'
  BY DEF BeginStream, ModeOfLast, Paused, InStream
<1>2. ListsOfMode'
  BY DEF BeginStream, ListsOfMode, StopLists, BpNodes
<1>3. OneNode' /\ StopReason'
  BY DEF BeginStream, OneNode, StopReason
<1>. QED
  BY <1>1, <1>2, <1>3 DEF StepInv

-----------------------------------------------------------------------------
LEMMA StepInvStream == TypeOK /\ LateInv /\ StepInv /\ Stream => StepInv'
<1> SUFFICES ASSUME TypeOK, LateInv, StepInv, Stream PROVE StepInv'
  OBVIOUS
<1>. USE DEF pipeVars, graphVars, flowVars
<1>1. pc = "stream" /\ got > 0
  BY DEF Stream, EventPasses, StreamEnds, StreamAborts, NodeStarts, NodeEnds, NodeInterrupts,
         RunFails, StepInv, ModeOfLast, InStream
<1>2. /\ stops = StopLists(stepMode)
      /\ stepMode <=> log[got].cmd = "step"
      /\ stepMode => HasCheckpointer
      /\ stepMode => steps = 0 \/ (steps = 1 /\ armed /\ ~inside)
  BY <1>1 DEF StepInv, ModeOfLast, ListsOfMode, OneNode, InStream
<1>3. ASSUME pc' \in {"stream", "stopped"}, UNCHANGED <<got, log, stepMode>>
      PROVE  ModeOfLast'
  BY <1>1, <1>2, <1>3 DEF ModeOfLast, Paused, InStream
<1>4. CASE StreamEnds
  <2>1. Justified'
    <3>1. next = End \/ next \in stops.before
      BY <1>4 DEF StreamEnds, Stopping
    <3>2. next \in stops.before => stepMode \/ <<next, "before">> \in bps
      BY <1>2 DEF StopLists, BpNodes
    <3>. QED
      BY <1>2, <1>4, <3>1, <3>2 DEF StreamEnds, Justified
  <2>. QED
    BY <1>2, <1>3, <1>4, <2>1 DEF StreamEnds, StepInv, ListsOfMode, OneNode, StopReason
<1>5. CASE StreamAborts
  BY <1>2, <1>3, <1>5 DEF StreamAborts, StepInv, ListsOfMode, OneNode, StopReason
<1>6. CASE NodeStarts
  <2>1. ListsOfMode'
    BY <1>2, <1>6 DEF NodeStarts, ListsOfMode, StopLists, BpNodes
  <2>2. stepMode => steps = 0
    <3>1. stepMode => stops.before = Nodes
      BY <1>2 DEF StopLists
    <3>2. ~(armed /\ next \in stops.before) /\ next \in Nodes
      BY <1>6 DEF NodeStarts, Emits, LateInv, NodeDue, Stopping, TypeOK
    <3>. QED
      BY <1>2, <3>1, <3>2
  <2>3. OneNode'
    BY <1>2, <1>6, <2>2 DEF NodeStarts, OneNode
  <2>. QED
    BY <1>1, <1>3, <1>6, <2>1, <2>3 DEF NodeStarts, StepInv, StopReason
<1>7. CASE NodeEnds
  <2>1. ListsOfMode'
    BY <1>2, <1>7 DEF NodeEnds, ListsOfMode, StopLists, BpNodes
  <2>2. OneNode'
    BY <1>2, <1>7 DEF NodeEnds, OneNode
  <2>3. pc' = "stopped" => Justified'
    <3>1. next \in Nodes
      BY <1>7 DEF NodeEnds, TypeOK
    <3>2. pc' = "stopped" => <<next, "after">> \in bps
      BY <1>2, <1>7 DEF NodeEnds, StopLists, BpNodes
    <3>3. next' \in Succ[next] /\ bps' = bps
      BY <1>7 DEF NodeEnds
    <3>. QED
      BY <3>1, <3>2, <3>3 DEF Justified
  <2>. QED
    BY <1>3, <1>7, <2>1, <2>2, <2>3 DEF NodeEnds, StepInv, StopReason
<1>8. CASE NodeInterrupts
  BY <1>2, <1>3, <1>8 DEF NodeInterrupts, StepInv, ListsOfMode, OneNode, StopReason, Justified
<1>9. CASE RunFails
  BY <1>9, OutOfRun DEF RunFails
<1>10. CASE EventPasses
  BY <1>2, <1>10, NothingMoved DEF EventPasses
<1>. QED
  BY <1>4, <1>5, <1>6, <1>7, <1>8, <1>9, <1>10 DEF Stream

LEMMA StepInvRunLoop == TypeOK /\ StepInv /\ RunLoop => StepInv'
<1> SUFFICES ASSUME TypeOK, StepInv, RunLoop PROVE StepInv'
  OBVIOUS
<1>. USE DEF pipeVars, graphVars, flowVars
<1>1. CASE RunStarts
  <2>1. got' > 0 /\ log'[got'].cmd = "run"
    BY <1>1 DEF RunStarts, StepInv, ModeOfLast
  <2>2. BeginStream(FALSE, TRUE) /\ bps' = bps
    BY <1>1 DEF RunStarts
  <2>. QED
    BY <2>1, <2>2, StreamBegins
<1>2. CASE RunAborted \/ RunCompletes \/ PauseFails
  BY <1>2, OutOfRun DEF RunAborted, RunCompletes, PauseFails
<1>3. CASE StreamExamined
  <2>1. ModeOfLast'
    BY <1>3 DEF StreamExamined, StepModeAfterStream, StepInv, ModeOfLast, Paused, InStream
  <2>2. OneNode'
    BY <1>3 DEF StreamExamined, StepInv, OneNode, InStream
  <2>3. StopReason' /\ ListsOfMode'
    BY <1>3 DEF StreamExamined, StepInv, StopReason, Justified, ListsOfMode
  <2>. QED
    BY <2>1, <2>2, <2>3 DEF StepInv
<1>4. CASE PausesManually \/ PausesAtBreakpoint
  BY <1>4 DEF PausesManually, PausesAtBreakpoint, StepInv, ModeOfLast, ListsOfMode, OneNode,
              StopReason, Paused, InStream
<1>. QED
  BY <1>1, <1>2, <1>3, <1>4 DEF RunLoop

LEMMA StepInvServe == TypeOK /\ StepInv /\ Serve => StepInv'
<1> SUFFICES ASSUME TypeOK, StepInv, Serve PROVE StepInv'
  OBVIOUS
<1>. USE DEF pipeVars, graphVars, flowVars
<1>0. ASSUME NEW kinds, Takes(kinds)
      PROVE  got' > 0 /\ log' = log /\ log'[got'].cmd \in kinds
  BY <1>0 DEF Takes, Cmd, TypeOK
<1>1. CASE ApplyBreakpoint
  BY <1>1, StaysPaused, OutOfRun DEF ApplyBreakpoint, Waiting
<1>2. CASE IdleTakesRun
  <2>1. got' > 0 /\ log'[got'].cmd = "run" /\ pc' = "starting"
    BY <1>0, <1>2 DEF IdleTakesRun
  <2>. QED
    BY <2>1 DEF StepInv, ModeOfLast, ListsOfMode, OneNode, StopReason, Paused, InStream
<1>3. CASE IdleShutsDown \/ IdleIgnores \/ PauseSeesEof \/ PauseAborts \/ PauseForkRaises
  BY <1>3, OutOfRun DEF IdleShutsDown, IdleIgnores, PauseSeesEof, PauseAborts, PauseForkRaises
<1>4. CASE PauseForks
  <2>1. got' > 0 /\ log'[got'].cmd = "fork" /\ bps' = bps
    BY <1>0, <1>4 DEF PauseForks
  <2>2. BeginStream(stepMode, Cmd.to = Start /\ ~Cmd.edit) /\ stepMode = FALSE
    BY <1>4 DEF PauseForks, StepInv, ModeOfLast, TypeOK
  <2>. QED
    BY <2>1, <2>2, StreamBegins
<1>5. CASE ManualResumes
  <2>1. got' > 0 /\ log'[got'].cmd = "resume" /\ bps' = bps
    BY <1>0, <1>5 DEF ManualResumes
  <2>2. BeginStream(stepMode, FALSE) /\ stepMode = FALSE
    BY <1>5 DEF ManualResumes, Paused, StepInv, ModeOfLast, TypeOK
  <2>. QED
    BY <2>1, <2>2, StreamBegins
<1>6. CASE BreakpointAdvances
  <2>1. got' > 0 /\ bps' = bps /\ HasCheckpointer
    BY <1>0, <1>6 DEF BreakpointAdvances, Paused, StepInv, ModeOfLast
  <2>2. (Cmd.cmd = "step") <=> log'[got'].cmd = "step"
    BY <1>6 DEF BreakpointAdvances, Takes, Cmd
  <2>3. BeginStream(Cmd.cmd = "step", FALSE)
    BY <1>6 DEF BreakpointAdvances
  <2>4. (Cmd.cmd = "step") \in BOOLEAN
    OBVIOUS
  <2>. QED
    BY <2>1, <2>2, <2>3, <2>4, StreamBegins
<1>7. CASE PauseRefusesFork \/ ManualRejects \/ ManualIgnores
  BY <1>7, StaysPaused DEF PauseRefusesFork, ManualRejects, ManualIgnores, Paused
<1>8. CASE BreakpointShowsState \/ BreakpointIgnores
  BY <1>8, StaysPaused DEF BreakpointShowsState, BreakpointIgnores, Paused
<1>. QED
  BY <1>1, <1>2, <1>3, <1>4, <1>5, <1>6, <1>7, <1>8 DEF Serve

LEMMA StepInvStep == TypeOK /\ LateInv /\ StepInv /\ [Next]_vars => StepInv'
<1> SUFFICES ASSUME TypeOK, LateInv, StepInv, [Next]_vars PROVE StepInv'
  OBVIOUS
<1>. USE DEF pipeVars, graphVars, flowVars
<1>1. ASSUME NEW c \in Offered, ClientWrites(c) PROVE StepInv'
  <2>1. got > 0 => log'[got] = log[got]
    BY <1>1 DEF ClientWrites, TypeOK
  <2>. QED
    BY <1>1, <2>1, NothingMoved DEF ClientWrites
<1>2. CASE ReaderReads
  BY <1>2, NothingMoved DEF ReaderReads, ReaderFlag
<1>3. CASE UNCHANGED vars
  BY <1>3, NothingMoved DEF vars
<1>. QED
  BY <1>1, <1>2, <1>3, StepInvStream, StepInvRunLoop, StepInvServe DEF Next, Client, Coroutine

LEMMA StepInvAlways == Spec => [](TypeOK /\ StepInv)
<1>1. Init => StepInv
  BY OutOfRun DEF Init, StepInv, ModeOfLast, ListsOfMode, OneNode, StopReason, Paused, InStream
<1>. QED
  BY <1>1, StepInvStep, LateAlways, TypeCorrect, PTL DEF Spec

-----------------------------------------------------------------------------
\* A stream started by a Step runs at most one node (step_mode and the stop lists of _run).
THEOREM StepsAreSingle == Spec => []StepRunsOneNode
<1>1. StepInv => StepRunsOneNode
  BY DEF StepInv, OneNode, StepRunsOneNode, LastCommand
<1>. QED
  BY <1>1, StepInvAlways, PTL

\* A run stops in front of a node for a Step or a breakpoint in force only.
THEOREM PausesJustified == Spec => PauseJustified
<1>1. ASSUME StepInv, Next, pc # "breakpoint", pc' = "breakpoint"
      PROVE  PausesAtBreakpoint
  BY <1>1 DEF Next, Client, ClientWrites, ReaderReads, Coroutine, Stream, EventPasses,
     StreamEnds, StreamAborts, NodeStarts, NodeEnds, NodeInterrupts, RunFails, RunLoop, RunStarts, RunAborted,
     StreamExamined, RunCompletes, PausesManually, PauseFails, Serve, ApplyBreakpoint, IdleTakesRun,
     IdleShutsDown, IdleIgnores, PauseSeesEof, PauseAborts, PauseForks, PauseRefusesFork,
     PauseForkRaises, ManualResumes, ManualRejects, ManualIgnores, BreakpointAdvances,
     BreakpointShowsState, BreakpointIgnores, BeginStream
<1>2. StepInv /\ PausesAtBreakpoint
        => \/ LastCommand = "step"
           \/ <<next, "before">> \in bps
           \/ \E n \in Nodes : <<n, "after">> \in bps /\ next \in Succ[n]
  BY DEF PausesAtBreakpoint, StepInv, StopReason, Justified, LastCommand
<1>3. StepInv /\ [Next]_vars
        => [pc # "breakpoint" /\ pc' = "breakpoint" =>
              \/ LastCommand = "step"
              \/ <<next, "before">> \in bps
              \/ \E n \in Nodes : <<n, "after">> \in bps /\ next \in Succ[n]]_vars
  BY <1>1, <1>2
<1>. QED
  BY <1>3, StepInvAlways, PTL DEF Spec, PauseJustified

\* What takes the worker out of a pause for an answer.
OnPurpose(c) ==
  \/ c.cmd = "resume" /\ c.valid
  \/ c.cmd = "fork" /\ c.to \in hist
  \/ c.cmd \in {"abort", "eof"}

\* A pause for an answer is left only by an answer that fits, a fork to a checkpoint that
\* exists, a Stop or the end of input.
THEOREM PausesLeftOnPurpose == Spec => PauseLeftOnPurpose
<1>1. ASSUME Next, pc = "manual", pc' # "manual" PROVE OnPurpose(log[got'])
  <2>1. CASE PauseSeesEof \/ PauseAborts
    BY <2>1 DEF PauseSeesEof, PauseAborts, Takes, Cmd, OnPurpose
  <2>2. CASE PauseForks \/ PauseForkRaises
    BY <2>2 DEF PauseForks, PauseForkRaises, Takes, Cmd, OnPurpose
  <2>3. CASE ManualResumes
    BY <2>3 DEF ManualResumes, Accepts, Takes, Cmd, OnPurpose
  <2>4. ~Stream /\ ~RunLoop /\ ~Client /\ ~ReaderReads
    BY <1>1 DEF Stream, EventPasses, StreamEnds, StreamAborts, NodeStarts, NodeEnds,
       NodeInterrupts, RunFails, RunLoop, RunStarts, RunAborted, StreamExamined, RunCompletes, PausesManually, PauseFails,
       PausesAtBreakpoint, Client, ClientWrites, ReaderReads
  <2>5. Serve => PauseSeesEof \/ PauseAborts \/ PauseForks \/ PauseForkRaises \/ ManualResumes
    BY <1>1 DEF Serve, ApplyBreakpoint, IdleTakesRun, IdleShutsDown, IdleIgnores, PauseRefusesFork,
       ManualRejects, ManualIgnores, BreakpointAdvances, BreakpointShowsState, BreakpointIgnores
  <2>. QED
    BY <1>1, <2>1, <2>2, <2>3, <2>4, <2>5 DEF Next, Coroutine
<1>2. [Next]_vars
        => [pc = "manual" /\ pc' # "manual" =>
              LET c == log[got'] IN
                \/ c.cmd = "resume" /\ c.valid
                \/ c.cmd = "fork" /\ c.to \in hist
                \/ c.cmd \in {"abort", "eof"}]_vars
  BY <1>1 DEF OnPurpose
<1>. QED
  BY <1>2, PTL DEF Spec, PauseLeftOnPurpose
=============================================================================
