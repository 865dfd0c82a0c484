------------------------------ MODULE WorkerMC ------------------------------
(* A two-node loop for TLC: plan asks a human and either loops through ingest or ends. *)
EXTENDS Worker, TLC

CONSTANTS ingest, plan

MCNodes == {ingest, plan}
MCSucc  == (ingest :> {plan}) @@ (plan :> {ingest, End})
MCManual == {plan}

BreakOn(n, w)  == [cmd |-> "set_breakpoint", node |-> n, when |-> w]
ClearOn(n, w)  == [cmd |-> "clear_breakpoint", node |-> n, when |-> w]
Plain(c)       == [cmd |-> c]
RunOn(fresh)   == [cmd |-> "run", fresh |-> fresh]
Answer(valid)  == [cmd |-> "resume", valid |-> valid]
ForkTo(n)      == [cmd |-> "fork", to |-> n, edit |-> FALSE]
EditAt(n)      == [cmd |-> "fork", to |-> n, edit |-> TRUE]

\* Every kind of command, on the nodes where it matters.
AllKinds ==
  {Plain(c) : c \in {"step", "abort", "get_state", "shutdown", "eof"}}
    \cup {RunOn(TRUE), RunOn(FALSE), Answer(TRUE), Answer(FALSE),
          ForkTo(Start), ForkTo(plan), ForkTo(End), EditAt(ingest),
          BreakOn(plan, "before"), BreakOn(ingest, "after"), ClearOn(plan, "before")}

\* The kinds that move a run or end it, for the liveness run.
LiveKinds == {Plain("step"), Plain("abort"), Plain("eof"), Plain("get_state"), RunOn(TRUE),
              Answer(TRUE), Answer(FALSE), ForkTo(plan), BreakOn(ingest, "before")}

\* One run and the two ways to ask the worker to end.
ShutdownKinds == {RunOn(TRUE), Plain("shutdown"), Plain("eof")}

\* One run and answers to its interrupts.
AnswerKinds == {RunOn(TRUE), Answer(TRUE)}
=============================================================================
