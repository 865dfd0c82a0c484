---------------------------- MODULE RunProtocol ----------------------------
(***************************************************************************)
(* What the worker promises to whoever reads its stdout: the events of one  *)
(* run after another, as the header of worker.py and protocol.py list them. *)
(* A run is opened by run_started, emits node events only while it runs,    *)
(* announces each pause with the state the panels show beside it, and is    *)
(* closed once: by run_finished, or by the error of a run that raised.      *)
(***************************************************************************)
EXTENDS Sequences

CONSTANT HasCheckpointer  \* without one a run neither pauses nor reconstructs

VARIABLES phase,  \* "idle", "running", "manual", "breakpoint" or "closed"
          out     \* the events of the last step

vars == <<phase, out>>

Timeline == <<"checkpoint_history", "branch_decisions", "state_timeline">>

Init == phase = "idle" /\ out = <<>>

Moves(from, to, events) == phase \in from /\ phase' = to /\ out' = events

Starts == Moves({"idle"}, "running", <<"run_started">>)

NodeEvent == \E e \in {"node_start", "node_end"} : Moves({"running"}, "running", <<e>>)

\* A pause is announced before the timeline a client may fork from.
PausesForAnswer ==
  HasCheckpointer /\ Moves({"running"}, "manual", <<"manual_inference_required">> \o Timeline)

PausesAtNode ==
  HasCheckpointer
    /\ Moves({"running"}, "breakpoint", <<"breakpoint_hit", "state_snapshot">> \o Timeline)

\* A command moves a paused run on, silently or, for a fork, by opening it again.
Continues == \E e \in {<<>>, <<"run_started">>} : Moves({"manual", "breakpoint"}, "running", e)

\* A refused command says so and leaves the run paused.
Refuses == \E p \in {"manual", "breakpoint"} : Moves({p}, p, <<"error">>)

ShowsState == Moves({"breakpoint"}, "breakpoint", <<"state_snapshot">>)

\* A completed run is closed last, after everything that is recorded of it.
Completes ==
  Moves({"running"}, "idle",
        (IF HasCheckpointer THEN <<"branch_decisions", "state_timeline", "state_snapshot">>
                            ELSE <<>>) \o <<"run_finished(completed)">>)

Aborts == Moves({"running", "manual", "breakpoint"}, "idle", <<"run_finished(aborted)">>)

\* User code raised, in a stream or in the reducers of a fork's state override.
Fails == Moves({"running", "manual", "breakpoint"}, "idle", <<"error">>)

\* End of input drops a paused run without a word; an idle worker leaves.
Drops  == Moves({"manual", "breakpoint"}, "idle", <<>>)
Closes == Moves({"idle"}, "closed", <<>>)

Quiet == UNCHANGED phase /\ out' = <<>>

Next == \/ Starts \/ NodeEvent \/ PausesForAnswer \/ PausesAtNode
        \/ Continues \/ Refuses \/ ShowsState
        \/ Completes \/ Aborts \/ Fails \/ Drops \/ Closes \/ Quiet

Spec == Init /\ [][Next]_vars
=============================================================================
