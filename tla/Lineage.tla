------------------------------- MODULE Lineage -------------------------------
(***************************************************************************)
(* Time travel in graphloupe_sidecar/worker.py: the checkpoints that the    *)
(* runs of one thread commit, the forks that branch them, and what the      *)
(* worker reconstructs from them at every pause and at the end: the rewind  *)
(* timeline (_checkpoint_history), the router decisions (_branch_decisions) *)
(* and the state timeline (_state_timeline).  A thread has one input, unless *)
(* a start_run that was meant as a Continue reaches an idle worker: then a   *)
(* second run stacks on the first.                                          *)
(*                                                                         *)
(* LangGraph's checkpointer is external: a super-step runs every node of    *)
(* the frontier and commits one child; an input is a child in front of      *)
(* START, which writes it into the state; update_state commits a child with *)
(* the override's values and the frontier that the node behind the          *)
(* checkpoint leads to under them (it refuses an update that several nodes  *)
(* could be behind); replaying an older checkpoint leaves a child at the    *)
(* same position (the comment at worker.py:408-410).                        *)
(* `made`, `by` and `chose` record what really happened; no reconstruction  *)
(* reads them.                                                              *)
(***************************************************************************)
EXTENDS Naturals, Sequences, SequencesExt, Subsequences

CONSTANTS
  Nodes,         \* nodes of the graph
  Rank,          \* order in which a super-step lists its nodes
  Targets,       \* where the edges of a node, or of START, lead
  Routers,       \* nodes whose outgoing edges are conditional: one target is chosen
  Channels,      \* state channels
  Values,        \* values of a channel
  Inputs,        \* what a run may be started with: values of some channels
  START, END, Absent, NoNode,
  HistoryLimit,  \* _HISTORY_LIMIT
  MaxCheckpoints \* bound: checkpoints of the thread

ASSUME LineageAssumption ==
  /\ Rank \in [Nodes -> Nat] /\ \A m, n \in Nodes : Rank[m] = Rank[n] => m = n
  /\ Targets \in [Nodes \cup {START} -> SUBSET (Nodes \cup {END})]
  /\ Routers \subseteq Nodes
  /\ START \notin Nodes \cup {END} /\ END \notin Nodes /\ NoNode \notin Nodes \cup {START, END}
  /\ Absent \notin Values /\ Inputs \subseteq [Channels -> Values \cup {Absent}]
  /\ HistoryLimit \in Nat \ {0} /\ MaxCheckpoints \in Nat

VARIABLE ckpts   \* the thread's checkpoints, oldest first; a parent is an index, 0 is none

Ids == 1 .. Len(ckpts)
Newest == Len(ckpts)   \* get_state without a checkpoint id answers with the newest

\* state.next[0], or nothing.
FirstNext(c) ==
  IF ckpts[c].next = {} THEN NoNode
  ELSE CHOOSE n \in ckpts[c].next :
         n = START \/ \A m \in ckpts[c].next : Rank[n] <= Rank[m]

\* A checkpoint and its ancestors, newest first.
PathTo(c) ==
  LET up[d \in 0 .. Newest] == IF d = 0 THEN <<>> ELSE <<d>> \o up[ckpts[d].parent]
  IN  up[c]

-----------------------------------------------------------------------------
(* What the framework does.                                                *)

Nothing == [ch \in Channels |-> Absent]

\* The state once START has written an input.
Written(values, input) ==
  [ch \in Channels |-> IF input[ch] = Absent THEN values[ch] ELSE input[ch]]

\* A checkpoint in front of START, with the input it holds.
InputTo(parent, values, i) ==
  [parent |-> parent, next |-> {START}, values |-> values, input |-> i,
   made |-> "input", by |-> {}, chose |-> {}]

\* START has run: its edges lead on, none of them conditional.
StartOf(c, ckpt) ==
  [parent |-> c, next |-> Targets[START] \ {END}, values |-> Written(ckpt.values, ckpt.input),
   input |-> Nothing, made |-> "step", by |-> {START}, chose |-> {}]

Init == \E i \in Inputs :
          ckpts = <<InputTo(0, Nothing, i), StartOf(1, InputTo(0, Nothing, i))>>

\* Mutation of Frontiers: the end of the graph is taken for a node to run.
Frontiers_KeepEnd(ran) ==
  {[next |-> UNION {Targets[n] : n \in ran}, chose |-> {}]}

\* The choices of the routers that ran, and where all that ran then lead.
RouterChoices(ran) == {f \in [ran \cap Routers -> Nodes \cup {END}] :
                   \A n \in ran \cap Routers : f[n] \in Targets[n]}

TargetsOf(n, choice) == IF n \in Routers THEN {choice[n]} ELSE Targets[n]

\* Where running `ran` can lead: routers choose one target each, the others take all.
Frontiers(ran) ==
  {[next |-> (UNION {TargetsOf(n, f) : n \in ran}) \ {END},
    chose |-> {<<n, f[n]>> : n \in ran \cap Routers}] : f \in RouterChoices(ran)}

Commit(ckpt) == Newest < MaxCheckpoints /\ ckpts' = Append(ckpts, ckpt)

\* The stream may stop in front of the nodes of the graph, never in front of START.
AtPause == ckpts[Newest].next # {} /\ START \notin ckpts[Newest].next

\* The stream runs the frontier and commits what it wrote.
SuperStep ==
  /\ AtPause
  /\ \E f \in Frontiers(ckpts[Newest].next), ch \in Channels, v \in Values :
       Commit([parent |-> Newest, next |-> f.next,
               values |-> [ckpts[Newest].values EXCEPT ![ch] = v], input |-> Nothing,
               made |-> "step", by |-> ckpts[Newest].next, chose |-> f.chose])

\* START is run: again after a rewind in front of it, or for another input.
StartRuns ==
  /\ START \in ckpts[Newest].next
  /\ Commit(StartOf(Newest, ckpts[Newest]))

\* The worker is idle and takes a start_run for the thread it ran last (Continue, posted to
\* a run that is over): the input is stacked on whatever the thread ended with.
AnotherInput == \E i \in Inputs : Commit(InputTo(Newest, ckpts[Newest].values, i))

\* _fork_target without an override: the run goes on from c, which may be where it is paused.
Fork(c) ==
  /\ AtPause
  /\ Commit([ckpts[c] EXCEPT !.parent = c, !.made = "copy", !.chose = {}])

\* _fork_target with an override: update_state on c, as the node that led to c.
ForkWithOverride(c) ==
  /\ AtPause /\ \E n \in Nodes \cup {START} : ckpts[c].by = {n}
  /\ \E f \in Frontiers(ckpts[c].by), ch \in Channels, v \in Values :
       Commit([parent |-> c, next |-> f.next, values |-> [ckpts[c].values EXCEPT ![ch] = v],
               input |-> Nothing, made |-> "update", by |-> ckpts[c].by, chose |-> f.chose])

Next == SuperStep \/ StartRuns \/ AnotherInput \/ \E c \in Ids : Fork(c) \/ ForkWithOverride(c)

Spec == Init /\ [][Next]_ckpts

-----------------------------------------------------------------------------
(* What the worker reconstructs.                                           *)

\* What the loops' limit leaves of n.
Capped(n) == IF n < HistoryLimit THEN n ELSE HistoryLimit

\* Mutation of Kept: a node the list already has is never listed again.
Kept_Once(line, k) == \A j \in 1 .. k - 1 : FirstNext(line[k]) # FirstNext(line[j])

\* Consecutive checkpoints in front of the same node are one entry, the newest.
Kept(line, k) == k = 1 \/ FirstNext(line[k]) # FirstNext(line[k - 1])

\* _checkpoint_history: newest first, at most HistoryLimit entries.
CheckpointHistory ==
  LET line == PathTo(Newest)
      refs == At([k \in DOMAIN line |-> [id |-> line[k], node |-> FirstNext(line[k])]],
                 {k \in DOMAIN line : Kept(line, k)})
  IN  SubSeq(refs, 1, Capped(Len(refs)))

\* _diff of two states.
Diff(prev, cur) ==
  {[channel |-> ch, before |-> prev[ch], after |-> cur[ch]] :
     ch \in {c \in Channels : prev[c] # cur[c]}}

\* Mutation of Walk: the walk follows the order of commits, not the parents.
Walk_ByTime ==
  Reverse([k \in 1 .. Capped(Newest - 1) |-> <<Newest - k, Newest - k + 1>>])

\* The lineage walk of both reconstructions: the parent-to-child steps that led to the head,
\* oldest first, cut after the HistoryLimit newest.
Walk ==
  LET line == PathTo(Newest)
  IN  Reverse([k \in 1 .. Capped(Len(line) - 1) |-> <<line[k + 1], line[k]>>])

\* Mutation of StepNode: the step is credited to the node that comes next.
StepNode_Child(s) == FirstNext(s[2])

\* The node taken to have run in a step: the first of the parent's next.
StepNode(s) == FirstNext(s[1])

\* _state_timeline leaves out the input step of START.
Shown(s) == StepNode(s) # START

\* _state_timeline.
StateTimeline ==
  LET walk == Walk
  IN  At([k \in DOMAIN walk |->
            [id |-> walk[k][2], node |-> StepNode(walk[k]),
             diff |-> Diff(ckpts[walk[k][1]].values, ckpts[walk[k][2]].values)]],
         {k \in DOMAIN walk : Shown(walk[k])})

\* Where a step led: the first of the child's next, END at completion.
StepTarget(s) == IF ckpts[s[2]].next = {} THEN END ELSE FirstNext(s[2])

\* Mutation of Decided: any node that a router can reach counts as its decision.
Decided_AnyEdge(s) == \E r \in Routers : StepTarget(s) \in Targets[r]

\* _branch_decisions records a step of a router to one of its targets.
Decided(s) == StepNode(s) \in Routers /\ StepTarget(s) \in Targets[StepNode(s)]

\* _branch_decisions.
BranchDecisions ==
  LET walk == Walk
  IN  At([k \in DOMAIN walk |->
            [id |-> walk[k][2], source |-> StepNode(walk[k]), target |-> StepTarget(walk[k])]],
         {k \in DOMAIN walk : Decided(walk[k])})

-----------------------------------------------------------------------------
(* Correctness.                                                            *)

Checkpoint ==
  [parent : Nat, next : SUBSET (Nodes \cup {START}), values : [Channels -> Values \cup {Absent}],
   input : [Channels -> Values \cup {Absent}],
   made : {"input", "step", "update", "copy"}, by : SUBSET (Nodes \cup {START}),
   chose : SUBSET (Routers \X (Nodes \cup {END}))]

\* A checkpoint's parent is older, so the walk up a lineage ends.
TypeOK ==
  /\ ckpts \in Seq(Checkpoint) /\ Newest \in 2 .. MaxCheckpoints + 2
  /\ \A c \in Ids : ckpts[c].parent < c

OnLineage == ToSet(PathTo(Newest))
Edited == \E c \in OnLineage : ckpts[c].made = "update"
Complete == Len(PathTo(Newest)) <= HistoryLimit

\* The rewind timeline lists every position of the live path: each checkpoint on it is
\* listed itself, or a newer one is that is in front of the same node with nothing else
\* run in between; and nothing off the path is listed.
HistoryCoversPath ==
  LET line == OnLineage
      refs == ToSet(CheckpointHistory)
  IN  /\ \A r \in refs : r.id \in line
      /\ Complete =>
           \A c \in line : \E r \in refs :
             /\ r.id >= c
             /\ \A d \in line : c <= d /\ d <= r.id => FirstNext(d) = r.node

\* Where the state timeline can account from: behind the last START of the live path, or
\* where the walk was cut.
Beginning ==
  LET first == Walk[1][1]
      line == OnLineage
      settled == {c \in line : c >= first /\ \A d \in line : d >= c => FirstNext(d) # START}
  IN  CHOOSE c \in settled : \A d \in settled : c <= d

\* The state timeline tells the live path and accounts for the whole state since the last
\* input, whatever was forked or overridden: its entries are on the path, and a channel's
\* value at the newest checkpoint is the one the last entry since then that changed it
\* gives, or the one it had where the timeline begins.
TimelineAccounts ==
  LET told == StateTimeline
      start == Beginning
      Changes(ch) == {k \in DOMAIN told : /\ told[k].id > start
                                          /\ \E d \in told[k].diff : d.channel = ch}
      Accounted(ch) ==
        IF Changes(ch) = {} THEN ckpts[Newest].values[ch] = ckpts[start].values[ch]
        ELSE \E k \in Changes(ch) :
               /\ \A j \in Changes(ch) : j <= k
               /\ \E d \in told[k].diff : d.channel = ch /\ d.after = ckpts[Newest].values[ch]
      line == OnLineage
  IN  /\ \A k \in DOMAIN told : told[k].id \in line
      /\ START \notin ckpts[Newest].next => \A ch \in Channels : Accounted(ch)

\* The nodes whose run committed c.
Ran(c) == IF ckpts[c].made = "step" THEN ckpts[c].by ELSE {}

Misnamed(step) == step.diff # {} /\ step.node \notin Ran(step.id)

\* Without an override on the live path, the node of an entry that changes something ran in
\* that very step.
TimelineNamesRan == ~Edited => \A step \in ToSet(StateTimeline) : ~Misnamed(step)

\* worker.py:466-468: the node of an entry "ran to produce the child", and the comment at
\* 476-477: the timeline is "which real node changed what".
ChangesAreNodes == \A step \in ToSet(StateTimeline) : ~Misnamed(step)

Sequential == \A c \in OnLineage : \A m, n \in ckpts[c].next : m = n

\* The copy that a rewind leaves in front of a router looks as if it had chosen itself.
CopyChosen(d) == ckpts[d.id].made = "copy" /\ d.source = d.target

\* On a path of one node at a time without an override, the router decisions are the
\* choices the routers made: none is missing unless it was cut, and none is invented, but
\* for a router that may lead to itself, which seems to have done so at a rewind to it.
DecisionsMatch ==
  LET told == ToSet(BranchDecisions)
  IN  Sequential /\ ~Edited =>
        /\ \A d \in told : <<d.source, d.target>> \in ckpts[d.id].chose \/ CopyChosen(d)
        /\ Complete =>
             \A c \in OnLineage : \A t \in ckpts[c].chose :
               [id |-> c, source |-> t[1], target |-> t[2]] \in told
=============================================================================
