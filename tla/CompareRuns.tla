----------------------------- MODULE CompareRuns -----------------------------
(***************************************************************************)
(* compareRuns of runhistory.ts: how two recorded runs are told apart.      *)
(* branchesDiff aligns the two sequences of router decisions on a longest   *)
(* common subsequence and reports what is left, a step of its two loops at  *)
(* a time; firstDivergence is the loop over the node paths, here over the   *)
(* same two sequences.  A decision is its (source, key, target).            *)
(***************************************************************************)
EXTENDS Naturals, Sequences, FiniteSets, Subsequences

CONSTANTS
  Decisions,  \* the decisions a router can take
  Nothing,    \* null
  MaxLen      \* bound: decisions of a run

ASSUME CompareAssumption == MaxLen \in Nat /\ Nothing \notin Decisions \cup Nat

VARIABLES
  runA, runB,  \* the two sequences
  i, j,    \* what is aligned so far
  ops,     \* the alignment: same, del and ins
  k,       \* what of it is reported
  out      \* the report

vars == <<runA, runB, i, j, ops, k, out>>

Runs == UNION {[1 .. n -> Decisions] : n \in 0 .. MaxLen}

Init ==
  /\ runA \in Runs /\ runB \in Runs
  /\ i = 1 /\ j = 1 /\ ops = <<>>
  /\ k = 1 /\ out = <<>>

-----------------------------------------------------------------------------
(* Alignment.                                                              *)

\* dp: the length of a longest common subsequence of a from p[1] on and b from p[2] on.
CommonLength(a, b) ==
  LET dp[p \in (1 .. Len(a) + 1) \X (1 .. Len(b) + 1)] ==
        IF p[1] > Len(a) \/ p[2] > Len(b) THEN 0
        ELSE IF a[p[1]] = b[p[2]] THEN 1 + dp[<<p[1] + 1, p[2] + 1>>]
        ELSE LET del == dp[<<p[1] + 1, p[2]>>] ins == dp[<<p[1], p[2] + 1>>]
             IN  IF del >= ins THEN del ELSE ins
  IN  dp

Common == CommonLength(runA, runB)

Both == i <= Len(runA) /\ j <= Len(runB)

\* Mutation of DelFirst: the shorter rest is kept.
DelFirst_Shorter == Common[<<i + 1, j>>] < Common[<<i, j + 1>>]

\* The side that keeps the longer common rest is taken first; ties delete.
DelFirst == Common[<<i + 1, j>>] >= Common[<<i, j + 1>>]

Same ==
  /\ Both /\ runA[i] = runB[j]
  /\ ops' = Append(ops, [t |-> "same", d |-> runA[i]])
  /\ i' = i + 1 /\ j' = j + 1
  /\ UNCHANGED <<runA, runB, k, out>>

\* A decision of a only: runA[i] differs and goes first, or b is used up.
MayDelete == i <= Len(runA) /\ (Both => runA[i] # runB[j] /\ DelFirst)

Del ==
  /\ MayDelete
  /\ ops' = Append(ops, [t |-> "del", d |-> runA[i]]) /\ i' = i + 1
  /\ UNCHANGED <<runA, runB, j, k, out>>

Ins ==
  /\ j <= Len(runB) /\ (Both => runA[i] # runB[j] /\ ~DelFirst)
  /\ ops' = Append(ops, [t |-> "ins", d |-> runB[j]]) /\ j' = j + 1
  /\ UNCHANGED <<runA, runB, i, k, out>>

Aligned == i > Len(runA) /\ j > Len(runB)

-----------------------------------------------------------------------------
(* Report.                                                                 *)

Reporting == Aligned /\ k <= Len(ops)

\* Mutation of Pairs: any two adjacent differences are one change.
Pairs_Any(o, p) == o.t # "same" /\ p.t # "same"

\* A deletion and an insertion next to each other are one change.
Pairs(o, p) == {o.t, p.t} = {"del", "ins"}

Paired == k < Len(ops) /\ Pairs(ops[k], ops[k + 1])

\* Mutation of Taken: a pair is not skipped as a whole.
Taken_One(n) == k' = k + 1

\* The loop variable moves past what was reported.
Taken(n) == k' = k + n

SkipSame ==
  /\ Reporting /\ ops[k].t = "same"
  /\ Taken(1) /\ UNCHANGED <<runA, runB, i, j, ops, out>>

ReportChange ==
  /\ Reporting /\ Paired
  /\ LET a == IF ops[k].t = "del" THEN ops[k].d ELSE ops[k + 1].d
         b == IF ops[k].t = "del" THEN ops[k + 1].d ELSE ops[k].d
     IN  out' = Append(out, [kind |-> "changed", a |-> a, b |-> b])
  /\ Taken(2) /\ UNCHANGED <<runA, runB, i, j, ops>>

ReportOne ==
  /\ Reporting /\ ~Paired /\ ops[k].t # "same"
  /\ out' = Append(out, IF ops[k].t = "del"
                        THEN [kind |-> "a-only", a |-> ops[k].d, b |-> Nothing]
                        ELSE [kind |-> "b-only", a |-> Nothing, b |-> ops[k].d])
  /\ Taken(1) /\ UNCHANGED <<runA, runB, i, j, ops>>

Done == Aligned /\ k > Len(ops)

Next == Same \/ Del \/ Ins \/ SkipSame \/ ReportChange \/ ReportOne

Spec == Init /\ [][Next]_vars

\* Mutation of FirstDivergence: a path that is a prefix of the other goes unnoticed.
FirstDivergence_NoPrefix ==
  LET n == IF Len(runA) < Len(runB) THEN Len(runA) ELSE Len(runB)
      differ == {p \in 1 .. n : runA[p] # runB[p]}
  IN  IF differ = {} THEN Nothing ELSE CHOOSE p \in differ : \A q \in differ : p <= q

\* firstDivergenceIndex: the first difference, or the end of the shorter, or null.
FirstDivergence ==
  LET n == IF Len(runA) < Len(runB) THEN Len(runA) ELSE Len(runB)
      differ == {p \in 1 .. n : runA[p] # runB[p]}
  IN  IF differ # {} THEN CHOOSE p \in differ : \A q \in differ : p <= q
      ELSE IF Len(runA) # Len(runB) THEN n + 1 ELSE Nothing

-----------------------------------------------------------------------------
(* Correctness.                                                            *)

Op == [t : {"same", "del", "ins"}, d : Decisions]
Entry == [kind : {"changed", "a-only", "b-only"}, a : Decisions \cup {Nothing},
          b : Decisions \cup {Nothing}]

\* The types; the report never runs past the alignment.
TypeOK ==
  /\ runA \in Seq(Decisions) /\ runB \in Seq(Decisions)
  /\ i \in 1 .. Len(runA) + 1 /\ j \in 1 .. Len(runB) + 1
  /\ ops \in Seq(Op)
  /\ k \in 1 .. Len(ops) + 1
  /\ out \in Seq(Entry)

\* The decisions of the operations of some types, and those a column of the report names.
Of(types) == At([n \in 1 .. Len(ops) |-> ops[n].d], {n \in 1 .. Len(ops) : ops[n].t \in types})
Named(column) == At(column, {n \in DOMAIN column : column[n] # Nothing})
ColumnA == [n \in 1 .. Len(out) |-> out[n].a]
ColumnB == [n \in 1 .. Len(out) |-> out[n].b]

\* The comparison loses nothing: the alignment replays both runs, and every decision of
\* either run that has no partner is reported once and in its order.
Lossless ==
  Done =>
    /\ Of({"same", "del"}) = runA /\ Of({"same", "ins"}) = runB
    /\ Named(ColumnA) = Of({"del"}) /\ Named(ColumnB) = Of({"ins"})

\* The runs are aligned on a longest common subsequence, whatever the ties.
Longest ==
  Done =>
    LET common == {Cardinality(I) : I \in {I \in SUBSET DOMAIN runA :
                     \E J \in SUBSET DOMAIN runB : At(runA, I) = At(runB, J)}}
    IN  \A n \in common : n <= Len(Of({"same"}))

\* A decision reported as changed is a different decision in the two runs, although
\* deletions and insertions are paired by their place alone.
ChangedDiffers == \A n \in 1 .. Len(out) : out[n].kind = "changed" => out[n].a # out[n].b

\* The reported divergence is the first, and none is reported for identical paths only.
Divergence ==
  IF FirstDivergence = Nothing THEN runA = runB
  ELSE LET d == FirstDivergence
       IN  /\ SubSeq(runA, 1, d - 1) = SubSeq(runB, 1, d - 1)
           /\ d <= Len(runA) /\ d <= Len(runB) => runA[d] # runB[d]
=============================================================================
