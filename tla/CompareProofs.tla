---------------------------- MODULE CompareProofs ----------------------------
(***************************************************************************)
(* Proofs about CompareRuns, for runs of any length.                        *)
(***************************************************************************)
EXTENDS CompareRuns, SubsequenceProofs

\* A deletion and an insertion that stand next to each other are of different decisions.
NeighboursDiffer ==
  \A n \in 1 .. Len(ops) - 1 : Pairs(ops[n], ops[n + 1]) => ops[n].d # ops[n + 1].d

\* The last difference differs from what the other side would take next: the two decisions
\* were compared when it was taken, and the other side has not moved since.
LastDiffers ==
  ops # <<>> =>
    /\ ops[Len(ops)].t = "del" /\ j <= Len(runB) => ops[Len(ops)].d # runB[j]
    /\ ops[Len(ops)].t = "ins" /\ i <= Len(runA) => ops[Len(ops)].d # runA[i]

CompareInv == TypeOK /\ NeighboursDiffer /\ LastDiffers /\ ChangedDiffers

LEMMA InitTyped ==
  ASSUME Init
  PROVE  CompareInv
<1>1. PICK n \in 0 .. MaxLen : runA \in [1 .. n -> Decisions]
  BY DEF Init, Runs
<1>2. PICK m \in 0 .. MaxLen : runB \in [1 .. m -> Decisions]
  BY DEF Init, Runs
<1>3. runA \in Seq(Decisions) /\ runB \in Seq(Decisions)
  BY <1>1, <1>2, CompareAssumption
<1>. QED
  BY <1>3 DEF Init, CompareInv, TypeOK, NeighboursDiffer, LastDiffers, ChangedDiffers

\* One more operation of the alignment.
LEMMA OpStep ==
  ASSUME CompareInv, NEW op \in Op,
         ops' = Append(ops, op), UNCHANGED <<runA, runB, k, out>>,
         i' \in 1 .. Len(runA) + 1, j' \in 1 .. Len(runB) + 1,
         ops # <<>> /\ Pairs(ops[Len(ops)], op) => ops[Len(ops)].d # op.d,
         op.t = "del" /\ j' <= Len(runB) => op.d # runB[j'],
         op.t = "ins" /\ i' <= Len(runA) => op.d # runA[i']
  PROVE  CompareInv'
<1>. USE DEF CompareInv
<1>1. ops \in Seq(Op) /\ Len(ops) \in Nat
  BY DEF TypeOK
<1>2. Len(ops') = Len(ops) + 1 /\ ops'[Len(ops')] = op
      /\ \A n \in 1 .. Len(ops) : ops'[n] = ops[n]
  BY <1>1
<1>3. TypeOK'
  BY <1>1, <1>2 DEF TypeOK
<1>4. NeighboursDiffer'
  <2>1. ASSUME NEW n \in 1 .. Len(ops') - 1, Pairs(ops'[n], ops'[n + 1])
        PROVE  ops'[n].d # ops'[n + 1].d
    <3>1. CASE n = Len(ops)
      BY <1>1, <1>2, <2>1, <3>1
    <3>2. CASE n # Len(ops)
      BY <1>1, <1>2, <2>1, <3>2 DEF NeighboursDiffer
    <3>. QED
      BY <3>1, <3>2
  <2>. QED
    BY <2>1 DEF NeighboursDiffer, Pairs
<1>5. LastDiffers'
  BY <1>1, <1>2 DEF LastDiffers
<1>6. ChangedDiffers'
  BY DEF ChangedDiffers
<1>. QED
  BY <1>3, <1>4, <1>5, <1>6

\* A step of the alignment.
LEMMA AlignStep ==
  ASSUME CompareInv, Same \/ Del \/ Ins
  PROVE  CompareInv'
<1>. USE DEF CompareInv
<1>0. /\ runA \in Seq(Decisions) /\ runB \in Seq(Decisions)
      /\ i \in 1 .. Len(runA) + 1 /\ j \in 1 .. Len(runB) + 1
  BY DEF TypeOK
<1>. DEFINE op(type, decision) == [t |-> type, d |-> decision]
<1>1. CASE Same
  <2>1. op("same", runA[i]) \in Op
    BY <1>0, <1>1 DEF Same, Both, Op
  <2>2. ~Pairs(ops[Len(ops)], op("same", runA[i]))
    BY DEF Pairs
  <2>3. /\ ops' = Append(ops, op("same", runA[i])) /\ UNCHANGED <<runA, runB, k, out>>
        /\ i' \in 1 .. Len(runA) + 1 /\ j' \in 1 .. Len(runB) + 1
        /\ op("same", runA[i]).t \notin {"del", "ins"}
    BY <1>0, <1>1 DEF Same, Both
  <2>. HIDE DEF op
  <2>. QED
    BY <2>1, <2>2, <2>3, OpStep
<1>2. CASE Del
  <2>1. op("del", runA[i]) \in Op
    BY <1>0, <1>2 DEF Del, MayDelete, Op
  <2>2. ops # <<>> /\ Pairs(ops[Len(ops)], op("del", runA[i])) => ops[Len(ops)].d # runA[i]
    BY <1>2 DEF Del, MayDelete, LastDiffers, Pairs
  <2>3. j <= Len(runB) => runA[i] # runB[j]
    BY <1>2 DEF Del, MayDelete, Both
  <2>4. /\ ops' = Append(ops, op("del", runA[i])) /\ UNCHANGED <<runA, runB, k, out>>
        /\ i' \in 1 .. Len(runA) + 1 /\ j' = j
        /\ op("del", runA[i]).t = "del" /\ op("del", runA[i]).d = runA[i]
    BY <1>0, <1>2 DEF Del, MayDelete
  <2>. HIDE DEF op
  <2>. QED
    BY <1>0, <2>1, <2>2, <2>3, <2>4, OpStep
<1>3. CASE Ins
  <2>1. op("ins", runB[j]) \in Op
    BY <1>0, <1>3 DEF Ins, Op
  <2>2. ops # <<>> /\ Pairs(ops[Len(ops)], op("ins", runB[j])) => ops[Len(ops)].d # runB[j]
    BY <1>3 DEF Ins, LastDiffers, Pairs
  <2>3. i <= Len(runA) => runA[i] # runB[j]
    BY <1>3 DEF Ins, Both
  <2>4. /\ ops' = Append(ops, op("ins", runB[j])) /\ UNCHANGED <<runA, runB, k, out>>
        /\ i' = i /\ j' \in 1 .. Len(runB) + 1
        /\ op("ins", runB[j]).t = "ins" /\ op("ins", runB[j]).d = runB[j]
    BY <1>0, <1>3 DEF Ins
  <2>. HIDE DEF op
  <2>. QED
    BY <1>0, <2>1, <2>2, <2>3, <2>4, OpStep
<1>. QED
  BY <1>1, <1>2, <1>3

\* A step of the report.
LEMMA ReportStep ==
  ASSUME CompareInv, SkipSame \/ ReportChange \/ ReportOne
  PROVE  CompareInv'
<1>. USE DEF CompareInv
<1>0. /\ ops \in Seq(Op) /\ Len(ops) \in Nat
      /\ k \in 1 .. Len(ops) + 1
      /\ out \in Seq(Entry)
  BY DEF TypeOK
<1>1. CASE SkipSame
  BY <1>0, <1>1 DEF SkipSame, Reporting, Taken, TypeOK, NeighboursDiffer, LastDiffers,
                    ChangedDiffers
<1>2. CASE ReportChange
  <2>. DEFINE a == IF ops[k].t = "del" THEN ops[k].d ELSE ops[k + 1].d
              b == IF ops[k].t = "del" THEN ops[k + 1].d ELSE ops[k].d
              r == [kind |-> "changed", a |-> a, b |-> b]
  <2>0. k < Len(ops) /\ ops[k] \in Op /\ ops[k + 1] \in Op /\ Pairs(ops[k], ops[k + 1])
    BY <1>0, <1>2 DEF ReportChange, Paired
  <2>1. /\ k < Len(ops) /\ ops[k].d \in Decisions /\ ops[k + 1].d \in Decisions
        /\ ops[k].d # ops[k + 1].d
    BY <1>0, <2>0 DEF NeighboursDiffer, Op
  <2>2. r \in Entry /\ r.a # r.b
    BY <2>1 DEF Entry
  <2>3. out' = Append(out, r) /\ k' = k + 2 /\ UNCHANGED <<runA, runB, i, j, ops>>
    BY <1>2 DEF ReportChange, Taken
  <2>. HIDE DEF r
  <2>4. TypeOK' /\ ChangedDiffers'
    BY <1>0, <2>1, <2>2, <2>3 DEF TypeOK, ChangedDiffers
  <2>. QED
    BY <2>3, <2>4 DEF NeighboursDiffer, LastDiffers
<1>3. CASE ReportOne
  <2>. DEFINE r == IF ops[k].t = "del" THEN [kind |-> "a-only", a |-> ops[k].d, b |-> Nothing]
                   ELSE [kind |-> "b-only", a |-> Nothing, b |-> ops[k].d]
  <2>0. k <= Len(ops) /\ ops[k] \in Op
    BY <1>0, <1>3 DEF ReportOne, Reporting
  <2>1. k <= Len(ops) /\ ops[k].d \in Decisions
    BY <2>0 DEF Op
  <2>2. r \in Entry /\ r.kind # "changed"
    BY <2>1 DEF Entry
  <2>3. out' = Append(out, r) /\ k' = k + 1 /\ UNCHANGED <<runA, runB, i, j, ops>>
    BY <1>3 DEF ReportOne, Taken
  <2>. HIDE DEF r
  <2>4. TypeOK' /\ ChangedDiffers'
    BY <1>0, <2>1, <2>2, <2>3 DEF TypeOK, ChangedDiffers
  <2>. QED
    BY <2>3, <2>4 DEF NeighboursDiffer, LastDiffers
<1>. QED
  BY <1>1, <1>2, <1>3

LEMMA CompareInvariant == Spec => []CompareInv
<1>1. CompareInv /\ UNCHANGED vars => CompareInv'
  BY DEF vars, CompareInv, TypeOK, NeighboursDiffer, LastDiffers, ChangedDiffers
<1>2. CompareInv /\ [Next]_vars => CompareInv'
  BY <1>1, AlignStep, ReportStep DEF Next
<1>. QED
  BY <1>2, InitTyped, PTL DEF Spec

\* The report never runs past the alignment.
THEOREM CompareTyped == Spec => []TypeOK
BY CompareInvariant, PTL DEF CompareInv

\* A decision reported as changed is a different decision in the two runs.
THEOREM NoFalseChange == Spec => []ChangedDiffers
BY CompareInvariant, PTL DEF CompareInv

-----------------------------------------------------------------------------
(* Nothing is lost: the alignment so far replays what it has passed of both *)
(* runs, and the report so far names what it has passed of the alignment.   *)

\* The decisions of the operations of some types among the first m.
Kept(os, types, m) ==
  At([n \in 1 .. Len(os) |-> os[n].d], {n \in 1 .. m : os[n].t \in types})

LEMMA KeptNext ==
  ASSUME NEW os \in Seq(Op), NEW types, NEW m \in Nat, m < Len(os)
  PROVE  /\ Kept(os, types, m) \in Seq(Decisions)
         /\ Kept(os, types, m + 1) =
              IF os[m + 1].t \in types THEN Append(Kept(os, types, m), os[m + 1].d)
              ELSE Kept(os, types, m)
<1>. DEFINE d == [n \in 1 .. Len(os) |-> os[n].d]
            I == {n \in 1 .. m : os[n].t \in types}
            J == {n \in 1 .. m + 1 : os[n].t \in types}
<1>1. \A n \in 1 .. Len(os) : d[n] = os[n].d /\ d[n] \in Decisions
  <2>1. \A n \in 1 .. Len(os) : os[n] \in Op
    OBVIOUS
  <2>2. \A o \in Op : o.d \in Decisions
    BY DEF Op
  <2>. QED
    BY <2>1, <2>2
<1>2. /\ I \in SUBSET (1 .. m) /\ \A q \in I : q < m + 1 /\ d[q] \in Decisions
      /\ m + 1 \in Nat \ {0} /\ d[m + 1] \in Decisions /\ d[m + 1] = os[m + 1].d
  <2>1. \A q \in I : q \in 1 .. Len(os) /\ q < m + 1
    OBVIOUS
  <2>2. m + 1 \in 1 .. Len(os)
    OBVIOUS
  <2>. QED
    BY <1>1, <2>1, <2>2
<1>3. IF os[m + 1].t \in types THEN J = I \cup {m + 1} ELSE J = I
  <2>1. \A n : n \in 1 .. m + 1 <=> n \in 1 .. m \/ n = m + 1
    OBVIOUS
  <2>. QED
    BY <2>1
<1>4. Kept(os, types, m) = At(d, I) /\ Kept(os, types, m + 1) = At(d, J)
  BY DEF Kept
<1>. DEFINE p == m + 1
<1>. HIDE DEF d, I, J
<1>5. At(d, I) \in Seq(Decisions)
  BY <1>2, AtTyped
<1>6. At(d, I \cup {p}) = Append(At(d, I), d[p])
  <2>1. p \in Nat \ {0} /\ I \in SUBSET (1 .. p) /\ p \notin I
    BY <1>2
  <2>. HIDE DEF p
  <2>. QED
    BY <2>1, AtAppend
<1>. QED
  BY <1>2, <1>3, <1>4, <1>5, <1>6

\* One operation more does not change what was kept before it.
LEMMA KeptBefore ==
  ASSUME NEW os \in Seq(Op), NEW op \in Op, NEW types, NEW m \in 0 .. Len(os)
  PROVE  Kept(Append(os, op), types, m) = Kept(os, types, m)
<1>. DEFINE more == Append(os, op)
            d == [n \in 1 .. Len(os) |-> os[n].d]
            e == [n \in 1 .. Len(more) |-> more[n].d]
            I == {n \in 1 .. m : os[n].t \in types}
            J == {n \in 1 .. m : more[n].t \in types}
<1>0. /\ Len(more) = Len(os) + 1 /\ Len(os) \in Nat
      /\ \A n \in 1 .. Len(os) : more[n] = os[n]
      /\ \A n \in 1 .. m : n \in 1 .. Len(os) /\ n \in 1 .. Len(more)
  OBVIOUS
<1>1. m \in Nat /\ I = J /\ I \in SUBSET (1 .. m) /\ \A n \in I : d[n] = e[n]
  BY <1>0
<1>2. Kept(os, types, m) = At(d, I) /\ Kept(more, types, m) = At(e, J)
  BY DEF Kept
<1>3. Kept(more, types, m) = Kept(os, types, m)
  <2>. HIDE DEF more, d, e, I, J
  <2>. QED
    BY <1>1, <1>2, AtAgrees
<1>. QED
  BY <1>3

LEMMA KeptAppend ==
  ASSUME NEW os \in Seq(Op), NEW op \in Op, NEW types
  PROVE  Kept(Append(os, op), types, Len(Append(os, op))) =
           IF op.t \in types THEN Append(Kept(os, types, Len(os)), op.d)
           ELSE Kept(os, types, Len(os))
<1>. DEFINE more == Append(os, op)
            m == Len(os)
<1>1. /\ more \in Seq(Op) /\ Len(more) = m + 1 /\ m \in Nat /\ more[m + 1] = op
      /\ m < Len(more) /\ m \in 0 .. Len(os)
  OBVIOUS
<1>2. Kept(more, types, m) = Kept(os, types, m)
  BY <1>1, KeptBefore
<1>. HIDE DEF more, m
<1>3. Kept(more, types, m + 1) =
        IF more[m + 1].t \in types THEN Append(Kept(more, types, m), more[m + 1].d)
        ELSE Kept(more, types, m)
  BY <1>1, KeptNext
<1>4. Kept(more, types, Len(more)) =
        IF op.t \in types THEN Append(Kept(os, types, m), op.d) ELSE Kept(os, types, m)
  BY <1>1, <1>2, <1>3
<1>. QED
  BY <1>4 DEF more, m

LEMMA NamedAppend ==
  ASSUME NEW column \in Seq(Decisions \cup {Nothing}), NEW x \in Decisions \cup {Nothing}
  PROVE  Named(Append(column, x)) = IF x # Nothing THEN Append(Named(column), x) ELSE Named(column)
<1>. DEFINE more == Append(column, x)
            m == Len(column)
            I == {n \in DOMAIN column : column[n] # Nothing}
            J == {n \in DOMAIN more : more[n] # Nothing}
<1>1. /\ m \in Nat /\ DOMAIN column = 1 .. m /\ DOMAIN more = 1 .. m + 1
      /\ more[m + 1] = x /\ \A n \in 1 .. m : more[n] = column[n]
  OBVIOUS
<1>2. IF x # Nothing THEN J = I \cup {m + 1} ELSE J = I
  <2>1. \A n : n \in 1 .. m + 1 <=> n \in 1 .. m \/ n = m + 1
    BY <1>1
  <2>2. m + 1 \notin 1 .. m
    BY <1>1
  <2>3. \A n : n \in DOMAIN more <=> n \in DOMAIN column \/ n = m + 1
    BY <1>1, <2>1
  <2>. HIDE DEF m
  <2>. QED
    BY <1>1, <2>2, <2>3
<1>3. /\ I \in SUBSET (1 .. m) /\ m + 1 \in Nat \ {0}
      /\ \A n \in I : n < m + 1 /\ more[n] = column[n] /\ more[n] \in Decisions \cup {Nothing}
  <2>1. \A n \in 1 .. m : n < m + 1 /\ column[n] \in Decisions \cup {Nothing}
    OBVIOUS
  <2>. QED
    BY <1>1, <2>1
<1>4. Named(column) = At(column, I) /\ Named(more) = At(more, J)
  BY DEF Named
<1>. HIDE DEF more, I, J
<1>5. At(more, I) = At(column, I)
  BY <1>1, <1>3, AtAgrees
<1>. DEFINE p == m + 1
<1>6. At(more, I \cup {p}) = Append(At(more, I), more[p])
  <2>1. p \in Nat \ {0} /\ I \in SUBSET (1 .. p) /\ p \notin I
    BY <1>1, <1>3
  <2>. HIDE DEF p
  <2>. QED
    BY <2>1, AtAppend
<1>7. Named(more) = IF x # Nothing THEN Append(Named(column), x) ELSE Named(column)
  BY <1>1, <1>2, <1>4, <1>5, <1>6
<1>. QED
  BY <1>7 DEF more

LEMMA PrefixNext ==
  ASSUME NEW S, NEW s \in Seq(S), NEW n \in 1 .. Len(s)
  PROVE  SubSeq(s, 1, n) = Append(SubSeq(s, 1, n - 1), s[n])
<1>. DEFINE t == SubSeq(s, 1, n)
            u == Append(SubSeq(s, 1, n - 1), s[n])
<1>1. /\ SubSeq(s, 1, n - 1) \in Seq(S) /\ Len(SubSeq(s, 1, n - 1)) = n - 1
      /\ \A q \in 1 .. n - 1 : SubSeq(s, 1, n - 1)[q] = s[q]
  OBVIOUS
<1>2. t \in Seq(S) /\ Len(t) = n /\ \A q \in 1 .. n : t[q] = s[q]
  OBVIOUS
<1>3. u \in Seq(S) /\ Len(u) = n /\ \A q \in 1 .. n : u[q] = s[q]
  <2>1. s[n] \in S
    OBVIOUS
  <2>. QED
    BY <1>1, <2>1
<1>. HIDE DEF t, u
<1>4. t = u
  BY <1>2, <1>3, SeqEqual
<1>. QED
  BY <1>4 DEF t, u

\* The alignment has taken the runs up to i and j, the report has named it up to k.
Took ==
  /\ Kept(ops, {"same", "del"}, Len(ops)) = SubSeq(runA, 1, i - 1)
  /\ Kept(ops, {"same", "ins"}, Len(ops)) = SubSeq(runB, 1, j - 1)

Told ==
  /\ Named(ColumnA) = Kept(ops, {"del"}, k - 1)
  /\ Named(ColumnB) = Kept(ops, {"ins"}, k - 1)

LEMMA InitTook ==
  ASSUME Init
  PROVE  Took /\ Told
<1>1. CompareInv /\ ops = <<>> /\ out = <<>> /\ k = 1 /\ i = 1 /\ j = 1
  BY InitTyped DEF Init
<1>2. /\ SubSeq(runA, 1, i - 1) = <<>> /\ SubSeq(runB, 1, j - 1) = <<>>
      /\ Len(ops) = 0 /\ k - 1 = 0
  BY <1>1 DEF CompareInv, TypeOK
<1>3. ASSUME NEW types PROVE Kept(ops, types, 0) = <<>>
  <2>1. {n \in 1 .. 0 : ops[n].t \in types} = {}
    OBVIOUS
  <2>. QED
    BY <2>1, AtNone DEF Kept
<1>4. Named(ColumnA) = <<>> /\ Named(ColumnB) = <<>>
  <2>1. {n \in DOMAIN ColumnA : ColumnA[n] # Nothing} = {}
        /\ {n \in DOMAIN ColumnB : ColumnB[n] # Nothing} = {}
    BY <1>1 DEF ColumnA, ColumnB
  <2>. QED
    BY <2>1, AtNone DEF Named
<1>. QED
  BY <1>1, <1>2, <1>3, <1>4 DEF Took, Told

LEMMA TookStep ==
  ASSUME CompareInv, Took, Told, Same \/ Del \/ Ins
  PROVE  Took' /\ Told'
<1>0. /\ runA \in Seq(Decisions) /\ runB \in Seq(Decisions)
      /\ i \in 1 .. Len(runA) + 1 /\ j \in 1 .. Len(runB) + 1
      /\ ops \in Seq(Op) /\ k \in 1 .. Len(ops) + 1
  BY DEF CompareInv, TypeOK
<1>1. ASSUME NEW op \in Op, ops' = Append(ops, op), UNCHANGED <<k, out>>
      PROVE  Told'
  <2>. DEFINE m == k - 1
  <2>1. m \in 0 .. Len(ops)
    BY <1>0
  <2>2. Kept(ops', {"del"}, m) = Kept(ops, {"del"}, m)
        /\ Kept(ops', {"ins"}, m) = Kept(ops, {"ins"}, m)
    <3>. HIDE DEF m
    <3>. QED
      BY <1>0, <1>1, <2>1, KeptBefore
  <2>. QED
    BY <1>1, <2>2 DEF Told, ColumnA, ColumnB
<1>2. i <= Len(runA) => SubSeq(runA, 1, i) = Append(SubSeq(runA, 1, i - 1), runA[i])
  BY <1>0, PrefixNext
<1>3. j <= Len(runB) => SubSeq(runB, 1, j) = Append(SubSeq(runB, 1, j - 1), runB[j])
  BY <1>0, PrefixNext
<1>. DEFINE op(type, decision) == [t |-> type, d |-> decision]
<1>4. CASE Same
  <2>1. op("same", runA[i]) \in Op
    BY <1>0, <1>4 DEF Same, Both, Op
  <2>2. /\ ops' = Append(ops, op("same", runA[i])) /\ UNCHANGED <<runA, runB, k, out>>
        /\ i <= Len(runA) /\ j <= Len(runB) /\ runA[i] = runB[j]
        /\ i' = i + 1 /\ j' = j + 1
        /\ op("same", runA[i]).t = "same" /\ op("same", runA[i]).d = runA[i]
    BY <1>4 DEF Same, Both
  <2>. HIDE DEF op
  <2>3. Kept(ops', {"same", "del"}, Len(ops')) = Append(Kept(ops, {"same", "del"}, Len(ops)), runA[i])
    BY <1>0, <2>1, <2>2, KeptAppend, ZenonT(60)
  <2>4. Kept(ops', {"same", "ins"}, Len(ops')) = Append(Kept(ops, {"same", "ins"}, Len(ops)), runA[i])
    BY <1>0, <2>1, <2>2, KeptAppend, ZenonT(60)
  <2>5. i' - 1 = i /\ j' - 1 = j
    BY <1>0, <2>2
  <2>6. Took'
    BY <1>2, <1>3, <2>2, <2>3, <2>4, <2>5 DEF Took
  <2>. QED
    BY <1>1, <2>1, <2>2, <2>6
<1>5. CASE Del
  <2>1. op("del", runA[i]) \in Op
    BY <1>0, <1>5 DEF Del, MayDelete, Op
  <2>2. /\ ops' = Append(ops, op("del", runA[i])) /\ UNCHANGED <<runA, runB, k, out>>
        /\ i <= Len(runA) /\ i' = i + 1 /\ j' = j
        /\ op("del", runA[i]).t = "del" /\ op("del", runA[i]).d = runA[i]
    BY <1>5 DEF Del, MayDelete
  <2>. HIDE DEF op
  <2>3. /\ Kept(ops', {"same", "del"}, Len(ops')) = Append(Kept(ops, {"same", "del"}, Len(ops)), runA[i])
        /\ Kept(ops', {"same", "ins"}, Len(ops')) = Kept(ops, {"same", "ins"}, Len(ops))
    BY <1>0, <2>1, <2>2, KeptAppend, ZenonT(60)
  <2>4. i' - 1 = i
    BY <1>0, <2>2
  <2>5. Took'
    BY <1>2, <2>2, <2>3, <2>4 DEF Took
  <2>. QED
    BY <1>1, <2>1, <2>2, <2>5
<1>6. CASE Ins
  <2>1. op("ins", runB[j]) \in Op
    BY <1>0, <1>6 DEF Ins, Op
  <2>2. /\ ops' = Append(ops, op("ins", runB[j])) /\ UNCHANGED <<runA, runB, k, out>>
        /\ j <= Len(runB) /\ i' = i /\ j' = j + 1
        /\ op("ins", runB[j]).t = "ins" /\ op("ins", runB[j]).d = runB[j]
    BY <1>6 DEF Ins
  <2>. HIDE DEF op
  <2>3. /\ Kept(ops', {"same", "del"}, Len(ops')) = Kept(ops, {"same", "del"}, Len(ops))
        /\ Kept(ops', {"same", "ins"}, Len(ops')) = Append(Kept(ops, {"same", "ins"}, Len(ops)), runB[j])
    BY <1>0, <2>1, <2>2, KeptAppend, ZenonT(60)
  <2>4. j' - 1 = j
    BY <1>0, <2>2
  <2>5. Took'
    BY <1>3, <2>2, <2>3, <2>4 DEF Took
  <2>. QED
    BY <1>1, <2>1, <2>2, <2>5
<1>. QED
  BY <1>4, <1>5, <1>6

\* One operation further in the report.
LEMMA KeptAt ==
  ASSUME CompareInv, NEW n \in 1 .. Len(ops), NEW types
  PROVE  /\ Kept(ops, types, n) = IF ops[n].t \in types THEN Append(Kept(ops, types, n - 1), ops[n].d)
                                  ELSE Kept(ops, types, n - 1)
         /\ ops[n].d \in Decisions /\ ops[n].t \in {"same", "del", "ins"}
<1>. DEFINE m == n - 1
<1>1. ops \in Seq(Op) /\ m \in Nat /\ m < Len(ops) /\ m + 1 = n
  BY DEF CompareInv, TypeOK
<1>2. Kept(ops, types, n) = IF ops[n].t \in types THEN Append(Kept(ops, types, m), ops[n].d)
                            ELSE Kept(ops, types, m)
  <2>. HIDE DEF m
  <2>. QED
    BY <1>1, KeptNext
<1>3. ops[n] \in Op
  BY <1>1
<1>. QED
  BY <1>2, <1>3 DEF Op

\* One entry more names its two decisions.
LEMMA NamedNext ==
  ASSUME CompareInv, NEW r \in Entry, out' = Append(out, r)
  PROVE  /\ Named(ColumnA)' = IF r.a # Nothing THEN Append(Named(ColumnA), r.a) ELSE Named(ColumnA)
         /\ Named(ColumnB)' = IF r.b # Nothing THEN Append(Named(ColumnB), r.b) ELSE Named(ColumnB)
<1>. DEFINE S == Decisions \cup {Nothing}
<1>1. /\ out \in Seq(Entry) /\ Len(out) \in Nat /\ Len(out') = Len(out) + 1
      /\ out'[Len(out) + 1] = r /\ \A n \in 1 .. Len(out) : out'[n] = out[n] /\ out[n] \in Entry
  BY DEF CompareInv, TypeOK
<1>2. \A e \in Entry : e.a \in S /\ e.b \in S
  BY DEF Entry
<1>3. ColumnA \in Seq(S) /\ Len(ColumnA) = Len(out) /\ ColumnB \in Seq(S) /\ Len(ColumnB) = Len(out)
  <2>1. \A n \in 1 .. Len(out) : out[n].a \in S /\ out[n].b \in S
    BY <1>1, <1>2
  <2>. HIDE DEF S
  <2>. QED
    BY <1>1, <2>1 DEF ColumnA, ColumnB
<1>4. ColumnA' = Append(ColumnA, r.a) /\ ColumnB' = Append(ColumnB, r.b)
  <2>1. r.a \in S /\ r.b \in S
    BY <1>2
  <2>. HIDE DEF S
  <2>2. ColumnA' = Append(ColumnA, r.a)
    BY <1>1, <1>3, <2>1 DEF ColumnA
  <2>3. ColumnB' = Append(ColumnB, r.b)
    BY <1>1, <1>3, <2>1 DEF ColumnB
  <2>. QED
    BY <2>2, <2>3
<1>5. Named(ColumnA)' = Named(ColumnA') /\ Named(ColumnB)' = Named(ColumnB')
  BY DEF Named
<1>. QED
  BY <1>2, <1>3, <1>4, <1>5, NamedAppend

LEMMA ToldStep ==
  ASSUME CompareInv, Took, Told, SkipSame \/ ReportChange \/ ReportOne
  PROVE  Took' /\ Told'
<1>0. ops \in Seq(Op) /\ Len(ops) \in Nat /\ k \in 1 .. Len(ops) + 1
  BY DEF CompareInv, TypeOK
<1>1. UNCHANGED <<runA, runB, i, j, ops>> /\ Took'
  BY DEF SkipSame, ReportChange, ReportOne, Took
<1>2. \A d \in Decisions : d # Nothing
  BY CompareAssumption
<1>3. CASE SkipSame
  <2>1. k \in 1 .. Len(ops) /\ ops[k].t = "same" /\ k' - 1 = k /\ UNCHANGED <<ops, out>>
    BY <1>0, <1>3 DEF SkipSame, Reporting, Taken
  <2>2. Kept(ops, {"del"}, k) = Kept(ops, {"del"}, k - 1)
        /\ Kept(ops, {"ins"}, k) = Kept(ops, {"ins"}, k - 1)
    BY <2>1, KeptAt
  <2>3. Named(ColumnA)' = Named(ColumnA) /\ Named(ColumnB)' = Named(ColumnB)
    BY <2>1 DEF Named, ColumnA, ColumnB
  <2>. QED
    BY <1>1, <2>1, <2>2, <2>3 DEF Told
<1>4. CASE ReportOne
  <2>. DEFINE r == IF ops[k].t = "del" THEN [kind |-> "a-only", a |-> ops[k].d, b |-> Nothing]
                   ELSE [kind |-> "b-only", a |-> Nothing, b |-> ops[k].d]
  <2>1. k \in 1 .. Len(ops) /\ ops[k].t # "same" /\ k' - 1 = k /\ ops' = ops /\ out' = Append(out, r)
    BY <1>0, <1>4 DEF ReportOne, Reporting, Taken
  <2>2. ops[k].d \in Decisions /\ ops[k].t \in {"del", "ins"}
    BY <2>1, KeptAt
  <2>3. /\ r \in Entry
        /\ IF ops[k].t = "del" THEN r.a = ops[k].d /\ r.b = Nothing ELSE r.a = Nothing /\ r.b = ops[k].d
    BY <2>2 DEF Entry
  <2>. HIDE DEF r
  <2>4. /\ Named(ColumnA)' = IF ops[k].t = "del" THEN Append(Named(ColumnA), ops[k].d) ELSE Named(ColumnA)
        /\ Named(ColumnB)' = IF ops[k].t = "ins" THEN Append(Named(ColumnB), ops[k].d) ELSE Named(ColumnB)
    BY <1>2, <2>1, <2>2, <2>3, NamedNext
  <2>5. /\ Kept(ops, {"del"}, k) = IF ops[k].t = "del" THEN Append(Kept(ops, {"del"}, k - 1), ops[k].d)
                                   ELSE Kept(ops, {"del"}, k - 1)
        /\ Kept(ops, {"ins"}, k) = IF ops[k].t = "ins" THEN Append(Kept(ops, {"ins"}, k - 1), ops[k].d)
                                   ELSE Kept(ops, {"ins"}, k - 1)
    BY <2>1, KeptAt
  <2>. QED
    BY <1>1, <2>1, <2>4, <2>5 DEF Told
<1>5. CASE ReportChange
  <2>. DEFINE n == k + 1
              a == IF ops[k].t = "del" THEN ops[k].d ELSE ops[n].d
              b == IF ops[k].t = "del" THEN ops[n].d ELSE ops[k].d
              r == [kind |-> "changed", a |-> a, b |-> b]
  <2>1. /\ k \in 1 .. Len(ops) /\ n \in 1 .. Len(ops) /\ {ops[k].t, ops[n].t} = {"del", "ins"}
        /\ k' - 1 = n /\ n - 1 = k /\ ops' = ops /\ out' = Append(out, r)
    <3>1. out' = Append(out, r) /\ Paired /\ k' = k + 2 /\ ops' = ops
      BY <1>5 DEF ReportChange, Taken
    <3>2. k < Len(ops) /\ {ops[k].t, ops[n].t} = {"del", "ins"}
      BY <3>1 DEF Paired, Pairs
    <3>3. k \in 1 .. Len(ops) /\ n \in 1 .. Len(ops) /\ k' - 1 = n /\ n - 1 = k
      BY <1>0, <3>1, <3>2
    <3>. HIDE DEF r, n
    <3>. QED
      BY <3>1, <3>2, <3>3 DEF n
  <2>. HIDE DEF n
  <2>2. ops[k].d \in Decisions /\ ops[n].d \in Decisions
    BY <2>1, KeptAt
  <2>3. r \in Entry /\ r.a = a /\ r.b = b /\ a \in Decisions /\ b \in Decisions
    BY <2>2 DEF Entry
  <2>. HIDE DEF r, a, b
  <2>4. Named(ColumnA)' = Append(Named(ColumnA), a) /\ Named(ColumnB)' = Append(Named(ColumnB), b)
    BY <1>2, <2>1, <2>3, NamedNext
  <2>5. /\ Kept(ops, {"del"}, k) = IF ops[k].t = "del" THEN Append(Kept(ops, {"del"}, k - 1), ops[k].d)
                                   ELSE Kept(ops, {"del"}, k - 1)
        /\ Kept(ops, {"ins"}, k) = IF ops[k].t = "ins" THEN Append(Kept(ops, {"ins"}, k - 1), ops[k].d)
                                   ELSE Kept(ops, {"ins"}, k - 1)
    BY <2>1, KeptAt
  <2>6. /\ Kept(ops, {"del"}, n) = IF ops[n].t = "del" THEN Append(Kept(ops, {"del"}, k), ops[n].d)
                                   ELSE Kept(ops, {"del"}, k)
        /\ Kept(ops, {"ins"}, n) = IF ops[n].t = "ins" THEN Append(Kept(ops, {"ins"}, k), ops[n].d)
                                   ELSE Kept(ops, {"ins"}, k)
    BY <2>1, KeptAt
  <2>7. \/ ops[k].t = "del" /\ ops[n].t = "ins"
        \/ ops[k].t = "ins" /\ ops[n].t = "del"
    <3>1. \A t : t \in {ops[k].t, ops[n].t} <=> t \in {"del", "ins"}
      BY <2>1
    <3>2. ops[k].t \in {"del", "ins"} /\ ops[n].t \in {"del", "ins"}
          /\ (ops[k].t = "del" \/ ops[n].t = "del") /\ (ops[k].t = "ins" \/ ops[n].t = "ins")
      BY <3>1
    <3>. QED
      BY <3>2
  <2>8. Kept(ops, {"del"}, n) = Append(Kept(ops, {"del"}, k - 1), a)
        /\ Kept(ops, {"ins"}, n) = Append(Kept(ops, {"ins"}, k - 1), b)
    <3>1. CASE ops[k].t = "del" /\ ops[n].t = "ins"
      BY <2>5, <2>6, <3>1 DEF a, b
    <3>2. CASE ops[k].t = "ins" /\ ops[n].t = "del"
      BY <2>5, <2>6, <3>2 DEF a, b
    <3>. QED
      BY <2>7, <3>1, <3>2
  <2>. QED
    BY <1>1, <2>1, <2>4, <2>8 DEF Told
<1>. QED
  BY <1>3, <1>4, <1>5

LEMMA TookInvariant == Spec => [](CompareInv /\ Took /\ Told)
<1>1. CompareInv /\ Took /\ Told /\ UNCHANGED vars => Took' /\ Told'
  BY DEF vars, Took, Told, Named, ColumnA, ColumnB
<1>2. CompareInv /\ Took /\ Told /\ [Next]_vars => Took' /\ Told'
  BY <1>1, TookStep, ToldStep DEF Next
<1>3. Init => Took /\ Told
  BY InitTook
<1>. QED
  BY <1>2, <1>3, CompareInvariant, PTL DEF Spec

\* The comparison loses nothing: at its end the alignment replays both runs, and every
\* decision that has no partner is reported once and in its order.
THEOREM NothingLost == Spec => []Lossless
<1>1. CompareInv /\ Took /\ Told => Lossless
  <2>1. SUFFICES ASSUME CompareInv, Took, Told, Done
                 PROVE  /\ Of({"same", "del"}) = runA /\ Of({"same", "ins"}) = runB
                        /\ Named(ColumnA) = Of({"del"}) /\ Named(ColumnB) = Of({"ins"})
    BY DEF Lossless
  <2>2. /\ runA \in Seq(Decisions) /\ runB \in Seq(Decisions) /\ ops \in Seq(Op)
        /\ i - 1 = Len(runA) /\ j - 1 = Len(runB) /\ k - 1 = Len(ops)
    BY <2>1 DEF CompareInv, TypeOK, Done, Aligned
  <2>3. SubSeq(runA, 1, Len(runA)) = runA /\ SubSeq(runB, 1, Len(runB)) = runB
    BY <2>2
  <2>4. \A types : Of(types) = Kept(ops, types, Len(ops))
    BY DEF Of, Kept
  <2>. QED
    BY <2>1, <2>2, <2>3, <2>4 DEF Took, Told
<1>. QED
  BY <1>1, TookInvariant, PTL

\* The reported divergence is the first, and none is reported for identical paths only.
THEOREM DivergenceFirst == Spec => []Divergence
<1>1. CompareInv => Divergence
  <2>. DEFINE n == IF Len(runA) < Len(runB) THEN Len(runA) ELSE Len(runB)
              differ == {p \in 1 .. n : runA[p] # runB[p]}
              first == CHOOSE p \in differ : \A q \in differ : p <= q
  <2>1. SUFFICES ASSUME CompareInv PROVE Divergence
    OBVIOUS
  <2>2. /\ runA \in Seq(Decisions) /\ runB \in Seq(Decisions)
        /\ n \in Nat /\ n <= Len(runA) /\ n <= Len(runB)
        /\ n = Len(runA) \/ n = Len(runB)
    BY <2>1 DEF CompareInv, TypeOK
  <2>3. FirstDivergence = IF differ # {} THEN first
                          ELSE IF Len(runA) # Len(runB) THEN n + 1 ELSE Nothing
    BY DEF FirstDivergence
  <2>4. ASSUME NEW d \in 1 .. n + 1, \A p \in 1 .. d - 1 : runA[p] = runB[p]
        PROVE  SubSeq(runA, 1, d - 1) = SubSeq(runB, 1, d - 1)
    <3>1. /\ SubSeq(runA, 1, d - 1) \in Seq(Decisions) /\ Len(SubSeq(runA, 1, d - 1)) = d - 1
          /\ \A p \in 1 .. d - 1 : SubSeq(runA, 1, d - 1)[p] = runA[p]
      BY <2>2, <2>4
    <3>2. /\ SubSeq(runB, 1, d - 1) \in Seq(Decisions) /\ Len(SubSeq(runB, 1, d - 1)) = d - 1
          /\ \A p \in 1 .. d - 1 : SubSeq(runB, 1, d - 1)[p] = runB[p]
      BY <2>2, <2>4
    <3>. QED
      BY <2>4, <3>1, <3>2, SeqEqual
  <2>5. CASE differ # {}
    <3>1. differ \subseteq Nat
      BY <2>2
    <3>2. \E p \in differ : \A q \in differ : p <= q
      <4>. HIDE DEF differ
      <4>. QED
        BY <2>5, <3>1, LeastNatural
    <3>3. first \in differ /\ \A q \in differ : first <= q
      <4>. HIDE DEF differ
      <4>. QED
        BY <3>2
    <3>. HIDE DEF first
    <3>4. /\ first \in 1 .. n + 1 /\ runA[first] # runB[first]
          /\ \A p \in 1 .. first - 1 : runA[p] = runB[p]
      BY <2>2, <3>3
    <3>5. first # Nothing /\ FirstDivergence = first
      BY <2>2, <2>3, <2>5, <3>4, CompareAssumption
    <3>6. SubSeq(runA, 1, first - 1) = SubSeq(runB, 1, first - 1)
      BY <2>4, <3>4
    <3>. QED
      BY <3>4, <3>5, <3>6 DEF Divergence
  <2>6. CASE differ = {} /\ Len(runA) # Len(runB)
    <3>. DEFINE d == n + 1
    <3>1. d \in Nat /\ d \in 1 .. n + 1 /\ \A p \in 1 .. d - 1 : runA[p] = runB[p]
      BY <2>2, <2>6
    <3>2. ~(d <= Len(runA) /\ d <= Len(runB))
      BY <2>2
    <3>3. FirstDivergence = d
      BY <2>3, <2>6
    <3>. HIDE DEF d
    <3>4. d # Nothing
      BY <3>1, CompareAssumption
    <3>5. SubSeq(runA, 1, d - 1) = SubSeq(runB, 1, d - 1)
      BY <2>4, <3>1
    <3>. QED
      BY <3>2, <3>3, <3>4, <3>5 DEF Divergence
  <2>7. CASE differ = {} /\ Len(runA) = Len(runB)
    <3>1. FirstDivergence = Nothing
      BY <2>3, <2>7
    <3>2. \A p \in 1 .. Len(runA) : runA[p] = runB[p]
      BY <2>2, <2>7
    <3>3. runA = runB
      BY <2>2, <2>7, <3>2, SeqEqual
    <3>. QED
      BY <3>1, <3>3 DEF Divergence
  <2>. QED
    BY <2>5, <2>6, <2>7
<1>. QED
  BY <1>1, CompareInvariant, PTL

-----------------------------------------------------------------------------
(* The alignment is a longest one.  The table is a recursive function: that *)
(* one exists is shown by induction on the distance of a cell to the corner *)
(* where both runs are used up, and so is what its cells say.               *)

Far(a, b, x, y) == (Len(a) + 1 - x) + (Len(b) + 1 - y)

Cell(a, b, f, p) ==
  IF p[1] > Len(a) \/ p[2] > Len(b) THEN 0
  ELSE IF a[p[1]] = b[p[2]] THEN 1 + f[<<p[1] + 1, p[2] + 1>>]
  ELSE LET del == f[<<p[1] + 1, p[2]>>] ins == f[<<p[1], p[2] + 1>>]
       IN  IF del >= ins THEN del ELSE ins

Table(a, b, f) == f = [p \in (1 .. Len(a) + 1) \X (1 .. Len(b) + 1) |-> Cell(a, b, f, p)]

\* A cell is determined by the cells that are nearer to the corner.
LEMMA CellAgrees ==
  ASSUME NEW a \in Seq(Decisions), NEW b \in Seq(Decisions), NEW f, NEW g,
         NEW x \in 1 .. Len(a) + 1, NEW y \in 1 .. Len(b) + 1,
         \A u \in 1 .. Len(a) + 1, v \in 1 .. Len(b) + 1 :
           Far(a, b, u, v) < Far(a, b, x, y) => f[<<u, v>>] = g[<<u, v>>]
  PROVE  Cell(a, b, f, <<x, y>>) = Cell(a, b, g, <<x, y>>)
<1>1. CASE x > Len(a) \/ y > Len(b)
  BY <1>1 DEF Cell
<1>2. CASE ~(x > Len(a) \/ y > Len(b))
  <2>1. /\ x + 1 \in 1 .. Len(a) + 1 /\ y + 1 \in 1 .. Len(b) + 1
        /\ Far(a, b, x + 1, y + 1) < Far(a, b, x, y)
        /\ Far(a, b, x + 1, y) < Far(a, b, x, y)
        /\ Far(a, b, x, y + 1) < Far(a, b, x, y)
    BY <1>2, SMTT(40) DEF Far
  <2>2. /\ f[<<x + 1, y + 1>>] = g[<<x + 1, y + 1>>]
        /\ f[<<x + 1, y>>] = g[<<x + 1, y>>]
        /\ f[<<x, y + 1>>] = g[<<x, y + 1>>]
    BY <2>1
  <2>. QED
    BY <2>2 DEF Cell
<1>. QED
  BY <1>1, <1>2

LEMMA TableExists ==
  ASSUME NEW a \in Seq(Decisions), NEW b \in Seq(Decisions)
  PROVE  \E f : Table(a, b, f)
<1>. DEFINE Xs == 1 .. Len(a) + 1
            Ys == 1 .. Len(b) + 1
            Upto(f, n) == \A x \in Xs, y \in Ys :
                            Far(a, b, x, y) <= n => f[<<x, y>>] = Cell(a, b, f, <<x, y>>)
            S == {n \in Nat : \E f : Upto(f, n)}
<1>1. 0 \in S
  <2>. DEFINE f == [p \in Xs \X Ys |-> 0]
  <2>1. ASSUME NEW x \in Xs, NEW y \in Ys, Far(a, b, x, y) <= 0
        PROVE  f[<<x, y>>] = Cell(a, b, f, <<x, y>>)
    <3>1. x > Len(a)
      BY <2>1 DEF Far
    <3>. QED
      BY <3>1 DEF Cell
  <2>2. Upto(f, 0)
    BY <2>1
  <2>. HIDE DEF Upto
  <2>. QED
    BY <2>2
<1>2. ASSUME NEW n \in Nat, n \in S
      PROVE  n + 1 \in S
  <2>1. PICK f : Upto(f, n)
    BY <1>2
  <2>. DEFINE g == [p \in Xs \X Ys |-> IF Far(a, b, p[1], p[2]) <= n THEN f[p] ELSE Cell(a, b, f, p)]
  <2>2. ASSUME NEW x \in Xs, NEW y \in Ys
        PROVE  g[<<x, y>>] = IF Far(a, b, x, y) <= n THEN f[<<x, y>>] ELSE Cell(a, b, f, <<x, y>>)
    OBVIOUS
  <2>. HIDE DEF g
  <2>3. ASSUME NEW x \in Xs, NEW y \in Ys, Far(a, b, x, y) <= n + 1
        PROVE  g[<<x, y>>] = Cell(a, b, g, <<x, y>>)
    <3>1. \A u \in Xs, v \in Ys : Far(a, b, u, v) \in Nat
      BY DEF Far
    <3>2. \A u \in Xs, v \in Ys : Far(a, b, u, v) < Far(a, b, x, y) => g[<<u, v>>] = f[<<u, v>>]
      BY <2>2, <2>3, <3>1
    <3>3. Cell(a, b, g, <<x, y>>) = Cell(a, b, f, <<x, y>>)
      BY <3>2, CellAgrees
    <3>. QED
      BY <2>1, <2>2, <3>3
  <2>4. Upto(g, n + 1)
    BY <2>3
  <2>. HIDE DEF Upto
  <2>. QED
    BY <2>4
<1>. DEFINE far == Len(a) + Len(b)
<1>3. far \in Nat /\ \A x \in Xs, y \in Ys : Far(a, b, x, y) <= far
  BY DEF Far
<1>4. far \in S
  <2>. HIDE DEF S
  <2>1. \A n \in Nat : n \in S
    BY <1>1, <1>2, SetInduction
  <2>. QED
    BY <1>3, <2>1
<1>5. PICK f : Upto(f, far)
  BY <1>4
<1>. DEFINE g == [p \in Xs \X Ys |-> f[p]]
<1>6. ASSUME NEW x \in Xs, NEW y \in Ys
      PROVE  g[<<x, y>>] = Cell(a, b, g, <<x, y>>)
  <2>1. \A u \in Xs, v \in Ys : g[<<u, v>>] = f[<<u, v>>]
    OBVIOUS
  <2>. HIDE DEF g
  <2>2. Cell(a, b, g, <<x, y>>) = Cell(a, b, f, <<x, y>>)
    BY <2>1, CellAgrees
  <2>. QED
    BY <1>3, <1>5, <2>1, <2>2
<1>7. g = [p \in Xs \X Ys |-> Cell(a, b, g, p)]
  <2>1. \A p \in Xs \X Ys : g[p] = Cell(a, b, g, p)
    <3>1. \A p \in Xs \X Ys : p = <<p[1], p[2]>> /\ p[1] \in Xs /\ p[2] \in Ys
      OBVIOUS
    <3>. HIDE DEF g
    <3>. QED
      BY <1>6, <3>1
  <2>2. g = [p \in Xs \X Ys |-> g[p]]
    OBVIOUS
  <2>. HIDE DEF g
  <2>. QED
    BY <2>1, <2>2
<1>. QED
  BY <1>7 DEF Table

\* What the cells of the table say: nothing is in common when a run is used up, an equal
\* decision counts, and else the longer of the two rests does.
LEMMA CommonCells ==
  ASSUME NEW a \in Seq(Decisions), NEW b \in Seq(Decisions),
         NEW x \in 1 .. Len(a) + 1, NEW y \in 1 .. Len(b) + 1
  PROVE  /\ CommonLength(a, b)[<<x, y>>] \in Nat
         /\ CommonLength(a, b)[<<x, y>>] = Cell(a, b, CommonLength(a, b), <<x, y>>)
<1>. DEFINE Xs == 1 .. Len(a) + 1
            Ys == 1 .. Len(b) + 1
            f == CommonLength(a, b)
<1>1. Table(a, b, f)
  <2>1. CommonLength(a, b) = CHOOSE g : Table(a, b, g)
    BY DEF CommonLength, Table, Cell
  <2>. HIDE DEF Table
  <2>. QED
    BY <2>1, TableExists
<1>2. \A u \in Xs, v \in Ys : f[<<u, v>>] = Cell(a, b, f, <<u, v>>)
  <2>1. f = [p \in Xs \X Ys |-> Cell(a, b, f, p)]
    BY <1>1 DEF Table
  <2>. HIDE DEF f
  <2>2. \A p \in Xs \X Ys : f[p] = Cell(a, b, f, p)
    BY <2>1
  <2>. QED
    BY <2>2
<1>. HIDE DEF f
<1>. DEFINE S == {n \in Nat : \A u \in Xs, v \in Ys : Far(a, b, u, v) <= n => f[<<u, v>>] \in Nat}
<1>3. 0 \in S
  <2>1. ASSUME NEW u \in Xs, NEW v \in Ys, Far(a, b, u, v) <= 0
        PROVE  f[<<u, v>>] \in Nat
    <3>1. u > Len(a)
      BY <2>1 DEF Far
    <3>2. f[<<u, v>>] = Cell(a, b, f, <<u, v>>)
      BY <1>2
    <3>. QED
      BY <3>1, <3>2 DEF Cell
  <2>. QED
    BY <2>1
<1>4. ASSUME NEW n \in Nat, n \in S
      PROVE  n + 1 \in S
  <2>1. ASSUME NEW u \in Xs, NEW v \in Ys, Far(a, b, u, v) <= n + 1
        PROVE  f[<<u, v>>] \in Nat
    <3>0. f[<<u, v>>] = Cell(a, b, f, <<u, v>>)
      BY <1>2
    <3>1. CASE u > Len(a) \/ v > Len(b)
      BY <3>0, <3>1 DEF Cell
    <3>2. CASE ~(u > Len(a) \/ v > Len(b))
      <4>1. /\ u + 1 \in Xs /\ v + 1 \in Ys
            /\ Far(a, b, u + 1, v + 1) <= n
            /\ Far(a, b, u + 1, v) <= n
            /\ Far(a, b, u, v + 1) <= n
        BY <2>1, <3>2 DEF Far
      <4>2. f[<<u + 1, v + 1>>] \in Nat /\ f[<<u + 1, v>>] \in Nat /\ f[<<u, v + 1>>] \in Nat
        BY <1>4, <4>1
      <4>. QED
        BY <3>0, <4>2 DEF Cell
    <3>. QED
      BY <3>1, <3>2
  <2>. QED
    BY <2>1
<1>5. f[<<x, y>>] \in Nat
  <2>. DEFINE far == Far(a, b, x, y)
  <2>1. far \in Nat /\ far <= far
    BY DEF Far
  <2>2. \A n \in Nat : n \in S
    <3>. HIDE DEF S
    <3>. QED
      BY <1>3, <1>4, SetInduction
  <2>3. far \in S
    BY <2>1, <2>2
  <2>. QED
    BY <2>1, <2>3
<1>. QED
  BY <1>2, <1>5 DEF f

\* No common subsequence of the rests from x and y on is longer than the cell says.
LEMMA CommonBounds ==
  ASSUME NEW a \in Seq(Decisions), NEW b \in Seq(Decisions)
  PROVE  \A x \in 1 .. Len(a) + 1, y \in 1 .. Len(b) + 1 :
           \A I \in SUBSET (x .. Len(a)), J \in SUBSET (y .. Len(b)) :
             At(a, I) = At(b, J) => Cardinality(I) <= CommonLength(a, b)[<<x, y>>]
<1>. DEFINE Xs == 1 .. Len(a) + 1
            Ys == 1 .. Len(b) + 1
            f == CommonLength(a, b)
            Bound(x, y) == \A I \in SUBSET (x .. Len(a)), J \in SUBSET (y .. Len(b)) :
                             At(a, I) = At(b, J) => Cardinality(I) <= f[<<x, y>>]
            S == {n \in Nat : \A x \in Xs, y \in Ys : Far(a, b, x, y) < n => Bound(x, y)}
<1>0. Len(a) \in Nat /\ Len(b) \in Nat
      /\ (\A n \in 1 .. Len(a) : a[n] \in Decisions) /\ (\A n \in 1 .. Len(b) : b[n] \in Decisions)
  OBVIOUS
<1>1. \A x \in Xs, y \in Ys : f[<<x, y>>] \in Nat /\ f[<<x, y>>] = Cell(a, b, f, <<x, y>>)
  BY CommonCells
<1>. HIDE DEF f
<1>2. 0 \in S
  <2>1. \A x \in Xs, y \in Ys : ~(Far(a, b, x, y) < 0)
    BY DEF Far
  <2>. HIDE DEF Bound
  <2>. QED
    BY <2>1
<1>3. ASSUME NEW n \in Nat, n \in S
      PROVE  n + 1 \in S
  <2>1. ASSUME NEW x \in Xs, NEW y \in Ys, Far(a, b, x, y) < n + 1,
               NEW I \in SUBSET (x .. Len(a)), NEW J \in SUBSET (y .. Len(b)), At(a, I) = At(b, J)
        PROVE  Cardinality(I) <= f[<<x, y>>]
    <3>. DEFINE la == Len(a)
                lb == Len(b)
    <3>0. (\A q \in x .. la : q \in 1 .. la) /\ (\A q \in y .. lb : q \in 1 .. lb)
      OBVIOUS
    <3>1. /\ la \in Nat /\ I \in SUBSET (1 .. la) /\ \A q \in I : a[q] \in Decisions
      BY <1>0, <3>0
    <3>2. /\ lb \in Nat /\ J \in SUBSET (1 .. lb) /\ \A q \in J : b[q] \in Decisions
      BY <1>0, <3>0
    <3>. HIDE DEF la, lb
    <3>6. Len(At(a, I)) = Cardinality(I) /\ Cardinality(I) \in Nat
      BY <3>1, AtTyped, Finite
    <3>7. Len(At(b, J)) = Cardinality(J)
      BY <3>2, AtTyped, ZenonT(60)
    <3>8. Cardinality(I) = Cardinality(J)
      BY <2>1, <3>6, <3>7
    <3>3. f[<<x, y>>] \in Nat /\ f[<<x, y>>] = Cell(a, b, f, <<x, y>>)
      BY <1>1
    <3>4. CASE I = {} \/ J = {}
      <4>1. Cardinality(I) = 0
        BY <3>8, <3>4, FS_EmptySet
      <4>. QED
        BY <3>3, <4>1
    <3>5. CASE I # {} /\ J # {}
      <4>1. I \subseteq Nat /\ J \subseteq Nat
        BY <3>1, <3>2
      <4>2. PICK p \in I : \A q \in I : p <= q
        BY <3>5, <4>1, LeastNatural
      <4>3. PICK r \in J : \A q \in J : r <= q
        BY <3>5, <4>1, LeastNatural
      <4>4. /\ Head(At(a, I)) = a[p] /\ At(a, I \ {p}) = Tail(At(a, I))
            /\ Cardinality(I) = Cardinality(I \ {p}) + 1
        BY <3>1, <4>2, AtTail
      <4>5. Head(At(b, J)) = b[r] /\ At(b, J \ {r}) = Tail(At(b, J))
        BY <3>2, <4>3, AtTail
      <4>6. a[p] = b[r] /\ At(a, I \ {p}) = At(b, J \ {r})
        BY <2>1, <4>4, <4>5
      <4>7. /\ x <= p /\ p <= Len(a) /\ y <= r /\ r <= Len(b) /\ p \in Nat /\ r \in Nat
            /\ x \in Nat /\ y \in Nat
        BY <1>0, <2>1, <4>2, <4>3
      <4>8. /\ ~(x > Len(a) \/ y > Len(b))
            /\ x + 1 \in Xs /\ y + 1 \in Ys
            /\ Far(a, b, x + 1, y + 1) < n /\ Far(a, b, x + 1, y) < n /\ Far(a, b, x, y + 1) < n
        BY <1>0, <2>1, <4>7 DEF Far
      <4>9. Bound(x + 1, y + 1) /\ Bound(x + 1, y) /\ Bound(x, y + 1)
        <5>. HIDE DEF Bound
        <5>. QED
          BY <1>3, <4>8
      <4>10. /\ f[<<x + 1, y + 1>>] \in Nat /\ f[<<x + 1, y>>] \in Nat /\ f[<<x, y + 1>>] \in Nat
        BY <1>1, <4>8
      <4>12. I \ {p} \in SUBSET (1 .. la) /\ la \in Nat
        BY <3>1
      <4>11. CASE a[x] = b[y]
        <5>1. I \ {p} \in SUBSET (x + 1 .. Len(a)) /\ J \ {r} \in SUBSET (y + 1 .. Len(b))
          BY <1>0, <4>2, <4>3, <4>7
        <5>2. Cardinality(I \ {p}) <= f[<<x + 1, y + 1>>]
          BY <4>6, <4>9, <5>1
        <5>3. f[<<x, y>>] = 1 + f[<<x + 1, y + 1>>]
          BY <3>3, <4>8, <4>11 DEF Cell
        <5>4. Cardinality(I \ {p}) \in Nat
          BY <4>12, Finite
        <5>. QED
          BY <4>4, <4>10, <5>2, <5>3, <5>4
      <4>13. CASE a[x] # b[y]
        <5>1. f[<<x + 1, y>>] <= f[<<x, y>>] /\ f[<<x, y + 1>>] <= f[<<x, y>>]
          BY <3>3, <4>8, <4>10, <4>13 DEF Cell
        <5>2. CASE p # x
          <6>1. I \in SUBSET (x + 1 .. Len(a))
            BY <1>0, <4>2, <4>7, <5>2
          <6>2. Cardinality(I) <= f[<<x + 1, y>>]
            BY <2>1, <4>9, <6>1
          <6>. QED
            BY <3>6, <3>3, <4>10, <5>1, <6>2
        <5>3. CASE r # y
          <6>1. J \in SUBSET (y + 1 .. Len(b))
            BY <1>0, <4>3, <4>7, <5>3
          <6>2. Cardinality(I) <= f[<<x, y + 1>>]
            BY <2>1, <4>9, <6>1
          <6>. QED
            BY <3>6, <3>3, <4>10, <5>1, <6>2
        <5>. QED
          BY <4>6, <4>13, <5>2, <5>3
      <4>. QED
        BY <4>11, <4>13
    <3>. QED
      BY <3>4, <3>5
  <2>. QED
    BY <2>1
<1>4. ASSUME NEW x \in Xs, NEW y \in Ys
      PROVE  Bound(x, y)
  <2>. DEFINE far == Far(a, b, x, y) + 1
  <2>1. far \in Nat /\ Far(a, b, x, y) < far
    BY DEF Far
  <2>2. \A n \in Nat : n \in S
    <3>. HIDE DEF S
    <3>. QED
      BY <1>2, <1>3, SetInduction
  <2>3. far \in S
    BY <2>1, <2>2
  <2>. HIDE DEF Bound
  <2>. QED
    BY <2>1, <2>3
<1>. QED
  BY <1>4 DEF f

\* What is taken as common and what the table promises of the rests is what it promised.
Count ==
  Len(Kept(ops, {"same"}, Len(ops))) + Common[<<i, j>>] = Common[<<1, 1>>]

LEMMA KeptTyped ==
  ASSUME NEW os \in Seq(Op), NEW types
  PROVE  Kept(os, types, Len(os)) \in Seq(Decisions)
<1>. DEFINE I == {n \in 1 .. Len(os) : os[n].t \in types}
            d == [n \in 1 .. Len(os) |-> os[n].d]
            m == Len(os)
<1>1. \A n \in 1 .. Len(os) : d[n] \in Decisions
  <2>1. \A n \in 1 .. Len(os) : os[n] \in Op
    OBVIOUS
  <2>2. \A o \in Op : o.d \in Decisions
    BY DEF Op
  <2>. QED
    BY <2>1, <2>2
<1>2. m \in Nat /\ I \in SUBSET (1 .. m) /\ \A n \in I : d[n] \in Decisions
  BY <1>1
<1>3. Kept(os, types, Len(os)) = At(d, I)
  BY DEF Kept
<1>. HIDE DEF I, d, m
<1>. QED
  BY <1>2, <1>3, AtTyped

LEMMA CountStep ==
  ASSUME CompareInv, Count, Same \/ Del \/ Ins
  PROVE  Count'
<1>. DEFINE c(x, y) == Common[<<x, y>>]
            same == Kept(ops, {"same"}, Len(ops))
            more == Kept(ops', {"same"}, Len(ops'))
<1>0. /\ runA \in Seq(Decisions) /\ runB \in Seq(Decisions)
      /\ i \in 1 .. Len(runA) + 1 /\ j \in 1 .. Len(runB) + 1
      /\ ops \in Seq(Op)
  BY DEF CompareInv, TypeOK
<1>1. Common' = Common
  <2>1. runA' = runA /\ runB' = runB
    BY DEF Same, Del, Ins
  <2>. QED
    BY <2>1 DEF Common
<1>2. ASSUME NEW x \in 1 .. Len(runA) + 1, NEW y \in 1 .. Len(runB) + 1
      PROVE  /\ c(x, y) \in Nat
             /\ x > Len(runA) \/ y > Len(runB) => c(x, y) = 0
             /\ x <= Len(runA) /\ y <= Len(runB) =>
                  IF runA[x] = runB[y] THEN c(x, y) = 1 + c(x + 1, y + 1)
                  ELSE IF c(x + 1, y) >= c(x, y + 1) THEN c(x, y) = c(x + 1, y)
                  ELSE c(x, y) = c(x, y + 1)
  <2>. DEFINE f == CommonLength(runA, runB)
  <2>1. f[<<x, y>>] \in Nat /\ f[<<x, y>>] = Cell(runA, runB, f, <<x, y>>)
    BY <1>0, CommonCells
  <2>. HIDE DEF f
  <2>2. \A u, v : c(u, v) = f[<<u, v>>]
    BY DEF Common, f
  <2>. HIDE DEF c
  <2>. QED
    BY <1>0, <2>1, <2>2 DEF Cell
<1>3. same \in Seq(Decisions)
  BY <1>0, KeptTyped
<1>. DEFINE op(type, decision) == [t |-> type, d |-> decision]
<1>4. ASSUME NEW type \in {"same", "del", "ins"}, NEW d \in Decisions,
             ops' = Append(ops, op(type, d))
      PROVE  Len(more) = IF type = "same" THEN Len(same) + 1 ELSE Len(same)
  <2>1. op(type, d) \in Op /\ op(type, d).t = type /\ op(type, d).d = d
    BY DEF Op
  <2>. HIDE DEF op
  <2>. DEFINE o == op(type, d)
  <2>2. o \in Op /\ o.t = type /\ o.d = d /\ ops' = Append(ops, o)
    BY <1>4, <2>1
  <2>. HIDE DEF o
  <2>4. Kept(ops', {"same"}, Len(ops')) = IF o.t \in {"same"} THEN Append(same, o.d) ELSE same
    BY <1>0, <2>2, KeptAppend
  <2>. HIDE DEF same, more
  <2>5. CASE type = "same"
    BY <1>3, <2>2, <2>4, <2>5 DEF more
  <2>6. CASE type # "same"
    BY <1>3, <2>2, <2>4, <2>6 DEF more
  <2>. QED
    BY <2>5, <2>6
<1>5. Count <=> Len(same) + c(i, j) = c(1, 1)
  BY DEF Count
<1>6. Count' <=> Len(more) + c(i', j') = c(1, 1)
  BY <1>1 DEF Count
<1>. HIDE DEF c, same, more
<1>7. Len(same) \in Nat /\ c(i, j) \in Nat /\ c(1, 1) \in Nat
  <2>1. 1 \in 1 .. Len(runA) + 1 /\ 1 \in 1 .. Len(runB) + 1
    BY <1>0
  <2>. QED
    BY <1>0, <1>2, <1>3, <2>1
<1>8. CASE Same
  <2>1. /\ i <= Len(runA) /\ j <= Len(runB) /\ runA[i] = runB[j] /\ runA[i] \in Decisions
        /\ ops' = Append(ops, op("same", runA[i])) /\ i' = i + 1 /\ j' = j + 1
    BY <1>0, <1>8 DEF Same, Both
  <2>2. c(i, j) = 1 + c(i + 1, j + 1) /\ c(i + 1, j + 1) \in Nat
    <3>1. i + 1 \in 1 .. Len(runA) + 1 /\ j + 1 \in 1 .. Len(runB) + 1
      BY <1>0, <2>1
    <3>2. c(i + 1, j + 1) \in Nat
      BY <1>2, <3>1
    <3>. QED
      BY <1>0, <1>2, <2>1, <3>2
  <2>3. Len(more) = Len(same) + 1
    BY <1>4, <2>1
  <2>. QED
    BY <1>5, <1>6, <1>7, <2>1, <2>2, <2>3
<1>9. CASE Del
  <2>1. /\ i <= Len(runA) /\ runA[i] \in Decisions
        /\ ops' = Append(ops, op("del", runA[i])) /\ i' = i + 1 /\ j' = j
        /\ j <= Len(runB) => runA[i] # runB[j] /\ Common[<<i + 1, j>>] >= Common[<<i, j + 1>>]
    BY <1>0, <1>9 DEF Del, MayDelete, Both, DelFirst
  <2>2. c(i + 1, j) = c(i, j)
    <3>1. CASE j <= Len(runB)
      <4>1. c(i + 1, j) >= c(i, j + 1)
        BY <2>1, <3>1 DEF c
      <4>. QED
        BY <1>0, <1>2, <2>1, <3>1, <4>1
    <3>2. CASE ~(j <= Len(runB))
      <4>1. i + 1 \in 1 .. Len(runA) + 1 /\ j > Len(runB)
        BY <1>0, <2>1, <3>2
      <4>2. c(i, j) = 0
        BY <1>0, <1>2, <4>1
      <4>3. c(i + 1, j) = 0
        BY <1>0, <1>2, <4>1
      <4>. QED
        BY <4>2, <4>3
    <3>. QED
      BY <3>1, <3>2
  <2>3. Len(more) = Len(same)
    BY <1>4, <2>1
  <2>. QED
    BY <1>5, <1>6, <2>1, <2>2, <2>3
<1>10. CASE Ins
  <2>1. /\ j <= Len(runB) /\ runB[j] \in Decisions
        /\ ops' = Append(ops, op("ins", runB[j])) /\ i' = i /\ j' = j + 1
        /\ i <= Len(runA) => runA[i] # runB[j] /\ ~(Common[<<i + 1, j>>] >= Common[<<i, j + 1>>])
    BY <1>0, <1>10 DEF Ins, Both, DelFirst
  <2>2. c(i, j + 1) = c(i, j)
    <3>1. CASE i <= Len(runA)
      <4>1. ~(c(i + 1, j) >= c(i, j + 1))
        BY <2>1, <3>1 DEF c
      <4>. QED
        BY <1>0, <1>2, <2>1, <3>1, <4>1
    <3>2. CASE ~(i <= Len(runA))
      <4>1. j + 1 \in 1 .. Len(runB) + 1 /\ i > Len(runA)
        BY <1>0, <2>1, <3>2
      <4>2. c(i, j) = 0
        BY <1>0, <1>2, <4>1
      <4>3. c(i, j + 1) = 0
        BY <1>0, <1>2, <4>1
      <4>. QED
        BY <4>2, <4>3
    <3>. QED
      BY <3>1, <3>2
  <2>3. Len(more) = Len(same)
    BY <1>4, <2>1
  <2>. QED
    BY <1>5, <1>6, <2>1, <2>2, <2>3
<1>. QED
  BY <1>8, <1>9, <1>10

LEMMA CountInvariant == Spec => [](CompareInv /\ Count)
<1>1. Init => Count
  <2>1. SUFFICES ASSUME Init PROVE Count
    OBVIOUS
  <2>2. /\ runA \in Seq(Decisions) /\ runB \in Seq(Decisions)
        /\ i = 1 /\ j = 1 /\ ops = <<>>
    BY <2>1, InitTyped DEF Init, CompareInv, TypeOK
  <2>3. {n \in 1 .. Len(ops) : ops[n].t \in {"same"}} = {}
    BY <2>2
  <2>4. Kept(ops, {"same"}, Len(ops)) = <<>>
    BY <2>3, AtNone DEF Kept
  <2>5. Common[<<1, 1>>] \in Nat
    BY <2>2, CommonCells DEF Common
  <2>. QED
    BY <2>2, <2>4, <2>5 DEF Count
<1>2. CompareInv /\ Count /\ [Next]_vars => Count'
  <2>1. ASSUME CompareInv, Count, UNCHANGED <<runA, runB, i, j, ops>>
        PROVE  Count'
    BY <2>1 DEF Count, Common
  <2>. QED
    BY <2>1, CountStep DEF Next, vars, SkipSame, ReportChange, ReportOne
<1>. QED
  BY <1>1, <1>2, CompareInvariant, PTL DEF Spec

\* The runs are aligned on a longest common subsequence, whatever the ties.
THEOREM AlignmentLongest == Spec => []Longest
<1>1. CompareInv /\ Count => Longest
  <2>1. SUFFICES ASSUME CompareInv, Count, Done,
                        NEW I \in SUBSET DOMAIN runA, NEW J \in SUBSET DOMAIN runB,
                        At(runA, I) = At(runB, J)
                 PROVE  Cardinality(I) <= Len(Of({"same"}))
    BY DEF Longest
  <2>2. /\ runA \in Seq(Decisions) /\ runB \in Seq(Decisions)
        /\ i \in 1 .. Len(runA) + 1 /\ j \in 1 .. Len(runB) + 1
        /\ i > Len(runA) /\ j > Len(runB)
        /\ DOMAIN runA = 1 .. Len(runA) /\ DOMAIN runB = 1 .. Len(runB)
    BY <2>1 DEF CompareInv, TypeOK, Done, Aligned
  <2>3. Cardinality(I) <= Common[<<1, 1>>]
    <3>1. 1 \in 1 .. Len(runA) + 1 /\ 1 \in 1 .. Len(runB) + 1
      BY <2>2
    <3>. QED
      BY <2>1, <2>2, <3>1, CommonBounds DEF Common
  <2>4. Common[<<i, j>>] = 0
    <3>1. Common[<<i, j>>] = Cell(runA, runB, Common, <<i, j>>)
      BY <2>2, CommonCells DEF Common
    <3>. QED
      BY <2>2, <3>1 DEF Cell
  <2>5. Of({"same"}) = Kept(ops, {"same"}, Len(ops))
    BY DEF Of, Kept
  <2>6. Common[<<1, 1>>] \in Nat
    <3>1. 1 \in 1 .. Len(runA) + 1 /\ 1 \in 1 .. Len(runB) + 1
      BY <2>2
    <3>. QED
      BY <2>2, <3>1, CommonCells DEF Common
  <2>7. Len(Kept(ops, {"same"}, Len(ops))) = Common[<<1, 1>>]
    <3>. DEFINE n == Len(Kept(ops, {"same"}, Len(ops)))
    <3>1. n + 0 = Common[<<1, 1>>]
      BY <2>1, <2>4 DEF Count
    <3>2. n \in Nat
      <4>1. ops \in Seq(Op)
        BY <2>1 DEF CompareInv, TypeOK
      <4>. QED
        BY <4>1, KeptTyped
    <3>. QED
      BY <3>1, <3>2
  <2>. QED
    BY <2>3, <2>5, <2>7
<1>. QED
  BY <1>1, CountInvariant, PTL
=============================================================================
