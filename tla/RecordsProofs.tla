--------------------------- MODULE RecordsProofs ---------------------------
(***************************************************************************)
(* Proofs about Records, for any number of windows, runs and LLM calls: the *)
(* two token counts of an exactly counted run agree, and a write that is    *)
(* cut short costs at most one whole record; what is ticked is compared,    *)
(* because a window never lists a run twice nor ticks more than two.        *)
(*                                                                         *)
(* For the second, Lost is compared with the writes that were cut short,    *)
(* one of which is still to be paid for as long as the file does not end    *)
(* with a newline: the next whole record is glued to what is there.  That   *)
(* only this record is lost needs Fresh: the record on the last line is not *)
(* one that was written whole.                                              *)
(***************************************************************************)
EXTENDS Records, SubsequenceProofs

Line == Runs \cup {Junk}

FileTyped ==
  /\ run \in [Windows -> Runs \cup {None}] /\ last \in 0 .. MaxRuns
  /\ lines \in Seq(Line) /\ tail \in Seq(Line)
  /\ written \in SUBSET Runs /\ cuts \in Nat

\* Runs are numbered as they start; neither a run under way nor the record on the last
\* line has been written whole.
Fresh ==
  /\ \A w \in Windows : run[w] # None => run[w] <= last /\ run[w] \notin written \cup Range(tail)
  /\ \A v, w \in Windows : run[v] = run[w] /\ run[v] # None => v = w
  /\ \A r \in written \cup Range(tail) : r <= last
  /\ Range(tail) \cap written = {}

Lost == written \ Range(lines)
Unpaid == IF tail = <<>> THEN 0 ELSE 1
Paid == Cardinality(Lost) + Unpaid <= cuts

FileInv == FileTyped /\ Fresh /\ Paid

-----------------------------------------------------------------------------
\* What was written is a finite set, so what is lost of it can be counted.
LEMMA FiniteLoss ==
  ASSUME NEW S \in SUBSET Runs
  PROVE  IsFiniteSet(S) /\ Cardinality(S) \in Nat
<1>1. IsFiniteSet(Runs)
  <2>1. 1 \in Int /\ MaxRuns \in Int
    BY RecordsAssumption
  <2> QED BY <2>1, FS_Interval DEF Runs
<1> QED BY <1>1, FS_Subset, FS_CardinalityType

\* A new last line joins the lines that can be read.
LEMMA RangeOfAppend ==
  ASSUME NEW s \in Seq(Line), NEW x \in Line
  PROVE  Range(Append(s, x)) = Range(s) \cup {x}
<1> DEFINE t == Append(s, x)
<1>1. /\ DOMAIN t = DOMAIN s \cup {Len(s) + 1} /\ t[Len(s) + 1] = x
      /\ \A n \in DOMAIN s : t[n] = s[n]
  OBVIOUS
<1> HIDE DEF t
<1>2. Range(t) = Range(s) \cup {x}
  BY <1>1 DEF Range
<1> QED BY <1>2 DEF t

\* A line stays where it is whatever follows it.
LEMMA RangeOfConcat ==
  ASSUME NEW s \in Seq(Line), NEW t \in Seq(Line)
  PROVE  Range(s) \subseteq Range(s \o t)
<1>1. \A n \in 1 .. Len(s) : n \in DOMAIN (s \o t) /\ (s \o t)[n] = s[n]
  OBVIOUS
<1> QED BY <1>1 DEF Range

\* The three things that become of a record when its run finishes.
LEMMA FileStep ==
  ASSUME FileInv, NEW r \in Runs, r \notin written \cup Range(tail), r <= last,
         Appended(r) \/ CutShort(r) \/ UNCHANGED fileVars
  PROVE  /\ lines' \in Seq(Line) /\ tail' \in Seq(Line) /\ written' \in SUBSET Runs /\ cuts' \in Nat
         /\ Range(tail') \cap written' = {}
         /\ \A x \in written' \cup Range(tail') : x <= last /\ (x = r \/ x = Junk \/ x \in written \cup Range(tail))
         /\ Paid'
<1> USE DEF FileInv
<1>1. CASE Appended(r) /\ tail = <<>>
  <2>1. lines' = Append(lines, r) /\ tail' = <<>> /\ written' = written \cup {r} /\ cuts' = cuts
    BY <1>1 DEF Appended
  <2>2. Lost' \subseteq Lost /\ Lost \in SUBSET Runs
    BY <2>1, RangeOfAppend, ZenonT(60) DEF Lost, FileTyped, Line
  <2>3. Cardinality(Lost') <= Cardinality(Lost)
    BY <2>2, FiniteLoss, FS_Subset
  <2>4. Range(tail') = {}
    BY <2>1 DEF Range
  <2>5. Paid'
    BY <2>1, <2>2, <2>3, <1>1, FiniteLoss DEF Paid, Unpaid, FileTyped
  <2> QED BY <2>1, <2>4, <2>5 DEF FileTyped, Fresh, Line
<1>2. CASE Appended(r) /\ tail # <<>>
  <2>1. lines' = Append(lines, Junk) /\ tail' = <<>> /\ written' = written \cup {r} /\ cuts' = cuts
    BY <1>2 DEF Appended
  <2>2. Lost' \subseteq Lost \cup {r} /\ Lost \in SUBSET Runs /\ Lost \cup {r} \in SUBSET Runs
    BY <2>1, RangeOfAppend DEF Lost, FileTyped, Line
  <2>3. Cardinality(Lost \cup {r}) <= Cardinality(Lost) + 1
    BY <2>2, FiniteLoss, FS_AddElement
  <2>4. Cardinality(Lost') <= Cardinality(Lost \cup {r})
    BY <2>2, FiniteLoss, FS_Subset
  <2>5. Range(tail') = {}
    BY <2>1 DEF Range
  <2>6. Lost' \in SUBSET Runs
    BY <2>2
  <2>7. Paid'
    BY <2>1, <2>2, <2>3, <2>4, <2>6, <1>2, FiniteLoss DEF Paid, Unpaid, FileTyped
  <2> QED BY <2>1, <2>5, <2>7 DEF FileTyped, Fresh, Line
<1>3. CASE CutShort(r)
  <2>1. /\ lines' = lines /\ written' = written /\ cuts' = cuts + 1
        /\ tail' = <<Junk>> \/ tail' = <<r>>
    BY <1>3 DEF CutShort
  <2>2. \E x \in {Junk, r} : Range(tail') = {x} /\ tail' \in Seq(Line) /\ tail' # <<>>
    <3>1. ASSUME NEW x \in Line, tail' = <<x>>
          PROVE  Range(tail') = {x} /\ tail' \in Seq(Line) /\ tail' # <<>>
      <4>1. DOMAIN tail' = {1} /\ tail'[1] = x
        BY <3>1
      <4> QED BY <3>1, <4>1 DEF Range
    <3> QED BY <2>1, <3>1 DEF Line
  <2>3. Lost' = Lost /\ Lost \in SUBSET Runs
    BY <2>1 DEF Lost, FileTyped
  <2>4. Paid'
    BY <2>1, <2>2, <2>3, FiniteLoss DEF Paid, Unpaid, FileTyped
  <2>5. Junk \notin Runs /\ Junk <= last
    BY RecordsAssumption DEF FileTyped, Runs, Junk
  <2> QED BY <2>1, <2>2, <2>4, <2>5 DEF FileTyped, Fresh
<1>4. CASE UNCHANGED fileVars
  BY <1>4 DEF fileVars, FileTyped, Fresh, Paid, Lost, Unpaid
<1> QED BY <1>1, <1>2, <1>3, <1>4

\* The beginning: an empty file and no run.
LEMMA FileInit == Init => FileInv
<1> SUFFICES ASSUME Init PROVE FileInv
  OBVIOUS
<1>1. Range(tail) = {} /\ Lost = {}
  BY DEF Init, Range, Lost
<1>2. Cardinality(Lost) = 0
  BY <1>1, FS_EmptySet
<1>3. FileTyped
  BY RecordsAssumption DEF Init, FileTyped, Line
<1>4. Fresh /\ Paid
  BY <1>1, <1>2, <1>3 DEF Init, Fresh, Paid, Unpaid
<1> QED BY <1>3, <1>4 DEF FileInv

\* Only a run that finishes touches the file, and runs are numbered upwards.
LEMMA FileKept ==
  ASSUME FileInv, [Next]_vars
  PROVE  FileInv'
<1> DEFINE Quiet == UNCHANGED <<fileVars, last>> /\ \A w \in Windows : run'[w] \in {run[w], None}
<1>1. ASSUME Quiet, run' \in [Windows -> Runs \cup {None}] PROVE FileInv'
  <2>1. FileTyped' /\ Paid'
    BY <1>1 DEF FileInv, FileTyped, Paid, Lost, Unpaid, fileVars
  <2>2. Fresh'
    BY <1>1 DEF FileInv, Fresh, fileVars
  <2> QED BY <2>1, <2>2 DEF FileInv
<1>2. ASSUME NEW w \in Windows, RunStarts(w) PROVE FileInv'
  <2>1. last' = last + 1 /\ run' = [run EXCEPT ![w] = last'] /\ last < MaxRuns /\ UNCHANGED fileVars
    BY <1>2 DEF RunStarts
  <2>2. last' \in Runs /\ last' \in 0 .. MaxRuns
    BY <2>1, RecordsAssumption DEF FileInv, FileTyped, Runs
  <2>3. FileTyped' /\ Paid'
    BY <2>1, <2>2 DEF FileInv, FileTyped, Paid, Lost, Unpaid, fileVars
  <2>4. \A r \in written \cup Range(tail) : r \in Nat /\ r < last'
    <3>1. Range(tail) \subseteq Line
      BY DEF FileInv, FileTyped, Range
    <3> QED BY <2>1, <3>1, RecordsAssumption DEF FileInv, FileTyped, Fresh, Runs, Line, Junk
  <2>5. Fresh'
    BY <2>1, <2>2, <2>4, RecordsAssumption DEF FileInv, FileTyped, Fresh, Runs, None, fileVars
  <2> QED BY <2>3, <2>5 DEF FileInv
<1>3. ASSUME NEW w \in Windows, RunFinishes(w) PROVE FileInv'
  <2>1. /\ run[w] # None /\ run' = [run EXCEPT ![w] = None] /\ last' = last
        /\ Appended(run[w]) \/ CutShort(run[w]) \/ UNCHANGED fileVars
    BY <1>3 DEF RunFinishes
  <2>2. run[w] \in Runs /\ run[w] \notin written \cup Range(tail) /\ run[w] <= last
    BY <2>1 DEF FileInv, FileTyped, Fresh
  <2>3. FileTyped' /\ Paid'
    BY <2>1, <2>2, FileStep DEF FileInv, FileTyped
  <2>4. Fresh'
    <3>1. \A x \in written' \cup Range(tail') :
            x <= last /\ (x = run[w] \/ x = Junk \/ x \in written \cup Range(tail))
      BY <2>1, <2>2, FileStep
    <3>2. Range(tail') \cap written' = {}
      BY <2>1, <2>2, FileStep
    <3> QED BY <2>1, <3>1, <3>2 DEF FileInv, FileTyped, Fresh, None, Junk
  <2> QED BY <2>3, <2>4 DEF FileInv
<1>4. ASSUME NEW w \in Windows, RunFails(w) \/ SessionStarts(w) \/ PanelOpens(w) PROVE FileInv'
  BY <1>1, <1>4 DEF RunFails, SessionStarts, PanelOpens, FileInv, FileTyped
<1>5. ASSUME NEW w \in Windows,
             SessionOpens(w) \/ LeavesTab(w) \/ \E r \in Runs : Ticks(w, r)
      PROVE  FileInv'
  BY <1>1, <1>5 DEF SessionOpens, LeavesTab, Ticks, runVars, FileInv, FileTyped
<1>6. ASSUME NEW c \in LlmCalls, CallStarts(c) \/ \E usage \in BOOLEAN : CallEnds(c, usage)
      PROVE  FileInv'
  BY <1>1, <1>6 DEF CallStarts, CallEnds, FileInv, FileTyped
<1>7. CASE UNCHANGED vars
  BY <1>1, <1>7 DEF vars, runVars, FileInv, FileTyped
<1> QED BY <1>2, <1>3, <1>4, <1>5, <1>6, <1>7 DEF Next

\* LossBounded: a write that is cut short costs at most one whole record.
THEOREM CutsCostOne == Spec => []LossBounded
<1>1. FileInv => LossBounded
  <2> SUFFICES ASSUME FileInv PROVE LossBounded
    OBVIOUS
  <2>1. written \ Range(lines \o tail) \subseteq Lost /\ Lost \in SUBSET Runs
    BY RangeOfConcat DEF Lost, FileInv, FileTyped
  <2>2. /\ Cardinality(written \ Range(lines \o tail)) <= Cardinality(Lost)
        /\ Cardinality(Lost) \in Nat /\ Cardinality(written \ Range(lines \o tail)) \in Nat
    BY <2>1, FiniteLoss, FS_Subset
  <2> QED BY <2>2 DEF FileInv, FileTyped, Paid, Unpaid, LossBounded
<1> QED BY <1>1, FileInit, FileKept, PTL DEF Spec

-----------------------------------------------------------------------------
\* ExactRunsAgree: the panel and the recorder count a run alike if its calls named their
\* nodes and their usage, however they overlap.
THEOREM CountsAgree == Spec => []ExactRunsAgree
<1>1. Init => ExactRunsAgree
  BY DEF Init, ExactRunsAgree
<1>2. ASSUME ExactRunsAgree, [Next]_vars PROVE ExactRunsAgree'
  <2>1. CASE UNCHANGED <<tally, counted, exact>>
    BY <1>2, <2>1 DEF ExactRunsAgree
  <2>2. CASE \E c \in LlmCalls, usage \in BOOLEAN : CallEnds(c, usage)
    BY <1>2, <2>2 DEF ExactRunsAgree, CallEnds, PanelPrompt, RecordedPrompt
  <2>3. ASSUME NEW w \in Windows, RunStarts(w) PROVE ExactRunsAgree' \/ UNCHANGED <<tally, counted, exact>>
    BY <2>3 DEF RunStarts, ExactRunsAgree, callVars
  <2>4. ASSUME NEW w \in Windows,
               RunFinishes(w) \/ RunFails(w) \/ SessionStarts(w) \/ PanelOpens(w) \/ SessionOpens(w)
               \/ LeavesTab(w)
               \/ \E r \in Runs : Ticks(w, r)
        PROVE  UNCHANGED <<tally, counted, exact>>
    BY <2>4 DEF RunFinishes, RunFails, SessionStarts, PanelOpens, SessionOpens, LeavesTab, Ticks, runVars, callVars
  <2>5. ASSUME NEW c \in LlmCalls, CallStarts(c) PROVE UNCHANGED <<tally, counted, exact>>
    BY <2>5 DEF CallStarts
  <2>6. UNCHANGED vars => UNCHANGED <<tally, counted, exact>>
    BY DEF vars, runVars, callVars
  <2> QED BY <1>2, <2>1, <2>2, <2>3, <2>4, <2>5, <2>6 DEF Next
<1> QED BY <1>1, <1>2, PTL DEF Spec

-----------------------------------------------------------------------------
\* At most two runs are ticked, none of them twice.
Selection(s) ==
  /\ s \in Seq(Runs) /\ Len(s) <= 2
  /\ \A m, n \in 1 .. Len(s) : s[m] = s[n] => m = n

Selected == ticked \in [Windows -> {s \in Seq(Runs) : Selection(s)}]

\* A set of at most one element does not have two.
LEMMA AtMostOne ==
  ASSUME NEW S, \E x : S \subseteq {x}
  PROVE  Cardinality(S) # 2
<1>1. PICK x : S \subseteq {x}
  OBVIOUS
<1>2. S = {} \/ S = {x}
  BY <1>1
<1>3. Cardinality({}) = 0 /\ Cardinality({x}) = 1
  BY FS_EmptySet, FS_Singleton
<1>. QED
  BY <1>2, <1>3

LEMMA Toggled ==
  ASSUME NEW s, Selection(s), NEW r \in Runs
  PROVE  Selection(ToggleCompare(s, r))
<1>1. s \in Seq(Runs) /\ Len(s) \in Nat /\ Len(s) <= 2 /\ DOMAIN s = 1 .. Len(s)
  BY DEF Selection
<1>2. CASE r \in Range(s)
  <2>. DEFINE I == {n \in DOMAIN s : s[n] # r}
              m == Len(s)
  <2>1. /\ m \in Nat /\ m <= 2 /\ I \in SUBSET (1 .. m) /\ \A p \in I : s[p] \in Runs
        /\ \A p, q \in I : s[p] = s[q] => p = q
    BY <1>1 DEF Selection
  <2>2. ToggleCompare(s, r) = At(s, I)
    BY <1>2 DEF ToggleCompare, Without
  <2>. HIDE DEF I, m
  <2>3. At(s, I) \in Seq(Runs)
    BY <2>1, AtTyped
  <2>4. /\ Len(At(s, I)) <= m
        /\ \A n, k \in 1 .. Len(At(s, I)) : At(s, I)[n] = At(s, I)[k] => n = k
    BY <2>1, AtDistinct
  <2>. QED
    BY <2>1, <2>2, <2>3, <2>4 DEF Selection
<1>3. CASE r \notin Range(s)
  <2>1. \A n \in 1 .. Len(s) : s[n] # r
    BY <1>1, <1>3 DEF Range
  <2>. DEFINE longer == Append(s, r)
  <2>2. /\ longer \in Seq(Runs) /\ Len(longer) = Len(s) + 1 /\ longer[Len(s) + 1] = r
        /\ \A n \in 1 .. Len(s) : longer[n] = s[n]
    BY <1>1
  <2>3. \A m, n \in 1 .. Len(longer) : longer[m] = longer[n] => m = n
    BY <1>1, <2>1, <2>2 DEF Selection
  <2>. HIDE DEF longer
  <2>4. ToggleCompare(s, r) = IF Len(longer) > 2 THEN Tail(longer) ELSE longer
    BY <1>3 DEF ToggleCompare, longer
  <2>5. CASE Len(longer) > 2
    <3>1. Tail(longer) \in Seq(Runs) /\ Len(Tail(longer)) = 2
          /\ \A n \in 1 .. 2 : Tail(longer)[n] = longer[n + 1]
      BY <1>1, <2>2, <2>5
    <3>2. \A m, n \in 1 .. 2 : Tail(longer)[m] = Tail(longer)[n] => m = n
      BY <1>1, <2>2, <2>3, <2>5, <3>1
    <3>. QED
      BY <2>4, <2>5, <3>1, <3>2 DEF Selection
  <2>6. CASE ~(Len(longer) > 2)
    BY <1>1, <2>2, <2>3, <2>4, <2>6 DEF Selection
  <2>. QED
    BY <2>5, <2>6
<1>. QED
  BY <1>2, <1>3

LEMMA SelectedInvariant == Spec => []Selected
<1>1. Selection(<<>>) /\ <<>> \in Seq(Runs)
  BY DEF Selection
<1>2. Init => Selected
  BY <1>1 DEF Init, Selected
<1>3. ASSUME Selected, [Next]_vars PROVE Selected'
  <2>1. CASE UNCHANGED ticked
    BY <1>3, <2>1 DEF Selected
  <2>2. ASSUME NEW w \in Windows, ticked' = [ticked EXCEPT ![w] = <<>>]
        PROVE  Selected'
    BY <1>1, <1>3, <2>2 DEF Selected
  <2>3. ASSUME NEW w \in Windows, NEW r \in Runs, Ticks(w, r)
        PROVE  Selected'
    <3>1. Selection(ticked[w])
      BY <1>3 DEF Selected
    <3>2. Selection(ToggleCompare(ticked[w], r))
      BY <3>1, Toggled
    <3>3. ToggleCompare(ticked[w], r) \in Seq(Runs)
      BY <3>2 DEF Selection
    <3>. QED
      BY <1>3, <2>3, <3>2, <3>3 DEF Selected, Ticks
  <2>. QED
    BY <1>3, <2>1, <2>2, <2>3 DEF Next, vars, RunStarts, RunFinishes, RunFails, SessionStarts, PanelOpens,
       SessionOpens, LeavesTab, CallStarts, CallEnds
<1>. QED
  BY <1>2, <1>3, PTL DEF Spec

\* ComparedAreTicked: two ticked rows are compared, and only they, whichever runs have been
\* ticked before or have left the list.
THEOREM TickedAreCompared == Spec => []ComparedAreTicked
<1>1. Selected => ComparedAreTicked
  <2>1. SUFFICES ASSUME Selected, NEW w \in Windows
                 PROVE  Compared(w) = IF Cardinality(TickedRows(w)) = 2 THEN TickedRows(w) ELSE {}
    BY DEF ComparedAreTicked
  <2>. DEFINE s == ticked[w]
              L == Range(list[w])
              rows == TickedRows(w)
  <2>2. s \in Seq(Runs) /\ Len(s) \in Nat /\ Len(s) <= 2 /\ DOMAIN s = 1 .. Len(s)
        /\ \A m, n \in 1 .. Len(s) : s[m] = s[n] => m = n
    BY <2>1 DEF Selected, Selection
  <2>3. rows = Range(s) \cap L
    BY DEF TickedRows
  <2>4. Compared(w) = LET two == {s[n] : n \in DOMAIN s \cap {1, 2}} IN
                      IF Len(s) >= 2 /\ two \subseteq L THEN two ELSE {}
    BY DEF Compared
  <2>. HIDE DEF s, L, rows
  <2>5. CASE Len(s) = 2
    <3>1. Range(s) = {s[1], s[2]} /\ s[1] # s[2] /\ {s[n] : n \in DOMAIN s \cap {1, 2}} = {s[1], s[2]}
      <4>1. DOMAIN s = {1, 2}
        BY <2>2, <2>5
      <4>2. s[1] # s[2]
        BY <2>2, <2>5
      <4>. QED
        BY <4>1, <4>2 DEF Range
    <3>2. CASE s[1] \in L /\ s[2] \in L
      <4>1. rows = {s[1], s[2]} /\ Compared(w) = {s[1], s[2]}
        BY <2>3, <2>4, <2>5, <3>1, <3>2
      <4>2. Cardinality({s[1], s[2]}) = 2
        <5>1. {s[1], s[2]} = {s[1]} \cup {s[2]} /\ s[2] \notin {s[1]}
          BY <3>1
        <5>2. IsFiniteSet({s[1]}) /\ Cardinality({s[1]}) = 1
          BY FS_Singleton
        <5>. QED
          BY <5>1, <5>2, FS_AddElement
      <4>. QED
        BY <4>1, <4>2 DEF rows
    <3>3. CASE ~(s[1] \in L /\ s[2] \in L)
      <4>1. Compared(w) = {}
        BY <2>4, <3>1, <3>3
      <4>2. \E x : rows \subseteq {x}
        BY <2>3, <3>1, <3>3
      <4>3. Cardinality(rows) # 2
        BY <4>2, AtMostOne
      <4>. QED
        BY <4>1, <4>3 DEF rows
    <3>. QED
      BY <3>2, <3>3
  <2>6. CASE Len(s) # 2
    <3>1. Compared(w) = {}
      BY <2>2, <2>4, <2>6
    <3>2. \E x : rows \subseteq {x}
      <4>1. Range(s) \subseteq {s[1]}
        BY <2>2, <2>6 DEF Range
      <4>. QED
        BY <2>3, <4>1
    <3>3. Cardinality(rows) # 2
      BY <3>2, AtMostOne
    <3>. QED
      BY <3>1, <3>3 DEF rows
  <2>. QED
    BY <2>5, <2>6
<1>. QED
  BY <1>1, SelectedInvariant, PTL
=============================================================================
