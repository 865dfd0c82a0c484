------------------------------ MODULE Records ------------------------------
(***************************************************************************)
(* Finished runs, from their token counts to the comparison of two of them. *)
(* Each window tallies the LLM calls of its run twice, in the panel         *)
(* (model.ts) and in the recorder (runRecorder.ts); a finished run becomes  *)
(* one line of the project's runs.jsonl (runStore.ts), a file that several  *)
(* windows append to and that a full disk or a crash can cut short; the     *)
(* file is read back (runhistory.ts) after every run and at every start,    *)
(* and its newest records are listed in the panel, where two can be ticked. *)
(***************************************************************************)
EXTENDS Naturals, FiniteSets, SequencesExt, Subsequences

CONSTANTS
  Windows,   \* VS Code windows open on the project
  Watched,   \* the one whose LLM calls are followed, the windows being independent in them
  LlmCalls,  \* the LLM calls of one run
  MaxRuns,   \* bound: runs
  Cap        \* RUNS_CAP

ASSUME RecordsAssumption == Watched \in Windows /\ MaxRuns \in Nat /\ Cap \in Nat \ {0}

Runs == 1 .. MaxRuns
None == 0
Estimated == 1  \* prompt tokens of a call as the worker estimates them
Exact == 2      \* and as the API counts them

VARIABLES
  linked,   \* windows whose session is connected
  run,      \* the run of each window
  last,     \* runs so far
  open,     \* LLM calls under way in the worker
  over,     \* LLM calls that have ended
  pending,  \* llmPending: calls the panel has seen begin
  tally,    \* prompt tokens in the panel
  counted,  \* prompt tokens in the recorder
  exact,    \* history: every call of the run named its node and its usage
  lines,    \* runs.jsonl: the records in lines of their own, Junk for any other line
  tail,     \* what follows the last newline: nothing, a fragment, or a record
  written,  \* history: records whose write succeeded
  cuts,     \* history: writes that were cut short
  list,     \* the records each panel lists, newest first
  ticked    \* its compare selection

callVars == <<open, over, pending, tally, counted, exact>>
runVars == <<linked, run, last, callVars>>
fileVars == <<lines, tail, written, cuts>>
vars == <<runVars, fileVars, list, ticked>>

Junk == 0  \* a line that is no record

Init ==
  /\ linked = {} /\ run = [w \in Windows |-> None] /\ last = 0
  /\ open = {} /\ over = {} /\ pending = {} /\ tally = 0 /\ counted = 0 /\ exact = TRUE
  /\ lines = <<>> /\ tail = <<>> /\ written = {} /\ cuts = 0
  /\ list = [w \in Windows |-> <<>>] /\ ticked = [w \in Windows |-> <<>>]

-----------------------------------------------------------------------------
(* A run and its LLM calls.                                                *)

\* run_started: panel and recorder count afresh.
RunStarts(w) ==
  /\ w \in linked /\ run[w] = None /\ last < MaxRuns
  /\ last' = last + 1 /\ run' = [run EXCEPT ![w] = last']
  /\ IF w = Watched
     THEN /\ open' = {} /\ over' = {} /\ pending' = {}
          /\ tally' = 0 /\ counted' = 0 /\ exact' = TRUE
     ELSE UNCHANGED callVars
  /\ UNCHANGED <<linked, fileVars, list, ticked>>

\* A call begins; llm_start is sent only if the call knows its node.
CallStarts(c) ==
  /\ run[Watched] # None /\ c \notin open \cup over
  /\ open' = open \cup {c}
  /\ pending' \in {pending \cup {c}, pending}
  /\ UNCHANGED <<linked, run, last, over, tally, counted, exact, fileVars, list, ticked>>

\* Mutation of PanelPrompt: the estimate is kept when the exact count arrives.
PanelPrompt_Estimate(c, usage) == IF c \in pending THEN Estimated ELSE 0

\* reduce at llm_end: the exact count wins over the estimate; a call it did not see begin
\* is ignored.
PanelPrompt(c, usage) ==
  IF c \notin pending THEN 0 ELSE IF usage THEN Exact ELSE Estimated

\* The recorder adds what llm_end carries, which is no prompt tokens without usage data.
RecordedPrompt(usage) == IF usage THEN Exact ELSE 0

\* A call ends, in any order with others of the same run.
CallEnds(c, usage) ==
  /\ run[Watched] # None /\ c \in open
  /\ open' = open \ {c} /\ over' = over \cup {c}
  /\ pending' = pending \ {c}
  /\ tally' = tally + PanelPrompt(c, usage)
  /\ counted' = counted + RecordedPrompt(usage)
  /\ exact' = (exact /\ usage /\ c \in pending)
  /\ UNCHANGED <<linked, run, last, fileVars, list, ticked>>

-----------------------------------------------------------------------------
(* The file.                                                               *)

IsRecord(line) == line # Junk

\* parseRunsFile: the lines that are records, the last Cap of them, newest first.
ReadRuns ==
  LET records == SelectSeq(lines \o tail, IsRecord) IN
  Reverse(SubSeq(records, IF Len(records) > Cap THEN Len(records) - Cap + 1 ELSE 1, Len(records)))

\* Mutation of Appended: the newline is forgotten.
Appended_NoNewline(r) ==
  /\ tail' = IF tail = <<>> THEN <<r>> ELSE <<Junk>>
  /\ written' = written \cup {r} /\ UNCHANGED <<lines, cuts>>

\* appendRun writes the record and a newline behind whatever the file ends with.
Appended(r) ==
  /\ lines' = Append(lines, IF tail = <<>> THEN r ELSE Junk)
  /\ tail' = <<>>
  /\ written' = written \cup {r} /\ UNCHANGED cuts

\* The write is cut short, in the record or just before its newline.
CutShort(r) ==
  /\ tail' \in IF tail = <<>> THEN {<<Junk>>, <<r>>} ELSE {<<Junk>>}
  /\ cuts' = cuts + 1 /\ UNCHANGED <<lines, written>>

\* readRuns: an unreadable file is an empty history.
Readings == {ReadRuns, <<>>}

\* run_finished, perhaps in the middle of a call: the record is written, or cut short, or
\* not at all, and whatever became of it the history is read again and shown.
RunFinishes(w) ==
  /\ run[w] # None
  /\ run' = [run EXCEPT ![w] = None]
  /\ Appended(run[w]) \/ CutShort(run[w]) \/ UNCHANGED fileVars
  /\ \E records \in Readings' : list' = [list EXCEPT ![w] = records]
  /\ UNCHANGED <<linked, last, callVars, ticked>>

\* An error ends the run without run_finished: nothing is recorded.
RunFails(w) ==
  /\ run[w] # None
  /\ run' = [run EXCEPT ![w] = None]
  /\ UNCHANGED <<linked, last, callVars, fileVars, list, ticked>>

\* startSession: a run of the old session is dropped, its calls with it; the page of a
\* panel there is keeps its list and selection.
SessionStarts(w) ==
  /\ linked' = linked \ {w}
  /\ run' = [run EXCEPT ![w] = None]
  /\ UNCHANGED <<last, callVars, fileVars, list, ticked>>

\* A panel is created, the one before it having been closed.
PanelOpens(w) ==
  /\ linked' = linked \ {w}
  /\ run' = [run EXCEPT ![w] = None]
  /\ list' = [list EXCEPT ![w] = <<>>] /\ ticked' = [ticked EXCEPT ![w] = <<>>]
  /\ UNCHANGED <<last, callVars, fileVars>>

\* It is connected and shows the history.
SessionOpens(w) ==
  /\ w \notin linked /\ linked' = linked \cup {w}
  /\ \E records \in Readings : list' = [list EXCEPT ![w] = records]
  /\ UNCHANGED <<run, last, callVars, fileVars, ticked>>

-----------------------------------------------------------------------------
(* The comparison.                                                         *)

Without(selection, r) == At(selection, {n \in DOMAIN selection : selection[n] # r})

\* Mutation of ToggleCompare: no limit.
ToggleCompare_Unlimited(selection, r) ==
  IF r \in Range(selection) THEN Without(selection, r)
  ELSE Append(selection, r)

\* toggleCompare: at most the two picked last.
ToggleCompare(selection, r) ==
  IF r \in Range(selection) THEN Without(selection, r)
  ELSE LET longer == Append(selection, r) IN
       IF Len(longer) > 2 THEN Tail(longer) ELSE longer

\* A listed run is ticked or unticked.
Ticks(w, r) ==
  /\ r \in Range(list[w])
  /\ ticked' = [ticked EXCEPT ![w] = ToggleCompare(@, r)]
  /\ UNCHANGED <<runVars, fileVars, list>>

\* Another tab is opened: HistoryPanel is unmounted and its selection gone.
LeavesTab(w) ==
  /\ ticked' = [ticked EXCEPT ![w] = <<>>]
  /\ UNCHANGED <<runVars, fileVars, list>>

\* HistoryPanel compares the first two of the selection if both are listed.
Compared(w) ==
  LET two == {ticked[w][n] : n \in DOMAIN ticked[w] \cap {1, 2}} IN
  IF Len(ticked[w]) >= 2 /\ two \subseteq Range(list[w]) THEN two ELSE {}

\* The rows shown as ticked.
TickedRows(w) == Range(ticked[w]) \cap Range(list[w])

-----------------------------------------------------------------------------
Next ==
  \/ \E w \in Windows :
       \/ RunStarts(w) \/ RunFinishes(w) \/ RunFails(w)
       \/ SessionStarts(w) \/ PanelOpens(w) \/ SessionOpens(w) \/ LeavesTab(w)
       \/ \E r \in Runs : Ticks(w, r)
  \/ \E c \in LlmCalls : CallStarts(c) \/ \E usage \in BOOLEAN : CallEnds(c, usage)

Spec == Init /\ [][Next]_vars

-----------------------------------------------------------------------------
(* Correctness.                                                            *)

\* A run whose calls all named their node and their usage has the same prompt tokens in
\* the Tokens tab as in its record, however its calls overlap.
ExactRunsAgree == exact => tally = counted

\* A write that is cut short costs at most one record that was written whole, whichever
\* windows the writes come from ("skip it and keep the rest", runhistory.ts).
LossBounded == Cardinality(written \ Range(lines \o tail)) <= cuts

\* Two ticked rows are compared, and only they, whatever has been ticked before and
\* whichever runs have left the list since.
ComparedAreTicked ==
  \A w \in Windows :
    Compared(w) = IF Cardinality(TickedRows(w)) = 2 THEN TickedRows(w) ELSE {}
=============================================================================
