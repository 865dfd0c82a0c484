----------------------------- MODULE Selection -----------------------------
(***************************************************************************)
(* Choosing the graph of a workspace, extension.ts and entryWizard.ts: the  *)
(* command graphloupe.selectGraph asks discovery for entries, shows them,   *)
(* or lets the user point at a symbol of a file and writes an adapter       *)
(* module for it; then it saves the setting graphEntry and starts a session *)
(* that reads it.  The command is asynchronous throughout and may be given  *)
(* again, and the panel reloaded, at any of its awaits.                     *)
(*                                                                         *)
(* A graph is named by its own entry or through the one adapter module of   *)
(* the project, whose entry is the same whatever it points at.              *)
(*                                                                         *)
(* startSession reads the setting when it begins and is in force when it    *)
(* has connected; what it awaits in between is SidecarSession's.  Starts    *)
(* may overlap: any of them may connect last, or fail and kill whatever     *)
(* sidecar there is by then.                                                *)
(* The names of the specification say Selection: SetupProofs extends both   *)
(* this module and Setup, the two halves of what a session starts from.     *)
(***************************************************************************)
EXTENDS Sequences, FiniteSets

CONSTANTS
  Graphs,      \* the project's graphs
  Discovered,  \* those that static discovery can find
  Dialogs,     \* bound: runs of selectGraph at a time
  Slots,       \* bound: calls of startSession at a time
  Adapter,     \* ADAPTER_ENTRY
  Unset        \* no entry, no graph, or an adapter that cannot be imported

ASSUME SelectionAssumption ==
  Discovered \subseteq Graphs /\ Adapter \notin Graphs /\ Unset \notin Graphs \cup {Adapter}

VARIABLES
  setting,  \* graphloupe.graphEntry of the workspace
  adapter,  \* the graph .graphloupe/entry.py points at
  dialog,   \* what each run of selectGraph awaits
  saving,   \* its updates of the setting, which VS Code writes one after another
  starting, \* the calls of startSession under way
  read,     \* the entry each has read
  newest,   \* history: the call begun last
  session,  \* the one in force: its entry, the graph its worker loaded, and whether its
            \* call was begun last
  chosen,   \* history: the graph confirmed last
  failed    \* history: a write of the adapter or of the setting failed since then

started == <<starting, read, newest, session>>
selectionVars == <<setting, adapter, dialog, saving, started, chosen, failed>>

NoSession == [entry |-> Unset, graph |-> Unset, newest |-> FALSE]

SelectionInit ==
  /\ setting = Unset /\ adapter = Unset
  /\ dialog = [d \in Dialogs |-> "closed"]
  /\ saving = <<>>
  /\ starting = {} /\ read = [c \in Slots |-> Unset] /\ newest \in Slots
  /\ session = NoSession
  /\ chosen = Unset /\ failed = FALSE

Enters(d, phase) == dialog' = [dialog EXCEPT ![d] = phase]

\* A quick pick replaces the one that is open, whose command ends with nothing picked.
Shows(d, phase) ==
  dialog' = [e \in Dialogs |-> IF e = d THEN phase
                               ELSE IF dialog[e] \in {"entries", "symbols"} THEN "closed"
                               ELSE dialog[e]]

\* startSession kills the session there is and reads the setting as it is now.
ReadsEntry(entry) ==
  /\ session' = NoSession
  /\ \E c \in Slots \ starting :
       /\ starting' = starting \cup {c} /\ newest' = c
       /\ read' = [read EXCEPT ![c] = entry]

-----------------------------------------------------------------------------
\* selectGraph: discovery resolves an interpreter and scans the project.
Opens(d) ==
  /\ dialog[d] = "closed" /\ Enters(d, "discovery")
  /\ UNCHANGED <<setting, adapter, saving, started, chosen, failed>>

\* Its list is shown, empty if there was no interpreter or no answer; the manual way is
\* always in it.
Lists(d) ==
  /\ dialog[d] = "discovery" /\ Shows(d, "entries")
  /\ UNCHANGED <<setting, adapter, saving, started, chosen, failed>>

\* The user cancels, or the file chosen has no top-level symbol.
Cancels(d) ==
  /\ dialog[d] \in {"entries", "file", "symbols"} /\ Enters(d, "closed")
  /\ UNCHANGED <<setting, adapter, saving, started, chosen, failed>>

\* specifyGraphManually: a file first, then its symbols.
PicksManual(d) ==
  /\ dialog[d] = "entries" /\ Enters(d, "file")
  /\ UNCHANGED <<setting, adapter, saving, started, chosen, failed>>

\* symbolsOf scans the file and its symbols are shown: those that look like a graph, or
\* all if none does.
PicksFile(d) ==
  /\ dialog[d] = "file" /\ Shows(d, "symbols")
  /\ UNCHANGED <<setting, adapter, saving, started, chosen, failed>>

\* An entry is confirmed: the update of the setting is asked for and awaited.
Confirms(d, g, entry) ==
  /\ Enters(d, "saving")
  /\ saving' = Append(saving, <<d, entry>>)
  /\ chosen' = g /\ failed' = FALSE
  /\ UNCHANGED <<setting, started>>

PicksEntry(d, g) ==
  /\ dialog[d] = "entries" /\ g \in Discovered
  /\ Confirms(d, g, g)
  /\ UNCHANGED adapter

\* Mutation of PicksSymbol: an adapter that is there is not written again.
PicksSymbol_Once(d, g) ==
  /\ dialog[d] = "symbols"
  /\ adapter' = IF adapter = Unset THEN g ELSE adapter
  /\ Confirms(d, g, Adapter)

\* The adapter is written for the symbol picked; the entry is the adapter's.
PicksSymbol(d, g) ==
  /\ dialog[d] = "symbols"
  /\ adapter' = g
  /\ Confirms(d, g, Adapter)

\* The write fails, before or after the old adapter was truncated.
AdapterFails(d) ==
  /\ dialog[d] = "symbols" /\ Enters(d, "closed")
  /\ adapter' \in {adapter, Unset}
  /\ failed' = TRUE
  /\ UNCHANGED <<setting, saving, started, chosen>>

\* The oldest update is written and its command goes on to start a session.
Saved ==
  /\ saving # <<>>
  /\ LET d == Head(saving)[1]  entry == Head(saving)[2] IN
       setting' = entry /\ Enters(d, "closed") /\ ReadsEntry(entry)
  /\ saving' = Tail(saving)
  /\ UNCHANGED <<adapter, chosen, failed>>

\* The settings cannot be written: the command ends there.
SaveFails ==
  /\ saving # <<>>
  /\ Enters(Head(saving)[1], "closed")
  /\ saving' = Tail(saving) /\ failed' = TRUE
  /\ UNCHANGED <<setting, adapter, started, chosen>>

\* open, reload or restart.
Reloads ==
  /\ ReadsEntry(setting)
  /\ UNCHANGED <<setting, adapter, dialog, saving, chosen, failed>>

\* A start has connected: `socket` is its from now on, whatever it was.
Connects(c) ==
  /\ c \in starting /\ starting' = starting \ {c}
  /\ session' = [entry |-> read[c], graph |-> Unset, newest |-> (c = newest)]
  /\ UNCHANGED <<setting, adapter, dialog, saving, read, newest, chosen, failed>>

\* A start fails, and kills the sidecar there is.
StartFails(c) ==
  /\ c \in starting /\ starting' = starting \ {c}
  /\ session' = NoSession
  /\ UNCHANGED <<setting, adapter, dialog, saving, read, newest, chosen, failed>>

\* The session's worker imports its entry, through the adapter if that is the entry.
Loads ==
  /\ session.entry # Unset /\ session.graph = Unset
  /\ session' = [session EXCEPT !.graph = IF session.entry = Adapter THEN adapter ELSE session.entry]
  /\ UNCHANGED <<setting, adapter, dialog, saving, starting, read, newest, chosen, failed>>

SelectionNext ==
  \/ \E d \in Dialogs :
       \/ Opens(d) \/ Lists(d) \/ Cancels(d) \/ PicksManual(d) \/ PicksFile(d) \/ AdapterFails(d)
       \/ \E g \in Graphs : PicksEntry(d, g) \/ PicksSymbol(d, g)
  \/ \E c \in Slots : Connects(c) \/ StartFails(c)
  \/ Saved \/ SaveFails \/ Reloads \/ Loads

SelectionSpec == SelectionInit /\ [][SelectionNext]_selectionVars

-----------------------------------------------------------------------------
(* Correctness.                                                            *)

\* Once no choice is being saved, a session whose start was begun last runs the graph
\* confirmed last, whatever dialogs, reloads and older starts were under way beside it: no
\* older choice and no stale adapter is left in force, unless a write failed since.
LastChoiceRuns ==
  saving = <<>> /\ ~failed /\ session.newest /\ session.graph # Unset => session.graph = chosen

\* extension.ts:374-375: a start is to "kill any old worker"; so once everything has
\* settled the session in force runs the graph confirmed last, whichever start came last.
LastChoiceWins ==
  saving = <<>> /\ starting = {} /\ ~failed /\ session.graph # Unset => session.graph = chosen
=============================================================================
