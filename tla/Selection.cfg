SPECIFICATION SelectionSpec
CONSTANTS
  Graphs = {planner, router}
  Discovered = {planner}
  Dialogs = {first, second}
  Slots = {c1, c2}
  Adapter = Adapter
  Unset = Unset
INVARIANTS LastChoiceRuns
