SPECIFICATION Spec
CONSTANTS
  MaxStarts = 2
INVARIANTS LiveOwned
\* nothing happens once every start has settled and every child is gone
CHECK_DEADLOCK FALSE
