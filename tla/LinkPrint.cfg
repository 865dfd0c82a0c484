SPECIFICATION LinkSpec
CONSTANTS
  MaxStarts = 1
  MaxPosts = 0
  MaxEvents = 2
INVARIANTS LoadAnswered
\* nothing happens once every start has settled and every child is gone
CHECK_DEADLOCK FALSE
