SPECIFICATION FairSpec
CONSTANTS
  MaxStarts = 3
INVARIANTS TypeOK SoloOwned SoloRunning SoloFailed
PROPERTIES KilledNotBlamed StartSettles
\* nothing happens once every start has settled and every child is gone
CHECK_DEADLOCK FALSE
