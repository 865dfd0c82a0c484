SPECIFICATION Spec
CONSTANTS
  Decisions = {redo, approve, stop}
  Nothing = Nothing
  MaxLen = 4
INVARIANTS Lossless Longest ChangedDiffers Divergence
\* a finished comparison takes no further step
CHECK_DEADLOCK FALSE
