SPECIFICATION Spec
CONSTANTS
  MaxCalls = 3
  Deps = {fastapi, websockets}
  Probed = {fastapi}
INVARIANTS FailsForCause
PROPERTIES SoloSpawnFindsDeps
\* every call may be over
CHECK_DEADLOCK FALSE
