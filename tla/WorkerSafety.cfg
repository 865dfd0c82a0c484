SPECIFICATION Spec
CONSTANTS
  ingest = ingest
  plan = plan
  Nodes <- MCNodes
  Entry = ingest
  Succ <- MCSucc
  Manual <- MCManual
  HasCheckpointer = TRUE
  RecursionLimit = 3
  Offered <- AllKinds
  MaxLines = 4
INVARIANTS TypeOK AbortOwned OneLateEvent BreakpointsHonoured StepRunsOneNode
PROPERTIES PauseJustified PauseLeftOnPurpose ImplementsProtocol
\* the worker stops for good when its input does
CHECK_DEADLOCK FALSE
