SPECIFICATION FairSpec
CONSTANTS
  ingest = ingest
  plan = plan
  Nodes <- MCNodes
  Entry = ingest
  Succ <- MCSucc
  Manual <- MCManual
  HasCheckpointer = TRUE
  RecursionLimit = 2
  Offered <- LiveKinds
  MaxLines = 4
PROPERTIES EveryLineTaken StopEndsRun
CHECK_DEADLOCK FALSE
