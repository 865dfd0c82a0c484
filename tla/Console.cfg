SPECIFICATION FairSpec
CONSTANTS
  Nodes = {ingest, plan}
  MaxPosts = 3
  MaxNodes = 2
INVARIANTS TypeOK HistoryTrue InputRecorded Steerable
PROPERTIES StopAnswered
\* the user may stop clicking
CHECK_DEADLOCK FALSE
