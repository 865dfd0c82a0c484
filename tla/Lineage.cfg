SPECIFICATION Spec
CONSTANTS
  plan = plan
  tool = tool
  answer = answer
  audit = audit
  msg = msg
  v1 = v1
  START = START
  END = END
  Absent = Absent
  NoNode = NoNode
  Nodes <- LoopNodes
  Rank <- LoopRank
  Targets <- LoopTargets
  Routers = {plan}
  Channels = {msg}
  Values = {v1, v2}
  Inputs <- LoopInputs
  HistoryLimit = 4
  MaxCheckpoints = 7
INVARIANTS TypeOK HistoryCoversPath TimelineAccounts TimelineNamesRan DecisionsMatch
\* the thread ends at MaxCheckpoints
CHECK_DEADLOCK FALSE
