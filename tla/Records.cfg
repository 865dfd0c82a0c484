SPECIFICATION Spec
CONSTANTS
  Windows = {left, right}
  Watched = left
  LlmCalls = {plan, tool}
  MaxRuns = 3
  Cap = 2
INVARIANTS ExactRunsAgree LossBounded ComparedAreTicked
