SPECIFICATION Spec
CONSTANTS
  Nodes = {n1, n2}
  Origin = n1
  MaxKeys = 3
  MaxCalls = 1
  MaxTurns = 0
  MaxRestarts = 0
INVARIANT CannotBeResumedTwice
CHECK_DEADLOCK FALSE
