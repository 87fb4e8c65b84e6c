SPECIFICATION Spec
CONSTANTS
  a = a
  b = b
  n1 = n1
  n2 = n2
  p1 = p1
  p2 = p2
  None = None
  Keys = {a}
  Pids = {p1, p2}
  PidOf <- MCPidOf
  Lineage <- MCLineage
  Harness = {a}
  Driven = {a}
  Names = {n1, n2}
  Activities = {"idle", "working"}
  MaxTime = 2
  MaxSeq = 2
  MaxRestarts = 1
  CleanRestarts = TRUE
INVARIANTS TypeOK OriginsAreTruthful SeqsFollowRecords SeqIsCurrent
PROPERTIES ClaimsStand ClaimsOnlyAdvance KeepsPromise
CHECK_DEADLOCK FALSE
