SPECIFICATION FairSpec
CONSTANTS
  a = a
  b = b
  n1 = n1
  n2 = n2
  p1 = p1
  p2 = p2
  None = None
  Keys = {a, b}
  Pids = {p1, p2}
  PidOf <- MCPidOf
  Lineage <- MCLineage
  Harness = {a, b}
  Driven = {a}
  Names = {}
  Activities = {"idle"}
  MaxTime = 1
  MaxSeq = 1
  MaxRestarts = 1
  CleanRestarts = TRUE
INVARIANTS AliasesPointAtRecords
PROPERTY ListingIsTrue
CHECK_DEADLOCK FALSE
