SPECIFICATION Spec
CONSTANTS
  MaxHolders = 3
  Environments <- MCEnvironments
INVARIANTS SingleHome ParkedOrRunning FilesAreKept
PROPERTY KeepsPromise
CHECK_DEADLOCK FALSE
