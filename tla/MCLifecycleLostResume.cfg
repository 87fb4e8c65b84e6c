SPECIFICATION Spec
CONSTANTS
  MaxHolders = 2
  Environments <- MCKilled
PROPERTY NothingIsLost
CHECK_DEADLOCK FALSE
