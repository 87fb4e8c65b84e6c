SPECIFICATION FairSpec
CONSTANTS
  N = 3
  Founder = 2
  None = None
  Rejoins = FALSE
  MaxTime = 3
  MaxSigned = 3
  MaxInFlight = 1
  MaxLosses = 1
  MaxRestarts = 0
PROPERTY Converges
CHECK_DEADLOCK FALSE
