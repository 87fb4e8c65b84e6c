SPECIFICATION MCSpec
CONSTANTS
  N = 3
  Founder = 2
  None = None
  Rejoins = FALSE
  MaxTime = 3
  MaxSigned = 3
  MaxInFlight = 1
  MaxLosses = 1
  MaxRestarts = 1
  Peers = {p1}
  Addressed = {}
  TTL = 1
  MaxClock = 2
  MaxVersion = 2
  MaxChanges = 3
  MaxDowns = 1
  MaxWire = 1
  Daemons = {d1, d2}
  MaxStarts = 3
INVARIANT CrashedIsGone
PROPERTIES
  RevokedStay
  AllConverge
  ViewCatchesUp
  RefusedForAnother
  HolderIsServed
CHECK_DEADLOCK FALSE
