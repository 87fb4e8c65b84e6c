CONSTANTS
  MaxRequests = 1
  MaxPrompts = 1
  MaxUpdates = 1
  MaxBuffer = 2
  MaxEvents = 1
SPECIFICATION Spec
INVARIANT BlockedIsNoticed
CHECK_DEADLOCK FALSE
