SPECIFICATION MCSpec
CONSTANTS
  MaxRequests = 2
  MaxPrompts = 1
  MaxUpdates = 1
  MaxBuffer = 2
  MaxEvents = 2
  Nodes = {n1, n2}
  Origin = n1
  MaxKeys = 3
  MaxCalls = 2
  MaxTurns = 1
  MaxRestarts = 1
  Ids = {h1, h2}
  PeersToo = {h1}
  Capacity = 1
  MaxEntries = 2
  MaxFrames = 1
INVARIANTS
  RequestsAreRelayed
  OnePlace
  TranscriptIsWhole
  InOrder
PROPERTIES
  RelayComesThrough
  AllHandoffsEnd
  NoneWaitsForEver
CHECK_DEADLOCK FALSE
