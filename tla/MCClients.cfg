SPECIFICATION MCSpec
CONSTANTS
  s1 = s1
  Listed = {s1}
  Limits <- MCLimits
  Capacity = 2
  KeepDays = 1
  Days = 3
  k1 = k1
  k2 = k2
  Keys = {k1, k2}
  AskSets <- MCAsks
  None = None
  Peers = {q1, q2}
  Addressed = {q1}
  TTL = 1
  MaxClock = 2
  MaxVersion = 1
  MaxChanges = 1
  MaxDowns = 1
  MaxWire = 1
  Sockets = {1, 2}
  MaxDown = 2
  MaxPress = 3
  Starts <- MCStarts
  MaxKeys = 4
  MaxSetups = 2
  Procs = {p1, p2}
  MaxRuns = 3
  MaxEdits = 1
INVARIANTS
  JournalIsWhole
  ConnectedSeesAll
  EditorIsServed
  ScreenIsTrue
  RowsAreDone
  SnapshotsAreDue
PROPERTY OthersAreKeptAlone
CHECK_DEADLOCK FALSE
