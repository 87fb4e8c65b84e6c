SPECIFICATION MCSpec
CONSTANTS
  Nodes = {n1, n2}
  Sessions = {s1, s2}
  Home <- MCHome
  Cases <- MCCases
  MaxHolders = 2
  Environments <- MCRough
  n1 = n1
  n2 = n2
  s1 = s1
  s2 = s2
  None = None
  Calls = {c1, c2}
  Requests = {r1}
  Humans = {h1, h2}
  Harnesses = {x1}
  Callers = {c1, c2}
  MaxTime = 2
  Late = 2
INVARIANTS
  GateIsHeld
  RunsAndIsTold
PROPERTIES
  CallsAreSettled
  CallsReturn
  ToldIsTrue
  AllSendsReturn
CHECK_DEADLOCK FALSE
