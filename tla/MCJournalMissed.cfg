SPECIFICATION Spec
CONSTANTS
  s1 = s1
  Sessions = {s1}
  Capacity = 2
  KeepDays = 1
  Days = 3
  Limits <- MCLimits
INVARIANT NeverMisses
CHECK_DEADLOCK FALSE
