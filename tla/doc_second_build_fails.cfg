SPECIFICATION Spec
CONSTANTS
  b1 = b1
  b2 = b2
  s1 = s1
  c1 = c1
  Nobody = Nobody
  Builders = {b1, b2}
  Setters = {}
  Callers = {}
  Levels = {0, 3}
  MaxSets = 1
  MaxLogs = 2
INVARIANT GuardIsOfTheLogger
CHECK_DEADLOCK FALSE
