SPECIFICATION Spec
CONSTANTS
  b1 = b1
  b2 = b2
  s1 = s1
  c1 = c1
  Nobody = Nobody
  Builders = {b1, b2}
  Setters = {s1}
  Callers = {c1}
  Levels = {0, 3, 5}
  MaxSets = 1
  MaxLogs = 2
SYMMETRY Symmetry
INVARIANTS TypeOK LateBuildFails FailedBuildLeavesNoTrace PassedGateFindsLogger LastLevelHolds
CHECK_DEADLOCK FALSE
