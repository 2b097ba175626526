SPECIFICATION DSpec
CONSTANTS
  t1 = t1
  h1 = h1
  h2 = h2
  LogThreads = {t1}
  Handles = {h1, h2}
  NA = 1
  StreamOf <- SharedArchive
  Capacity <- ArchiveRingOfTwo
  MaxCalls = 2
  Tireless = {}
  Panicky = {t1}
  Failing = {0}
  Options <- BackoffSpinning
SYMMETRY HandleSymmetry
INVARIANTS DTypeOK OutputInCallOrder BackoffLosesNothing
PROPERTY IsService
