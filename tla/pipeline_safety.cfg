SPECIFICATION Spec
CONSTANTS
  t1 = t1
  t2 = t2
  h1 = h1
  LogThreads = {t1, t2}
  Handles = {h1}
  NA = 2
  StreamOf <- LastArchive
  Capacity <- LogRingOfTwo
  MaxCalls = 0
  Tireless = {t1, t2, h1}
  Panicky = {h1}
  Options <- AnyOption
SYMMETRY ThreadSymmetry
INVARIANTS TypeOK ClaimsStayInPlace FlushedBeforeSleep DrainLeavesNoCommittedHead OneLateRecordPerThread
