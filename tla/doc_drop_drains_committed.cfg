SPECIFICATION Spec
CONSTANTS
  t1 = t1
  t2 = t2
  h1 = h1
  LogThreads = {t1, t2}
  Handles = {}
  NA = 0
  StreamOf <- NoArchive
  Capacity <- LogRingOfTwo
  MaxCalls = 1
  Tireless = {}
  Panicky = {}
  Options <- AnyOption
INVARIANT DropDrainsCommitted
