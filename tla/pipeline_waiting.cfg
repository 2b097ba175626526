SPECIFICATION FairSpec
CONSTANTS
  t1 = t1
  t2 = t2
  h1 = h1
  LogThreads = {t1, t2}
  Handles = {h1}
  NA = 1
  StreamOf <- OneArchive
  Capacity <- RingsOfOne
  MaxCalls = 2
  Tireless = {}
  Panicky = {}
  Options <- BackoffParked
PROPERTIES BackoffCallReturns EverythingComesOut
