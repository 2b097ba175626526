SPECIFICATION TimedSpec
CONSTANTS
  t1 = t1
  t2 = t2
  h1 = h1
  LogThreads = {t1, t2}
  Handles = {}
  NA = 0
  StreamOf <- NoArchive
  Capacity <- RingsOfOne
  MaxCalls = 2
  Tireless = {}
  Panicky = {t1}
  Options <- BackoffParked
PROPERTY BackoffCallReturns
