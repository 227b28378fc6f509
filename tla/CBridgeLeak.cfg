SPECIFICATION Spec
CONSTANTS
  t1 = t1
  t2 = t2
  Threads <- MCThreads
  Codecs <- FewCodecs
  MaxCalls = 2
  MaxUnits = 2
INVARIANT NothingLeaks
CHECK_DEADLOCK FALSE
