SPECIFICATION Spec
CONSTANTS
  t1 = t1
  t2 = t2
  Threads <- MCThreads
  Codecs <- MCCodecs
  MaxCalls = 2
  MaxUnits = 2
SYMMETRY ThreadsAlike
INVARIANTS TypeOK OwnCallbacks ReportsAreWhole MirrorsAreFreed TypedSlotsAreIdle
CHECK_DEADLOCK FALSE
