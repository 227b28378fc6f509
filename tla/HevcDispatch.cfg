CONSTANTS
  MaxVps = 1
  MaxSps = 1
  MaxPps = 2
  VpsContents = {"v"}
  SpsContents = {"short", "long"}
  PpsContents = {"p", "q"}
  NoSet = NoSet
  Int32Max = 3
  IdByte = 3
  MaxChunk = 2
  Calls <- MCCalls
  Sets <- MCSets
  Slices <- MCSlices
  LsbPeriod <- MCLsbPeriod
SPECIFICATION Spec
INVARIANTS TypeOK ManagerHoldsLatest TrackerFollowsListener SlicesAreShownRight
