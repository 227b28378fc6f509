CONSTANTS
  MaxVps = 1
  MaxSps = 1
  MaxPps = 2
  IdByte = 3
  SpsContents = {"short", "long"}
  NoSet = NoSet
  Int32Max = 3
  PictureHeaders <- MCParsedHeaders
  Calls <- MCCalls
  Sets <- MCSets
  LsbPeriod <- MCLsbPeriod
  SentHeaders <- MCSentHeaders
  SliceTypes <- MCSliceTypes
SPECIFICATION Spec
INVARIANTS ManagerHoldsLatest TrackerFollowsListener SlicesAreShownRight
