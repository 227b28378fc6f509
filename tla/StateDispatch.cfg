CONSTANTS
  Codecs <- MCCodecs
  MaxSps = 1
  MaxPps = 2
  Contents <- MCContents
  MinLsbPeriod <- MCMinLsbPeriod
  NoSet = NoSet
  IdByte = 3
  MaxChunk = 3
  MaxMsb = 4
  Calls <- MCCalls
  Sets <- MCSets
  Slices <- MCSlices
  Sequences = {"s1", "s2"}
SPECIFICATION Spec
INVARIANTS TypeOK ManagerHoldsLatest TrackerFollowsListener SlicesAreShownRight FramesReadTheirSequence
PROPERTY NumbersGrow
